----------------------------- MODULE GopherSite ------------------------------
(***************************************************************************)
(* internal/gopher: which page a selector is answered with.  A selector is *)
(* the sequence of its path's parts, "/" and the empty selector being      *)
(* <<>>.  A page is                                                        *)
(*   [form |-> "menu" | "text", error, shows, links, thread]               *)
(* shows the ids of the events it lists, in order; links the items a       *)
(* client can follow, each with the form its item type promises; thread    *)
(* the tree it draws, if it draws one.  Titles, counters, headers, footers *)
(* and the text of an event are left out.                                  *)
(* events is what is stored, ok whether the store answers queries, site    *)
(* the configuration: [behavior, sections, limits, showThread].            *)
(***************************************************************************)
EXTENDS Sections, TLC

CONSTANTS
  itemsPerPage,          \* entries of a listing page (9)
  GopherListLimit,       \* entries a listing asks for (100)
  GopherSearchLimit,     \* results of a search (20)
  MaxPage                \* a bound of the model: page numbers a client types

Ids(s) == [i \in DOMAIN s |-> s[i].id]

(* Item types 1 and 0: the page behind the link is a menu, or text.        *)
AddDirectory(selector) == [form |-> "menu", to |-> selector]
AddTextFile(selector)  == [form |-> "text", to |-> selector]
Home == AddDirectory(<<>>)

Gophermap(shows, links) ==
  [form |-> "menu", error |-> FALSE, shows |-> shows, links |-> links, thread |-> NoThread]
PlainText(shows, thread) ==
  [form |-> "text", error |-> FALSE, shows |-> shows, links |-> {}, thread |-> thread]

(* errorResponse, and the "not found" menus.                               *)
errorResponse(links) == [Gophermap(<<>>, links) EXCEPT !.error = TRUE]

-----------------------------------------------------------------------------
(* Pagination.                                                             *)

(* The first "page" followed by a positive number, and what is left.       *)
parsePageFromParts(parts) ==
  LET numerals == {ToString(n) : n \in 1..MaxPage}
      at == {i \in 1..(Len(parts) - 1) : parts[i] = "page" /\ parts[i + 1] \in numerals}
  IN  IF at = {} THEN [page |-> 1, remaining |-> parts]
      ELSE LET i == CHOOSE j \in at : \A k \in at : j <= k
           IN  [page      |-> CHOOSE n \in 1..MaxPage : ToString(n) = parts[i + 1],
                remaining |-> SubSeq(parts, 1, i - 1) \o SubSeq(parts, i + 2, Len(parts))]

(* Variant of addPaginationLinks: the last page counts only if it is full. *)
linksToFullPages(base, page, totalItems) ==
  LET totalPages == totalItems \div itemsPerPage
      goto(n)    == AddDirectory(<<base, "page", ToString(n)>>)
  IN  {Home} \cup (IF page > 1 THEN {goto(page - 1)} ELSE {})
             \cup (IF page < totalPages THEN {goto(page + 1)} ELSE {})

addPaginationLinks(base, page, totalItems) ==
  LET totalPages == (totalItems + itemsPerPage - 1) \div itemsPerPage
      goto(n)    == AddDirectory(<<base, "page", ToString(n)>>)
  IN  {Home} \cup (IF page > 1 THEN {goto(page - 1)} ELSE {})
             \cup (IF page < totalPages THEN {goto(page + 1)} ELSE {})

paginateItems(items, page) ==
  SubSeq(items, (page - 1) * itemsPerPage + 1, Smaller(page * itemsPerPage, Len(items)))

NoteLinks(s) == {AddTextFile(<<"note", s[i].id>>) : i \in DOMAIN s}

(* The body the four listing handlers share.                               *)
Listing(ok, base, found, page) ==
  IF ~ok THEN errorResponse({Home})
  ELSE LET shown == paginateItems(found, page)
       IN  Gophermap(Ids(shown), NoteLinks(shown) \cup addPaginationLinks(base, page, Len(found)))

-----------------------------------------------------------------------------
(* A note and a thread.  Their reads are separate statements: the page is  *)
(* built from what each of them found (a sequence of at most one event).   *)

RenderNote(note) == PlainText(<<note.id>>, NoThread)

RenderProfile(profile) == PlainText(<<profile.id>>, NoThread)

RenderNoteWithThread(note, thread, site) ==
  IF site.showThread THEN [RenderNote(note) EXCEPT !.thread = thread] ELSE RenderNote(note)

NotePage(found, thread, site) ==
  IF found = <<>> THEN errorResponse({Home}) ELSE RenderNoteWithThread(found[1], thread, site)

(* Every node carries its portal links, which lead out of the gateway;     *)
(* "Back to note" is a directory item although the note is text.           *)
RenderThreadGophermap(thread) ==
  [Gophermap(<<>>, {AddDirectory(<<"note", thread.focus>>), Home}) EXCEPT !.thread = thread]

ThreadPage(thread) ==
  IF thread = NoThread THEN errorResponse({Home}) ELSE RenderThreadGophermap(thread)

handleNote(events, ok, site, id) ==
  IF ~ok THEN errorResponse({Home})
  ELSE NotePage(QueryEvents(events, [Everything EXCEPT !.ids = {id}]),
                GetThreadByEvent(events, id, site.limits), site)

handleThread(events, ok, site, id) ==
  IF ~ok THEN errorResponse({Home}) ELSE ThreadPage(GetThreadByEvent(events, id, site.limits))

-----------------------------------------------------------------------------
(* The other handlers.                                                     *)

handleRoot ==
  Gophermap(<<>>, {AddDirectory(<<p>>) : p \in {"notes", "articles", "replies", "mentions",
                                                "search", "diagnostics"}})

(* Whatever follows /notes and is not a page names a note.                 *)
handleNotes(events, ok, site, parts) ==
  LET asked == parsePageFromParts(parts)
      rest  == asked.remaining
  IN  IF rest # <<>> /\ rest[1] \notin {"", "page"}
      THEN handleNote(events, ok, site, rest[1])
      ELSE Listing(ok, "notes", GetNotes(events, site.behavior, GopherListLimit), asked.page)

handleArticles(events, ok, site, parts) ==
  Listing(ok, "articles", GetArticles(events, site.behavior, GopherListLimit),
          parsePageFromParts(parts).page)

handleReplies(events, ok, site, parts) ==
  Listing(ok, "replies", GetReplies(events, site.behavior, GopherListLimit),
          parsePageFromParts(parts).page)

handleMentions(events, ok, site, parts) ==
  Listing(ok, "mentions", GetMentions(events, site.behavior, GopherListLimit),
          parsePageFromParts(parts).page)

handleProfile(events, ok, pubkey) ==
  LET found == QueryEvents(events, [Everything EXCEPT !.kinds = {0}, !.authors = {pubkey},
                                                      !.limit = 1])
  IN  IF ~ok \/ found = <<>> THEN errorResponse({Home}) ELSE RenderProfile(found[1])

handleDiagnostics == Gophermap(<<>>, {Home})

(* Variant of handleSearch: a profile is linked by its event, not its author. *)
searchLinkingEvents(events, ok, parts) ==
  LET found == QueryEventsWithSearch(events,
                 [Everything EXCEPT !.kinds = {0, 1, 30023}, !.limit = GopherSearchLimit],
                 parts[1])
      search == AddDirectory(<<"search">>)
      linkTo(e) == AddTextFile(<<IF e.kind = 0 THEN "profile" ELSE "note", e.id>>)
  IN  IF parts = <<>> \/ parts[1] = "" THEN Gophermap(<<>>, {Home})
      ELSE IF ~ok THEN errorResponse({search})
      ELSE IF found = <<>> THEN Gophermap(<<>>, {search})
      ELSE Gophermap(Ids(found), {linkTo(found[i]) : i \in DOMAIN found} \cup {search, Home})

handleSearch(events, ok, parts) ==
  LET found == QueryEventsWithSearch(events,
                 [Everything EXCEPT !.kinds = {0, 1, 30023}, !.limit = GopherSearchLimit],
                 parts[1])
      search == AddDirectory(<<"search">>)
      linkTo(e) == AddTextFile(IF e.kind = 0 THEN <<"profile", e.author>> ELSE <<"note", e.id>>)
  IN  IF parts = <<>> \/ parts[1] = "" THEN Gophermap(<<>>, {Home})
      ELSE IF ~ok THEN errorResponse({search})
      ELSE IF found = <<>> THEN Gophermap(<<>>, {search})
      ELSE Gophermap(Ids(found), {linkTo(found[i]) : i \in DOMAIN found} \cup {search, Home})

(* A "more" link to a section that is not registered or has no path is     *)
(* left out.                                                               *)
MoreLinks(section, sections) ==
  {s.path : s \in {t \in sections : t.name = section.moreLink /\ t.path # NoPath}}

(* The sections of one path, each with its first page; a section whose     *)
(* query fails leaves a message and the others are still shown.            *)
handleSections(events, ok, here, sections) ==
  LET page(i) == IF ok THEN GetPage(events, here[i], 1).events ELSE <<>>
      shows[i \in 0..Len(here)] == IF i = 0 THEN <<>> ELSE shows[i - 1] \o Ids(page(i))
  IN  Gophermap(shows[Len(here)],
                {Home} \cup
                UNION {NoteLinks(page(i)) \cup
                       {AddDirectory(p) : p \in IF ok THEN MoreLinks(here[i], sections) ELSE {}}
                       : i \in DOMAIN here})

(* Route.  A section answers its exact path before any built-in page does. *)
(* The pages an answer can be: one, but for sections of equal order.       *)
Route(events, ok, site, selector) ==
  LET parts == Tail(selector)
      named == Len(selector) >= 2
  IN  IF \E s \in site.sections : s.path = selector
      THEN {handleSections(events, ok, here, site.sections) :
              here \in GetSectionsByPath(site.sections, selector)}
      ELSE {CASE selector = <<>> -> handleRoot
              [] selector # <<>> ->
           CASE selector[1] \in {"notes", "outbox"}  -> handleNotes(events, ok, site, parts)
             [] selector[1] = "articles"             -> handleArticles(events, ok, site, parts)
             [] selector[1] \in {"replies", "inbox"} -> handleReplies(events, ok, site, parts)
             [] selector[1] = "mentions"             -> handleMentions(events, ok, site, parts)
             [] selector[1] = "note" /\ named    -> handleNote(events, ok, site, selector[2])
             [] selector[1] = "thread" /\ named  -> handleThread(events, ok, site, selector[2])
             [] selector[1] = "profile" /\ named -> handleProfile(events, ok, selector[2])
             [] selector[1] = "diagnostics"          -> handleDiagnostics
             [] selector[1] = "search"               -> handleSearch(events, ok, parts)
             [] OTHER                                -> errorResponse({Home})}
=============================================================================
