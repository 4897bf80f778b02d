----------------------------- MODULE GeminiSite ------------------------------
(***************************************************************************)
(* internal/gemini: which response a request line is answered with.  A     *)
(* request is                                                              *)
(*   [line |-> "whole" | "broken" | "long", url |-> BOOLEAN,               *)
(*    gemini |-> BOOLEAN, path, q]                                         *)
(* whether the line could be read and was short enough, parses as a URL    *)
(* with a scheme and a host, has the scheme gemini, and its path and the q *)
(* of its query ("" when there is none).  A response is                    *)
(*   [status, shows, links, thread]                                        *)
(* links being the paths of its "=>" lines.                                *)
(***************************************************************************)
EXTENDS Sections

CONSTANTS
  GeminiListLimit,       \* entries of a listing (50)
  GeminiSearchLimit      \* results of a search (50)

Input == 10
Success == 20
TemporaryFailure == 40
NotFound == 51
ProxyRequestRefused == 53
BadRequest == 59

FormatResponse(status) == [status |-> status, shows |-> <<>>, links |-> {}, thread |-> NoThread]

FormatSuccessResponse(shows, links, thread) ==
  [status |-> Success, shows |-> shows, links |-> links, thread |-> thread]

ListOf(s) == [i \in DOMAIN s |-> s[i].id]

Note(id) == <<"note", id>>

-----------------------------------------------------------------------------
(* The renderer: which links a page carries.                               *)

RenderHome ==
  FormatSuccessResponse(<<>>, {<<p>> : p \in {"notes", "articles", "replies", "mentions",
                                              "search", "diagnostics"}}, NoThread)

RenderNoteList(found) ==
  FormatSuccessResponse(ListOf(found), {Note(found[i].id) : i \in DOMAIN found} \cup {<<>>}, NoThread)

(* Each node of the tree has a link to its note; deeper ones are hidden.   *)
ThreadLinks(thread, limits) ==
  LET drawn == UNION {NodesAtDepth(thread, d) : d \in 0..(maxDepthShown(limits) - 1)}
  IN  {Note(IF n = RootNode THEN thread.root ELSE n) : n \in drawn}
      \cup {Note(thread.focus), <<>>}

RenderThread(thread, limits) ==
  FormatSuccessResponse(<<>>, ThreadLinks(thread, limits), thread)

RenderNote(note) == FormatSuccessResponse(<<note.id>>, {<<"thread", note.id>>, <<>>}, NoThread)

RenderProfile(profile) == FormatSuccessResponse(<<profile.id>>, {<<>>}, NoThread)

RenderNoteWithThread(note, thread, site) ==
  IF thread = NoThread \/ ~site.showThread THEN RenderNote(note)
  ELSE [RenderNote(note) EXCEPT !.links = @ \cup ThreadLinks(thread, site.limits),
                                !.thread = thread]

-----------------------------------------------------------------------------
(* The handlers.                                                           *)

List(ok, found) == IF ok THEN RenderNoteList(found) ELSE FormatResponse(TemporaryFailure)

NotePage(found, thread, site) ==
  IF found = <<>> THEN FormatResponse(NotFound) ELSE RenderNoteWithThread(found[1], thread, site)

ThreadPage(thread, limits) ==
  IF thread = NoThread THEN FormatResponse(NotFound) ELSE RenderThread(thread, limits)

handleNote(events, ok, site, id) ==
  IF ~ok THEN FormatResponse(NotFound)
  ELSE NotePage(QueryEvents(events, [Everything EXCEPT !.ids = {id}]),
                GetThreadByEvent(events, id, site.limits), site)

handleThread(events, ok, site, id) ==
  IF ~ok THEN FormatResponse(NotFound)
  ELSE ThreadPage(GetThreadByEvent(events, id, site.limits), site.limits)

(* There are no pages of a listing: what follows /notes names a note.      *)
handleNotes(events, ok, site, parts) ==
  IF parts # <<>> /\ parts[1] # "" THEN handleNote(events, ok, site, parts[1])
  ELSE List(ok, GetNotes(events, site.behavior, GeminiListLimit))

handleArticles(events, ok, site) == List(ok, GetArticles(events, site.behavior, GeminiListLimit))
handleReplies(events, ok, site) == List(ok, GetReplies(events, site.behavior, GeminiListLimit))
handleMentions(events, ok, site) == List(ok, GetMentions(events, site.behavior, GeminiListLimit))

handleProfile(events, ok, pubkey) ==
  LET found == QueryEvents(events, [Everything EXCEPT !.kinds = {0}, !.authors = {pubkey},
                                                      !.limit = 1])
  IN  IF ~ok \/ found = <<>> THEN FormatResponse(NotFound)
      ELSE RenderProfile(found[1])

(* Without a q the client is asked for input; it answers with a bare       *)
(* query, which has no q either.                                           *)
handleSearch(events, ok, q) ==
  LET found == QueryEventsWithSearch(events,
                 [Everything EXCEPT !.kinds = {0, 1, 30023}, !.limit = GeminiSearchLimit], q)
      shown == IF ok THEN found ELSE <<>>
      linkTo(e) == IF e.kind = 0 THEN <<"profile", e.author>> ELSE Note(e.id)
  IN  IF q = "" THEN FormatResponse(Input)
      ELSE FormatSuccessResponse(ListOf(shown),
             {linkTo(shown[i]) : i \in DOMAIN shown} \cup {<<"search">>, <<>>}, NoThread)

handleDiagnostics == FormatSuccessResponse(<<>>, {<<>>}, NoThread)

handleSections(events, ok, here, sections) ==
  LET page(i) == IF ok THEN GetPage(events, here[i], 1).events ELSE <<>>
      shows[i \in 0..Len(here)] == IF i = 0 THEN <<>> ELSE shows[i - 1] \o ListOf(page(i))
      more == {s \in sections : s.path # NoPath /\ \E i \in DOMAIN here : here[i].moreLink = s.name}
  IN  FormatSuccessResponse(shows[Len(here)],
        {<<>>} \cup (IF ok THEN {s.path : s \in more} ELSE {})
        \cup UNION {{Note(page(i)[k].id) : k \in DOMAIN page(i)} : i \in DOMAIN here}, NoThread)

(* Route, and the checks of handleConnection that come before it.          *)
Route(events, ok, site, path, q) ==
  LET parts == Tail(path)
      named == Len(path) >= 2
  IN  IF \E s \in site.sections : s.path = path
      THEN {handleSections(events, ok, here, site.sections) :
              here \in GetSectionsByPath(site.sections, path)}
      ELSE {CASE path = <<>> -> RenderHome
              [] path # <<>> ->
           CASE path[1] \in {"notes", "outbox"}  -> handleNotes(events, ok, site, parts)
             [] path[1] = "articles"             -> handleArticles(events, ok, site)
             [] path[1] \in {"replies", "inbox"} -> handleReplies(events, ok, site)
             [] path[1] = "mentions"             -> handleMentions(events, ok, site)
             [] path[1] = "note" /\ named    -> handleNote(events, ok, site, path[2])
             [] path[1] = "thread" /\ named  -> handleThread(events, ok, site, path[2])
             [] path[1] = "profile" /\ named -> handleProfile(events, ok, path[2])
             [] path[1] = "search"               -> handleSearch(events, ok, q)
             [] path[1] = "diagnostics"          -> handleDiagnostics
             [] OTHER                            -> FormatResponse(NotFound)}

handleConnection(events, ok, site, request) ==
  IF request.line # "whole" \/ ~request.url THEN {FormatResponse(BadRequest)}
  ELSE IF ~request.gemini THEN {FormatResponse(ProxyRequestRefused)}
  ELSE Route(events, ok, site, request.path, request.q)
=============================================================================
