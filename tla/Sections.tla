------------------------------ MODULE Sections -------------------------------
(***************************************************************************)
(* internal/sections: custom views of the store, configured by a path and  *)
(* a filter, that override the built-in pages.  A section is a record      *)
(*   [name, path, order, kinds, authors, scope, isReply, pTags, since,     *)
(*    until, sortBy, sortOrder, limit, moreLink]                           *)
(* where isReply is the set of answers the section admits ({} when it does *)
(* not ask), and moreLink the name of another section or NoSection.  In    *)
(* the configuration since and until are absent, a time, or a duration.    *)
(***************************************************************************)
EXTENDS Queries

CONSTANTS
  HexOf,             \* [npub -> pubkey], nip19.Decode
  DefaultLimit,      \* events of a section that sets no limit (20)
  StartTime,         \* when the configuration is read, as a creation time
  NoSection

(* A duration counts from the time it is read, so a section for the last   *)
(* day goes on showing what was recent when the process started.           *)
parseTimeOrDuration(s) == IF s.form = "duration" THEN StartTime + s.value ELSE s.value

convertFilterConfig(cfg) ==
  LET time(s) == IF s.form = "absent" THEN NoTime ELSE parseTimeOrDuration(s)
  IN  [cfg EXCEPT !.since = time(@), !.until = time(@)]

(* The defaults.                                                           *)
convertConfigToSection(cfg) ==
  [convertFilterConfig(cfg) EXCEPT
              !.limit     = IF @ > 0 THEN @ ELSE DefaultLimit,
              !.sortBy    = IF @ = "" THEN "created_at" ELSE @,
              !.sortOrder = IF @ = "" THEN "desc" ELSE @]

(* Sections are kept by name, so a later one replaces an earlier one.      *)
RegisterSection(sections, section) ==
  {s \in sections : s.name # section.name} \cup {section}

(* A section without a name or with a malformed time ends run() before the *)
(* server starts; Process has that.                                        *)
LoadFromConfig(cfgs) ==
  LET registered[i \in 0..Len(cfgs)] ==
        IF i = 0 THEN {} ELSE RegisterSection(registered[i - 1], convertConfigToSection(cfgs[i]))
  IN  registered[Len(cfgs)]

(* The sections of a path by their order.  They are collected from a Go    *)
(* map, so equal orders may come out either way.                           *)
GetSectionsByPath(sections, path) ==
  LET here == {s \in sections : s.path = path}
  IN  {seq \in [1..Cardinality(here) -> here] :
         \A i, j \in DOMAIN seq : i < j => seq[i] # seq[j] /\ seq[i].order <= seq[j].order}

(* A section without a path is on no page.                                 *)
NoPath == <<"">>

normalizeAuthorValue(author) ==
  IF author \in {"owner", "self"} THEN Owner
  ELSE IF author \in DOMAIN HexOf THEN HexOf[author] ELSE author

resolveAuthors(authors, scope) ==
  LET named == {normalizeAuthorValue(a) : a \in authors \ {""}}
  IN  IF named # {} THEN named ELSE IF scope = "all" THEN {} ELSE {Owner}

(* More is asked for when the result is filtered afterwards.               *)
buildFilter(section, pageNum) ==
  [Everything EXCEPT
     !.limit   = section.limit * (IF section.isReply = {} THEN pageNum ELSE pageNum + 2),
     !.kinds   = section.kinds,
     !.authors = resolveAuthors(section.authors, section.scope),
     !.pTags   = section.pTags,
     !.since   = section.since,
     !.until   = section.until]

(* A kind that has no threads counts as a root.  What is kept stays newest *)
(* first.                                                                  *)
applyIsReplyFilter(s, isReply) ==
  IF isReply = {} THEN s
  ELSE NewestFirst({e \in Among(s) :
                      (isThreadableKind(e.kind) /\ IsReply(ParseThreadInfo(e))) \in isReply})

(* Only the two time fields are sorted by; for the others the order of the *)
(* query stays.                                                            *)
sortEvents(s, section) ==
  IF section.sortBy \in {"created_at", "published_at"} /\ section.sortOrder # "desc"
  THEN [i \in DOMAIN s |-> s[Len(s) + 1 - i]]
  ELSE s

GetPage(events, section, pageNum) ==
  LET n     == IF pageNum < 1 THEN 1 ELSE pageNum
      found == sortEvents(applyIsReplyFilter(
                 QueryEvents(events, buildFilter(section, n)), section.isReply), section)
      offset == (n - 1) * section.limit
      pages == (Len(found) + section.limit - 1) \div section.limit
  IN  [events  |-> SubSeq(found, offset + 1, Smaller(offset + section.limit, Len(found))),
       hasNext |-> n < pages,
       hasPrev |-> n > 1]
=============================================================================
