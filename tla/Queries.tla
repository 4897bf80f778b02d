------------------------------- MODULE Queries -------------------------------
(***************************************************************************)
(* What the protocol servers ask of the store: internal/aggregates/        *)
(* queries.go and aggregates.go, internal/storage/search.go.  Pure         *)
(* operators over the set of stored events; a result is a sequence of      *)
(* events.  The SQL behind storage.QueryEvents is the event store library  *)
(* and is modelled from how it is used.                                    *)
(***************************************************************************)
EXTENDS Threading, Integers, FiniteSets, TLC

CONSTANTS
  Owner,             \* the owner's pubkey (hex), getOwnerHex
  EngineLimit,       \* most events one query of the event store returns
  Aggregates,        \* [event id -> [replies, reactions, zapSats]]
  SatsPerPoint,      \* zapped sats worth one reaction (1000)
  MinThreadQuery,    \* clamps of threadQueryLimit (200 and 2000)
  MaxThreadQuery,
  NoThread

Smaller(a, b) == IF a < b THEN a ELSE b

(* The events of a set, each at the place that those before it leave.      *)
Ranked(events, Before(_, _)) ==
  LET ahead(e) == Cardinality({f \in events : Before(f, e)})
  IN  [n \in 1 .. Cardinality(events) |-> CHOOSE e \in events : ahead(e) = n - 1]

(* created is a rank: a tie in created_at is broken by the id in the       *)
(* database.                                                               *)
NewestFirst(events) == Ranked(events, LAMBDA e, f : e.created > f.created)

(* The events of a sequence that has none of them twice, as the results of *)
(* a query are.                                                            *)
Among(s) == {s[i] : i \in DOMAIN s}

Cut(s, limit) == SubSeq(s, 1, Smaller(Len(s), limit))

(* A nostr filter: {} and NoTime admit everything.                         *)
NoTime == -1

Everything == [ids |-> {}, kinds |-> {}, authors |-> {}, eTags |-> {},
               pTags |-> {}, since |-> NoTime, until |-> NoTime, limit |-> 0]

Admits(wanted, has) == wanted = {} \/ wanted \cap has # {}

Matches(e, filter) ==
  /\ Admits(filter.ids, {e.id})
  /\ Admits(filter.kinds, {e.kind})
  /\ Admits(filter.authors, {e.author})
  /\ Admits(filter.eTags, {e.eTags[i].id : i \in DOMAIN e.eTags})
  /\ Admits(filter.pTags, e.pTags)
  /\ filter.since # NoTime => e.created >= filter.since
  /\ filter.until # NoTime => e.created <= filter.until

(* storage.QueryEvents.                                                    *)
QueryEvents(events, filter) ==
  Cut(NewestFirst({e \in events : Matches(e, filter)}),
      IF filter.limit < 1 THEN EngineLimit ELSE Smaller(filter.limit, EngineLimit))

-----------------------------------------------------------------------------
(* Ordering and filtering by the counters of an event.                     *)

InteractionScore(agg) == agg.replies + agg.reactions + agg.zapSats \div SatsPerPoint

HasInteractions(agg) == agg.replies > 0 \/ agg.reactions > 0 \/ agg.zapSats > 0

passesContentFilter(e, rules) ==
  LET agg == Aggregates[e.id]
  IN  /\ rules.minReactions > 0 => agg.reactions >= rules.minReactions
      /\ rules.minZapSats > 0 => agg.zapSats >= rules.minZapSats
      /\ rules.minEngagement > 0 => InteractionScore(agg) >= rules.minEngagement
      /\ rules.hideNoInteractions => HasInteractions(agg)

(* What sort.Slice orders by in each mode; "chronological" keeps the order *)
(* of the query.                                                           *)
SortKey(e, mode) ==
  LET agg == Aggregates[e.id]
  IN  CASE mode = "engagement" -> InteractionScore(agg)
        [] mode = "zaps"       -> agg.zapSats
        [] mode = "reactions"  -> agg.reactions
        [] OTHER               -> 0

(* Highest key first; equal keys keep their order, newest first.  So does  *)
(* sort.Slice up to twelve elements; in a longer list equals have another  *)
(* order, the same on every request.                                       *)
HighestFirst(events, mode) ==
  Ranked(events, LAMBDA e, f : \/ SortKey(e, mode) > SortKey(f, mode)
                               \/ SortKey(e, mode) = SortKey(f, mode) /\ e.created > f.created)

filterAndSortEvents(events, rules, mode) ==
  HighestFirst({e \in events : rules.enabled => passesContentFilter(e, rules)}, mode)

-----------------------------------------------------------------------------
(* The listings.  behavior is the section of the configuration they obey:  *)
(* [rules |-> content filter, notes, articles, replies, mentions |-> sort  *)
(* modes].                                                                 *)

GetOutboxNotes(events, limit) ==
  QueryEvents(events, [Everything EXCEPT !.kinds = {1}, !.authors = {Owner}, !.limit = limit])

GetNotes(events, behavior, limit) ==
  LET asked == QueryEvents(events, [Everything EXCEPT !.kinds = {1}, !.authors = {Owner},
                                                      !.limit = 2 * limit])
      notes == {e \in Among(asked) : ~IsReply(ParseThreadInfo(e))}
  IN  Cut(filterAndSortEvents(notes, behavior.rules, behavior.notes), limit)

GetArticles(events, behavior, limit) ==
  LET asked == QueryEvents(events, [Everything EXCEPT !.kinds = {30023}, !.authors = {Owner},
                                                      !.limit = limit])
  IN  Cut(filterAndSortEvents(Among(asked), behavior.rules, behavior.articles), limit)

GetReplies(events, behavior, limit) ==
  LET asked   == QueryEvents(events, [Everything EXCEPT !.kinds = {1}, !.pTags = {Owner},
                                                        !.limit = 2 * limit])
      replies == {e \in Among(asked) : IsReply(ParseThreadInfo(e)) /\ IsMentioningPubkey(e, Owner)}
  IN  Cut(filterAndSortEvents(replies, behavior.rules, behavior.replies), limit)

(* Variant of GetMentions: it filters as GetReplies does.                  *)
MentioningReplies(events, behavior, limit) ==
  LET asked == QueryEvents(events, [Everything EXCEPT !.kinds = {1}, !.pTags = {Owner},
                                                      !.limit = limit])
      replies == {e \in Among(asked) : IsReply(ParseThreadInfo(e))}
  IN  Cut(filterAndSortEvents(replies, behavior.rules, behavior.mentions), limit)

GetMentions(events, behavior, limit) ==
  LET asked == QueryEvents(events, [Everything EXCEPT !.kinds = {1}, !.pTags = {Owner},
                                                      !.limit = limit])
  IN  Cut(filterAndSortEvents(Among(asked), behavior.rules, behavior.mentions), limit)

(* Content is the set of words of an event: matching all of it scores      *)
(* highest, and a profile gets a bonus.  Equals are newest first here; the *)
(* exchange sort of the code leaves them in another fixed order.           *)
calculateRelevance(e, term) ==
  (IF e.words = {term} THEN 110 ELSE 60) + (IF e.kind = 0 THEN 10 ELSE 0)

MostRelevantFirst(events, term) ==
  Ranked(events, LAMBDA e, f : \/ calculateRelevance(e, term) > calculateRelevance(f, term)
                               \/ /\ calculateRelevance(e, term) = calculateRelevance(f, term)
                                  /\ e.created > f.created)

(* QueryEventsWithSearch: the query keeps its limit, the matches among     *)
(* what it returned are ranked.                                            *)
QueryEventsWithSearch(events, filter, term) ==
  LET found == MostRelevantFirst({e \in Among(QueryEvents(events, filter)) : term \in e.words}, term)
  IN  IF filter.limit > 0 THEN Cut(found, filter.limit) ELSE found

-----------------------------------------------------------------------------
(* GetThreadByEvent.  Its three queries are separate statements, so they   *)
(* are separate operators here: the focus, then the root the focus names,  *)
(* then the replies that name the root.                                    *)

fetchSingleEvent(events, id) ==
  QueryEvents(events, [Everything EXCEPT !.ids = {id}, !.limit = 1])

ThreadRootOf(focus) ==
  IF isThreadableKind(focus.kind) THEN GetRootOrSelf(ParseThreadInfo(focus), focus.id)
                                  ELSE focus.id

threadQueryLimit(limits) ==
  LET wanted == limits.maxRepliesInFeed * limits.maxThreadDepth * 4
  IN  IF wanted < MinThreadQuery THEN MinThreadQuery ELSE Smaller(wanted, MaxThreadQuery)

ThreadReplies(events, rootId, limits) ==
  QueryEvents(events, [Everything EXCEPT !.kinds = {1}, !.eTags = {rootId},
                                         !.limit = threadQueryLimit(limits)])

(* The tree.  The root's node is RootNode: it is not found under an id     *)
(* when the fallback root is a reply itself, which then has a node of its  *)
(* own.  A reply of another root is attached nowhere, and neither is what  *)
(* hangs below it.                                                         *)
RootNode == "root node"

(* Variant of ThreadTree: a reply whose parent was not found hangs nowhere. *)
TreeWithoutOrphans(root, focusId, rootId, replies) ==
  LET found    == {replies[i] : i \in DOMAIN replies}
      attached == {e \in found : ParseThreadInfo(e).root \in {NoEvent, rootId}}
      parent(e) == LET to == ParseThreadInfo(e).reply
                   IN  IF to = rootId THEN RootNode ELSE to
  IN  [root   |-> root.id,
       focus  |-> focusId,
       parent |-> [id \in {e.id : e \in attached} |->
                     parent(CHOOSE e \in attached : e.id = id)]]

ThreadTree(root, focusId, rootId, replies) ==
  LET found    == {replies[i] : i \in DOMAIN replies}
      ids      == {e.id : e \in found}
      attached == {e \in found : ParseThreadInfo(e).root \in {NoEvent, rootId}}
      parent(e) == LET to == ParseThreadInfo(e).reply
                   IN  IF to \in ids THEN to ELSE RootNode
  IN  [root   |-> root.id,
       focus  |-> focusId,
       parent |-> [id \in {e.id : e \in attached} |->
                     parent(CHOOSE e \in attached : e.id = id)]]

(* GetThreadByEvent when nothing changes between its queries.              *)
GetThreadByEvent(events, id, limits) ==
  LET focus  == fetchSingleEvent(events, id)
      rootId == ThreadRootOf(focus[1])
      root   == fetchSingleEvent(events, rootId)
  IN  IF focus = <<>> THEN NoThread
      ELSE ThreadTree(IF root = <<>> THEN focus[1] ELSE root[1], id, rootId,
                      ThreadReplies(events, rootId, limits))

(* The nodes at each depth below the root, as the renderers walk the tree. *)
NodesAtDepth(tree, depth) ==
  LET level[d \in 0..depth] ==
        IF d = 0 THEN {RootNode}
        ELSE {id \in DOMAIN tree.parent : tree.parent[id] \in level[d - 1]}
  IN  level[depth] \cap (DOMAIN tree.parent \cup {RootNode})

(* Deeper nodes are replaced by a mark; no limit configured means ten.     *)
maxDepthShown(limits) == IF limits.maxThreadDepth <= 0 THEN 10 ELSE limits.maxThreadDepth
=============================================================================
