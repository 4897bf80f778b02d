---------------------------- MODULE Browsing_proofs ----------------------------
(***************************************************************************)
(* For every set of events, configuration and limit: however the store      *)
(* changes under a reader, the links served lead to pages, and the pages of *)
(* a listing or a section partition it.                                    *)
(***************************************************************************)
EXTENDS Browsing, Sums_proofs, SequenceTheorems

Everyone == {Event[id] : id \in DOMAIN Event}

-------------------------------------------------------------------------------
(* What a query returns. *)

LEMMA EventFacts ==
  /\ \A S \in SUBSET Everyone : IsFiniteSet(S) /\ Cardinality(S) \in Nat
  /\ \A e \in Everyone : e.id \in DOMAIN Event /\ Event[e.id] = e /\ e.created \in Nat
  /\ \A e, f \in Everyone : e.created = f.created => e = f
<1>1. \A e \in Everyone : e.id \in DOMAIN Event /\ Event[e.id] = e /\ e.created \in Nat
  BY BrowsingAssumption DEF Everyone
<1>2. \A e, f \in Everyone : e.created = f.created => e = f
  BY BrowsingAssumption DEF Everyone
<1>3. IsFiniteSet(Everyone)
  <2>. DEFINE ids == [e \in Everyone |-> e.id]
  <2>1. ids \in Injection(Everyone, DOMAIN Event)
    BY <1>1 DEF Injection, IsInjective
  <2>. QED BY <2>1, BrowsingAssumption, FS_Injection
<1>4. \A S \in SUBSET Everyone : IsFiniteSet(S) /\ Cardinality(S) \in Nat
  BY <1>3, FS_Subset, FS_CardinalityType
<1>. QED BY <1>1, <1>2, <1>4

\* Events ranked by a strict total order: all of them, each once.
LEMMA RankedListed ==
  ASSUME NEW S \in SUBSET Everyone, NEW R \in SUBSET (S \X S),
         \A x \in S : <<x, x>> \notin R,
         \A x, y \in S : x # y => <<x, y>> \in R \/ <<y, x>> \in R,
         \A x, y, z \in S : <<x, y>> \in R /\ <<y, z>> \in R => <<x, z>> \in R
  PROVE  LET s == [n \in 1 .. Cardinality(S) |->
                     CHOOSE e \in S : Cardinality({f \in S : <<f, e>> \in R}) = n - 1]
         IN  s \in Seq(S) /\ Len(s) = Cardinality(S)
<1>. DEFINE Ahead(e) == Cardinality({f \in S : <<f, e>> \in R})
            Place(n) == CHOOSE e \in S : Ahead(e) = n - 1
            s == [n \in 1 .. Cardinality(S) |-> Place(n)]
<1>1. IsFiniteSet(S) /\ Cardinality(S) \in Nat
  BY EventFacts
<1>2. \A n \in 1 .. Cardinality(S) : \E e \in S : Ahead(e) = n - 1
  <2>1. \A n \in 1 .. Cardinality(S) :
          \E x \in S : Cardinality({y \in S : <<y, x>> \in R}) = n - 1
    BY <1>1, RankPlaces
  <2>. QED BY <2>1
<1>3. \A n \in 1 .. Cardinality(S) : Place(n) \in S
  <2>. HIDE DEF Ahead
  <2>. QED BY <1>2
<1>4. s \in Seq(S) /\ Len(s) = Cardinality(S)
  <2>. HIDE DEF Place
  <2>. QED BY <1>1, <1>3
<1>. QED BY <1>4

LEMMA NewestListed ==
  ASSUME NEW S \in SUBSET Everyone
  PROVE  NewestFirst(S) \in Seq(S) /\ Len(NewestFirst(S)) = Cardinality(S)
<1>. DEFINE R == {p \in S \X S : p[1].created > p[2].created}
<1>1. R \in SUBSET (S \X S) /\ \A x, y \in S : <<x, y>> \in R <=> x.created > y.created
  OBVIOUS
<1>2. /\ \A x \in S : <<x, x>> \notin R
      /\ \A x, y \in S : x # y => <<x, y>> \in R \/ <<y, x>> \in R
      /\ \A x, y, z \in S : <<x, y>> \in R /\ <<y, z>> \in R => <<x, z>> \in R
  <2>1. \A x \in S : x.created \in Int
    BY EventFacts
  <2>2. \A x, y \in S : x # y => x.created # y.created
    BY EventFacts
  <2>. HIDE DEF R
  <2>. QED BY <1>1, <2>1, <2>2
<1>3. NewestFirst(S) = [n \in 1 .. Cardinality(S) |->
                          CHOOSE e \in S : Cardinality({f \in S : f.created > e.created}) = n - 1]
  BY DEF NewestFirst, Ranked
<1>. HIDE DEF R
<1>4. NewestFirst(S) = [n \in 1 .. Cardinality(S) |->
                          CHOOSE e \in S : Cardinality({f \in S : <<f, e>> \in R}) = n - 1]
  <2>1. \A e \in S : {f \in S : <<f, e>> \in R} = {f \in S : f.created > e.created}
    BY <1>1
  <2>. QED BY <1>3, <2>1
<1>. DEFINE s == [n \in 1 .. Cardinality(S) |->
                    CHOOSE e \in S : Cardinality({f \in S : <<f, e>> \in R}) = n - 1]
<1>7. s \in Seq(S) /\ Len(s) = Cardinality(S)
  BY <1>1, <1>2, RankedListed
<1>. HIDE DEF s
<1>. QED BY <1>4, <1>7 DEF s

LEMMA SortKeyTyped ==
  ASSUME NEW e \in Everyone, NEW mode
  PROVE  SortKey(e, mode) \in Int
<1>1. /\ Aggregates[e.id].replies \in Int /\ Aggregates[e.id].reactions \in Int
      /\ Aggregates[e.id].zapSats \in Int /\ SatsPerPoint \in Nat \ {0}
  BY EventFacts, BrowsingAssumption
<1>2. InteractionScore(Aggregates[e.id]) \in Int
  BY <1>1 DEF InteractionScore
<1>. QED BY <1>1, <1>2 DEF SortKey

LEMMA PairsDiffer ==
  \A a, b, c, d \in Int : c # d => (a > b \/ (a = b /\ c > d)) \/ (b > a \/ (b = a /\ d > c))
OBVIOUS

LEMMA HighestListed ==
  ASSUME NEW S \in SUBSET Everyone, NEW mode
  PROVE  HighestFirst(S, mode) \in Seq(S) /\ Len(HighestFirst(S, mode)) = Cardinality(S)
<1>. DEFINE key(e) == SortKey(e, mode)
            Before(e, f) == \/ key(e) > key(f)
                            \/ key(e) = key(f) /\ e.created > f.created
            R == {p \in S \X S : Before(p[1], p[2])}
<1>1. R \in SUBSET (S \X S) /\ \A x, y \in S : <<x, y>> \in R <=> Before(x, y)
  OBVIOUS
<1>2. \A x, y \in S : /\ key(x) \in Int /\ x.created \in Int
                      /\ x # y => x.created # y.created
  BY EventFacts, SortKeyTyped
<1>3. /\ \A x \in S : ~Before(x, x)
      /\ \A x, y \in S : x # y => Before(x, y) \/ Before(y, x)
      /\ \A x, y, z \in S : Before(x, y) /\ Before(y, z) => Before(x, z)
  <2>. HIDE DEF key
  <2>. QED BY <1>2, PairsDiffer
<1>4. HighestFirst(S, mode) =
        [n \in 1 .. Cardinality(S) |->
           CHOOSE e \in S : Cardinality({f \in S : Before(f, e)}) = n - 1]
  BY DEF HighestFirst, Ranked
<1>. HIDE DEF R, Before
<1>5. HighestFirst(S, mode) =
        [n \in 1 .. Cardinality(S) |->
           CHOOSE e \in S : Cardinality({f \in S : <<f, e>> \in R}) = n - 1]
  <2>1. \A e \in S : {f \in S : <<f, e>> \in R} = {f \in S : Before(f, e)}
    BY <1>1
  <2>. QED BY <1>4, <2>1
<1>6. /\ \A x \in S : <<x, x>> \notin R
      /\ \A x, y \in S : x # y => <<x, y>> \in R \/ <<y, x>> \in R
      /\ \A x, y, z \in S : <<x, y>> \in R /\ <<y, z>> \in R => <<x, z>> \in R
  BY <1>1, <1>3
<1>. DEFINE s == [n \in 1 .. Cardinality(S) |->
                    CHOOSE e \in S : Cardinality({f \in S : <<f, e>> \in R}) = n - 1]
<1>7. s \in Seq(S) /\ Len(s) = Cardinality(S)
  BY <1>1, <1>6, RankedListed
<1>. HIDE DEF s
<1>. QED BY <1>5, <1>7 DEF s

\* The first entries of a sequence of events are such a sequence.
LEMMA CutListed ==
  ASSUME NEW S, NEW s \in Seq(S), NEW limit \in Int
  PROVE  /\ Cut(s, limit) \in Seq(S)
         /\ Len(Cut(s, limit)) = IF limit < 0 THEN 0 ELSE Smaller(Len(s), limit)
         /\ \A i \in 1 .. Len(Cut(s, limit)) : Cut(s, limit)[i] = s[i]
<1>1. Len(s) \in Nat
  OBVIOUS
<1>. DEFINE n == Smaller(Len(s), limit)
<1>2. n \in Int /\ n <= Len(s) /\ (limit < 0 => n = limit) /\ (limit >= 0 => n >= 0)
  BY <1>1 DEF Smaller
<1>3. CASE n < 1
  <2>1. Cut(s, limit) = << >> /\ Len(Cut(s, limit)) = 0
    BY <1>2, <1>3 DEF Cut
  <2>. QED BY <1>1, <1>2, <1>3, <2>1 DEF Smaller
<1>4. CASE n \in 1 .. Len(s)
  <2>1. /\ Cut(s, limit) \in Seq(S) /\ Len(Cut(s, limit)) = n
        /\ \A i \in 1 .. n : Cut(s, limit)[i] = s[i]
    BY <1>1, <1>2, <1>4, SubSeqProperties DEF Cut
  <2>2. limit >= 0
    BY <1>2, <1>4
  <2>. QED BY <2>1, <2>2
<1>. QED BY <1>1, <1>2, <1>3, <1>4

\* What a query returns: events of the set it was asked of that match, as
\* many as its limit lets through, and one of them at least where there is one.
LEMMA QueryListed ==
  ASSUME NEW S \in SUBSET Everyone, NEW filter, filter.limit \in Int
  PROVE  LET found == {e \in S : Matches(e, filter)}
         IN  /\ QueryEvents(S, filter) \in Seq(found)
             /\ found # {} => QueryEvents(S, filter) # << >>
<1>. DEFINE found == {e \in S : Matches(e, filter)}
            limit == IF filter.limit < 1 THEN EngineLimit ELSE Smaller(filter.limit, EngineLimit)
            listed == NewestFirst(found)
<1>1. limit \in Nat \ {0}
  BY BrowsingAssumption DEF Smaller
<1>2. found \in SUBSET Everyone /\ IsFiniteSet(found)
  BY EventFacts
<1>3. listed \in Seq(found) /\ Len(listed) = Cardinality(found)
  BY <1>2, NewestListed
<1>4. QueryEvents(S, filter) = Cut(listed, limit)
  BY DEF QueryEvents
<1>. HIDE DEF found, limit, listed
<1>5. /\ QueryEvents(S, filter) \in Seq(found)
      /\ Len(QueryEvents(S, filter)) = Smaller(Len(listed), limit)
  <2>1. limit \in Int /\ ~(limit < 0)
    BY <1>1
  <2>. QED BY <1>3, <1>4, <2>1, CutListed
<1>6. ASSUME found # {} PROVE QueryEvents(S, filter) # << >>
  <2>1. Cardinality(found) \in Nat \ {0}
    BY <1>2, <1>6, FS_CardinalityType, FS_EmptySet
  <2>. QED BY <1>1, <1>3, <1>5, <2>1 DEF Smaller
<1>. QED BY <1>5, <1>6 DEF found

EventsOf(ids) == {Event[id] : id \in ids}

LEMMA EventsOfFacts ==
  ASSUME NEW ids \in SUBSET DOMAIN Event
  PROVE  /\ EventsOf(ids) \in SUBSET Everyone
         /\ \A e \in EventsOf(ids) : e.id \in ids /\ e = Event[e.id]
BY EventFacts, BrowsingAssumption DEF EventsOf, Everyone

\* Asking for an id finds its event, or nothing where it is not stored.
LEMMA FoundById ==
  ASSUME NEW ids \in SUBSET DOMAIN Event, NEW id, NEW filter, filter.limit \in Int,
         \A e \in EventsOf(ids) : Matches(e, filter) <=> e.id = id
  PROVE  LET found == QueryEvents(EventsOf(ids), filter)
         IN  /\ id \notin ids => found = << >>
             /\ id \in ids => found # << >> /\ found[1] = Event[id]
<1>. DEFINE matching == {e \in EventsOf(ids) : Matches(e, filter)}
            found == QueryEvents(EventsOf(ids), filter)
<1>1. /\ \A e \in matching : e.id = id /\ id \in ids /\ e = Event[id]
      /\ id \in ids => Event[id] \in matching
  <2>1. id \in ids => Event[id] \in EventsOf(ids) /\ Event[id].id = id
    BY BrowsingAssumption DEF EventsOf
  <2>. QED BY <2>1, EventsOfFacts
<1>2. found \in Seq(matching) /\ (matching # {} => found # << >>)
  BY EventsOfFacts, QueryListed
<1>. HIDE DEF matching, found
<1>3. found # << >> => found[1] \in matching
  BY <1>2
<1>4. id \notin ids => found = << >>
  BY <1>1, <1>3
<1>5. id \in ids => found # << >> /\ found[1] = Event[id]
  BY <1>1, <1>2, <1>3
<1>. QED BY <1>4, <1>5 DEF found

LEMMA FetchFinds ==
  ASSUME NEW ids \in SUBSET DOMAIN Event, NEW id
  PROVE  /\ LET found == fetchSingleEvent(EventsOf(ids), id)
            IN  /\ id \notin ids => found = << >>
                /\ id \in ids => found # << >> /\ found[1] = Event[id]
         /\ LET found == QueryEvents(EventsOf(ids), [Everything EXCEPT !.ids = {id}])
            IN  /\ id \notin ids => found = << >>
                /\ id \in ids => found # << >> /\ found[1] = Event[id]
<1>. DEFINE one == [Everything EXCEPT !.ids = {id}, !.limit = 1]
            any == [Everything EXCEPT !.ids = {id}]
<1>1. /\ one.limit \in Int /\ \A e \in EventsOf(ids) : Matches(e, one) <=> e.id = id
      /\ any.limit \in Int /\ \A e \in EventsOf(ids) : Matches(e, any) <=> e.id = id
  <2>1. /\ one.ids = {id} /\ one.limit \in Int
        /\ one.kinds = {} /\ one.authors = {} /\ one.eTags = {} /\ one.pTags = {}
        /\ one.since = NoTime /\ one.until = NoTime
    BY DEF Everything
  <2>2. /\ any.ids = {id} /\ any.limit \in Int
        /\ any.kinds = {} /\ any.authors = {} /\ any.eTags = {} /\ any.pTags = {}
        /\ any.since = NoTime /\ any.until = NoTime
    BY DEF Everything
  <2>. HIDE DEF one, any
  <2>3. \A wanted, has : wanted = {} => Admits(wanted, has)
    BY DEF Admits
  <2>4. \A e : Admits({id}, {e.id}) <=> e.id = id
    BY DEF Admits
  <2>. QED BY <2>1, <2>2, <2>3, <2>4 DEF Matches
<1>2. fetchSingleEvent(EventsOf(ids), id) = QueryEvents(EventsOf(ids), one)
  BY DEF fetchSingleEvent
<1>. DEFINE byOne == QueryEvents(EventsOf(ids), one)
            byAny == QueryEvents(EventsOf(ids), any)
<1>. HIDE DEF one, any
<1>3. /\ id \notin ids => byOne = << >>
      /\ id \in ids => byOne # << >> /\ byOne[1] = Event[id]
  BY <1>1, FoundById
<1>4. /\ id \notin ids => byAny = << >>
      /\ id \in ids => byAny # << >> /\ byAny[1] = Event[id]
  BY <1>1, FoundById
<1>. QED BY <1>2, <1>3, <1>4 DEF any

\* What was asked for is of the set that was asked.
LEMMA AskedListed ==
  ASSUME NEW S \in SUBSET Everyone, NEW filter, filter.limit \in Int
  PROVE  QueryEvents(S, filter) \in Seq(S) /\ Among(QueryEvents(S, filter)) \in SUBSET S
<1>. DEFINE matching == {e \in S : Matches(e, filter)}
            asked == QueryEvents(S, filter)
<1>1. asked \in Seq(matching)
  BY QueryListed
<1>2. matching \in SUBSET S
  OBVIOUS
<1>. HIDE DEF matching, asked
<1>3. asked \in Seq(S) /\ \A i \in DOMAIN asked : asked[i] \in S
  BY <1>1, <1>2
<1>. QED BY <1>3 DEF Among, asked

LEMMA SortedListed ==
  ASSUME NEW S \in SUBSET Everyone, NEW events \in SUBSET S, NEW rules, NEW mode, NEW limit \in Nat
  PROVE  Cut(filterAndSortEvents(events, rules, mode), limit) \in Seq(S)
<1>. DEFINE kept == {e \in events : rules.enabled => passesContentFilter(e, rules)}
<1>1. kept \in SUBSET Everyone /\ kept \in SUBSET S
  OBVIOUS
<1>2. HighestFirst(kept, mode) \in Seq(kept)
  BY <1>1, HighestListed
<1>3. HighestFirst(kept, mode) \in Seq(S)
  <2>. HIDE DEF kept
  <2>. QED BY <1>1, <1>2
<1>. QED BY <1>3, CutListed DEF filterAndSortEvents

LEMMA ListingsListed ==
  ASSUME NEW S \in SUBSET Everyone, NEW behavior, NEW limit \in Nat
  PROVE  /\ GetNotes(S, behavior, limit) \in Seq(S)
         /\ GetArticles(S, behavior, limit) \in Seq(S)
         /\ GetReplies(S, behavior, limit) \in Seq(S)
         /\ GetMentions(S, behavior, limit) \in Seq(S)
<1>1. GetNotes(S, behavior, limit) \in Seq(S)
  <2>. DEFINE filter == [Everything EXCEPT !.kinds = {1}, !.authors = {Owner}, !.limit = 2 * limit]
              asked == Among(QueryEvents(S, filter))
  <2>1. filter.limit \in Int
    BY DEF Everything
  <2>. HIDE DEF filter
  <2>2. {e \in asked : ~IsReply(ParseThreadInfo(e))} \in SUBSET S
    BY <2>1, AskedListed
  <2>. QED BY <2>2, SortedListed DEF GetNotes, filter
<1>2. GetArticles(S, behavior, limit) \in Seq(S)
  <2>. DEFINE filter == [Everything EXCEPT !.kinds = {30023}, !.authors = {Owner}, !.limit = limit]
  <2>1. filter.limit \in Int
    BY DEF Everything
  <2>. HIDE DEF filter
  <2>2. Among(QueryEvents(S, filter)) \in SUBSET S
    BY <2>1, AskedListed
  <2>. QED BY <2>2, SortedListed DEF GetArticles, filter
<1>3. GetReplies(S, behavior, limit) \in Seq(S)
  <2>. DEFINE filter == [Everything EXCEPT !.kinds = {1}, !.pTags = {Owner}, !.limit = 2 * limit]
              asked == Among(QueryEvents(S, filter))
  <2>1. filter.limit \in Int
    BY DEF Everything
  <2>. HIDE DEF filter
  <2>2. {e \in asked : IsReply(ParseThreadInfo(e)) /\ IsMentioningPubkey(e, Owner)} \in SUBSET S
    BY <2>1, AskedListed
  <2>. QED BY <2>2, SortedListed DEF GetReplies, filter
<1>4. GetMentions(S, behavior, limit) \in Seq(S)
  <2>. DEFINE filter == [Everything EXCEPT !.kinds = {1}, !.pTags = {Owner}, !.limit = limit]
  <2>1. filter.limit \in Int
    BY DEF Everything
  <2>. HIDE DEF filter
  <2>2. Among(QueryEvents(S, filter)) \in SUBSET S
    BY <2>1, AskedListed
  <2>. QED BY <2>2, SortedListed DEF GetMentions, filter
<1>. QED BY <1>1, <1>2, <1>3, <1>4

LEMMA FilteredListed ==
  ASSUME NEW S \in SUBSET Everyone, NEW s \in Seq(S), NEW isReply
  PROVE  applyIsReplyFilter(s, isReply) \in Seq(S)
<1>. DEFINE kept == {e \in Among(s) :
                       (isThreadableKind(e.kind) /\ IsReply(ParseThreadInfo(e))) \in isReply}
<1>1. \A i \in DOMAIN s : s[i] \in S
  OBVIOUS
<1>2. kept \in SUBSET S /\ kept \in SUBSET Everyone
  BY <1>1 DEF Among
<1>3. NewestFirst(kept) \in Seq(S)
  <2>. HIDE DEF kept
  <2>1. NewestFirst(kept) \in Seq(kept)
    BY <1>2, NewestListed
  <2>. QED BY <1>2, <2>1
<1>. QED BY <1>3 DEF applyIsReplyFilter

LEMMA RelevantListed ==
  ASSUME NEW S \in SUBSET Everyone, NEW term
  PROVE  MostRelevantFirst(S, term) \in Seq(S) /\ Len(MostRelevantFirst(S, term)) = Cardinality(S)
<1>. DEFINE key(e) == calculateRelevance(e, term)
            Before(e, f) == \/ key(e) > key(f)
                            \/ key(e) = key(f) /\ e.created > f.created
            R == {p \in S \X S : Before(p[1], p[2])}
<1>1. R \in SUBSET (S \X S) /\ \A x, y \in S : <<x, y>> \in R <=> Before(x, y)
  OBVIOUS
<1>2. \A x, y \in S : /\ key(x) \in Int /\ x.created \in Int
                      /\ x # y => x.created # y.created
  BY EventFacts DEF calculateRelevance
<1>3. /\ \A x \in S : ~Before(x, x)
      /\ \A x, y \in S : x # y => Before(x, y) \/ Before(y, x)
      /\ \A x, y, z \in S : Before(x, y) /\ Before(y, z) => Before(x, z)
  <2>. HIDE DEF key
  <2>. QED BY <1>2, PairsDiffer
<1>4. MostRelevantFirst(S, term) =
        [n \in 1 .. Cardinality(S) |->
           CHOOSE e \in S : Cardinality({f \in S : Before(f, e)}) = n - 1]
  BY DEF MostRelevantFirst, Ranked
<1>. HIDE DEF R, Before
<1>5. MostRelevantFirst(S, term) =
        [n \in 1 .. Cardinality(S) |->
           CHOOSE e \in S : Cardinality({f \in S : <<f, e>> \in R}) = n - 1]
  <2>1. \A e \in S : {f \in S : <<f, e>> \in R} = {f \in S : Before(f, e)}
    BY <1>1
  <2>. QED BY <1>4, <2>1
<1>6. /\ \A x \in S : <<x, x>> \notin R
      /\ \A x, y \in S : x # y => <<x, y>> \in R \/ <<y, x>> \in R
      /\ \A x, y, z \in S : <<x, y>> \in R /\ <<y, z>> \in R => <<x, z>> \in R
  BY <1>1, <1>3
<1>. DEFINE s == [n \in 1 .. Cardinality(S) |->
                    CHOOSE e \in S : Cardinality({f \in S : <<f, e>> \in R}) = n - 1]
<1>7. s \in Seq(S) /\ Len(s) = Cardinality(S)
  BY <1>1, <1>6, RankedListed
<1>. HIDE DEF s
<1>. QED BY <1>5, <1>7 DEF s

LEMMA SearchListed ==
  ASSUME NEW S \in SUBSET Everyone, NEW filter, filter.limit \in Int, NEW term
  PROVE  QueryEventsWithSearch(S, filter, term) \in Seq(S)
<1>. DEFINE hits == {e \in Among(QueryEvents(S, filter)) : term \in e.words}
            found == MostRelevantFirst(hits, term)
<1>1. hits \in SUBSET S /\ hits \in SUBSET Everyone
  BY AskedListed
<1>. HIDE DEF hits
<1>2. found \in Seq(hits)
  BY <1>1, RelevantListed
<1>. HIDE DEF found
<1>3. found \in Seq(S)
  BY <1>1, <1>2
<1>4. QueryEventsWithSearch(S, filter, term) =
        IF filter.limit > 0 THEN Cut(found, filter.limit) ELSE found
  BY DEF QueryEventsWithSearch, found, hits
<1>. QED BY <1>3, <1>4, CutListed

LEMMA SliceListed ==
  ASSUME NEW S, NEW s \in Seq(S), NEW m \in Nat, NEW n \in Int
  PROVE  SubSeq(s, m + 1, Smaller(n, Len(s))) \in Seq(S)
<1>. DEFINE last == Smaller(n, Len(s))
<1>1. last \in Int /\ last <= Len(s)
  BY DEF Smaller
<1>. HIDE DEF last
<1>2. \A i \in m + 1 .. last : s[i] \in S
  BY <1>1
<1>3. SubSeq(s, m + 1, last) \in Seq(S)
  BY <1>1, <1>2, SubSeqProperties
<1>. QED BY <1>3 DEF last

LEMMA SectionsListed ==
  ASSUME NEW S \in SUBSET Everyone, NEW section, section.limit \in Nat \ {0}, NEW n \in Nat \ {0}
  PROVE  GetPage(S, section, n).events \in Seq(S)
<1>. DEFINE filter == buildFilter(section, n)
            asked == QueryEvents(S, filter)
            kept == applyIsReplyFilter(asked, section.isReply)
            found == sortEvents(kept, section)
            offset == (n - 1) * section.limit
<1>1. filter.limit \in Int
  BY DEF buildFilter, Everything
<1>2. GetPage(S, section, n).events =
        SubSeq(found, offset + 1, Smaller(offset + section.limit, Len(found)))
  <2>1. (IF n < 1 THEN 1 ELSE n) = n
    OBVIOUS
  <2>. QED BY <2>1, Zenon DEF GetPage
<1>3. offset \in Nat
  OBVIOUS
<1>. HIDE DEF filter, offset
<1>4. asked \in Seq(S)
  BY <1>1, AskedListed
<1>. HIDE DEF asked
<1>5. kept \in Seq(S)
  BY <1>4, FilteredListed
<1>. HIDE DEF kept
<1>6. found \in Seq(S)
  <2>1. \A s \in Seq(S) : [i \in DOMAIN s |-> s[Len(s) + 1 - i]] \in Seq(S)
    <3>1. TAKE s \in Seq(S)
    <3>2. \A i \in 1 .. Len(s) : s[Len(s) + 1 - i] \in S
      OBVIOUS
    <3>. QED BY <3>2
  <2>. QED BY <1>5, <2>1 DEF sortEvents
<1>. HIDE DEF found
<1>7. offset + section.limit \in Int
  BY <1>3
<1>8. SubSeq(found, offset + 1, Smaller(offset + section.limit, Len(found))) \in Seq(S)
  BY <1>3, <1>6, <1>7, SliceListed
<1>. QED BY <1>2, <1>8

-------------------------------------------------------------------------------
(* The tree of a thread: its nodes are known events, and it is a tree.       *)

Trees == [root : DOMAIN Event, focus : DOMAIN Event,
          parent : UNION {[ids -> DOMAIN Event \cup {RootNode}] : ids \in SUBSET DOMAIN Event}]

LEMMA TreeFacts ==
  ASSUME NEW ids \in SUBSET DOMAIN Event, NEW rootEvent \in DOMAIN Event, NEW focus \in DOMAIN Event,
         NEW rootId, NEW replies \in Seq(EventsOf(ids))
  PROVE  LET tree == ThreadTree(Event[rootEvent], focus, rootId, replies)
         IN  /\ tree # NoThread
             /\ tree.root = rootEvent /\ tree.focus = focus
             /\ DOMAIN tree.parent \subseteq ids
             /\ \A depth : NodesAtDepth(tree, depth) \subseteq ids \cup {RootNode}
<1>. DEFINE tree == ThreadTree(Event[rootEvent], focus, rootId, replies)
            found == {replies[i] : i \in DOMAIN replies}
            attached == {e \in found : ParseThreadInfo(e).root \in {NoEvent, rootId}}
            nodes == {e.id : e \in attached}
            Parent(e) == LET to == ParseThreadInfo(e).reply
                         IN  IF to \in {f.id : f \in found} THEN to ELSE RootNode
            parent == [id \in nodes |-> Parent(CHOOSE e \in attached : e.id = id)]
<1>1. tree = [root |-> Event[rootEvent].id, focus |-> focus, parent |-> parent]
  BY DEF ThreadTree
<1>2. Event[rootEvent].id = rootEvent
  BY BrowsingAssumption
<1>3. \A e \in found : e.id \in ids
  BY EventsOfFacts
<1>4. nodes \subseteq ids
  BY <1>3
<1>5. \A e : Parent(e) \in DOMAIN Event \cup {RootNode}
  BY <1>3
<1>. HIDE DEF nodes, Parent, attached, found, tree
<1>6. parent \in [nodes -> DOMAIN Event \cup {RootNode}] /\ nodes \in SUBSET DOMAIN Event
  BY <1>4, <1>5
<1>. HIDE DEF parent
<1>7. tree \in Trees
  <2>1. parent \in UNION {[known -> DOMAIN Event \cup {RootNode}] : known \in SUBSET DOMAIN Event}
    BY <1>6
  <2>. QED BY <1>1, <1>2, <2>1 DEF Trees
<1>8. tree # NoThread
  BY <1>7, NotationAssumption DEF Trees
<1>9. DOMAIN tree.parent = nodes
  BY <1>1, <1>6
<1>10. \A depth : NodesAtDepth(tree, depth) \subseteq ids \cup {RootNode}
  BY <1>4, <1>9 DEF NodesAtDepth
<1>. QED BY <1>1, <1>2, <1>4, <1>8, <1>9, <1>10 DEF tree

LEMMA RepliesListed ==
  ASSUME NEW ids \in SUBSET DOMAIN Event, NEW rootId, NEW config \in Sites
  PROVE  ThreadReplies(EventsOf(ids), rootId, config.limits) \in Seq(EventsOf(ids))
<1>. DEFINE limit == threadQueryLimit(config.limits)
            filter == [Everything EXCEPT !.kinds = {1}, !.eTags = {rootId}, !.limit = limit]
<1>1. limit \in Int
  <2>1. config.limits.maxRepliesInFeed \in Int /\ config.limits.maxThreadDepth \in Int
    BY BrowsingAssumption
  <2>2. config.limits.maxRepliesInFeed * config.limits.maxThreadDepth * 4 \in Int
    BY <2>1
  <2>3. MinThreadQuery \in Int /\ MaxThreadQuery \in Int
    BY BrowsingAssumption
  <2>. QED BY <2>2, <2>3 DEF threadQueryLimit, Smaller
<1>2. filter.limit \in Int
  <2>. HIDE DEF limit
  <2>. QED BY <1>1 DEF Everything
<1>3. ThreadReplies(EventsOf(ids), rootId, config.limits) = QueryEvents(EventsOf(ids), filter)
  BY DEF ThreadReplies
<1>. HIDE DEF filter
<1>. QED BY <1>2, <1>3, AskedListed, EventsOfFacts

\* The thread of an event is there exactly when the event is stored.
LEMMA ThreadFound ==
  ASSUME NEW ids \in SUBSET DOMAIN Event, NEW id, NEW config \in Sites
  PROVE  LET tree == GetThreadByEvent(EventsOf(ids), id, config.limits)
         IN  /\ id \in ids <=> tree # NoThread
             /\ tree # NoThread => /\ tree.focus = id /\ tree.root \in ids
                                   /\ \A depth : NodesAtDepth(tree, depth) \subseteq ids \cup {RootNode}
<1>. DEFINE events == EventsOf(ids)
            focus == fetchSingleEvent(events, id)
            rootId == ThreadRootOf(focus[1])
            root == fetchSingleEvent(events, rootId)
            rootEvent == IF root = << >> THEN focus[1] ELSE root[1]
            replies == ThreadReplies(events, rootId, config.limits)
            tree == GetThreadByEvent(events, id, config.limits)
<1>1. tree = IF focus = << >> THEN NoThread ELSE ThreadTree(rootEvent, id, rootId, replies)
  BY DEF GetThreadByEvent
<1>2. /\ id \notin ids => focus = << >>
      /\ id \in ids => focus # << >> /\ focus[1] = Event[id]
  BY FetchFinds
<1>3. /\ rootId \notin ids => root = << >>
      /\ rootId \in ids => root # << >> /\ root[1] = Event[rootId]
  <2>. HIDE DEF rootId
  <2>. QED BY FetchFinds
<1>4. replies \in Seq(EventsOf(ids))
  BY RepliesListed
<1>. HIDE DEF events, focus, rootId, root, replies, tree
<1>5. ASSUME id \in ids
      PROVE  /\ tree # NoThread /\ tree.focus = id /\ tree.root \in ids
             /\ \A depth : NodesAtDepth(tree, depth) \subseteq ids \cup {RootNode}
  <2>1. PICK known \in ids : rootEvent = Event[known]
    BY <1>2, <1>3, <1>5
  <2>2. tree = ThreadTree(Event[known], id, rootId, replies)
    BY <1>1, <1>2, <1>5, <2>1
  <2>3. known \in DOMAIN Event /\ id \in DOMAIN Event
    BY <1>5
  <2>. HIDE DEF rootEvent
  <2>. QED BY <1>4, <2>2, <2>3, TreeFacts
<1>. QED BY <1>1, <1>2, <1>5 DEF tree, events

-------------------------------------------------------------------------------
(* The links of a Gopher page.                                               *)

HomeMenus == {<<>>} \cup {<<p>> : p \in {"notes", "articles", "replies", "mentions",
                                         "search", "diagnostics"}}

SectionAt(config, path) == \E s \in config.sections : s.path = path

\* What a link can be: a menu the router knows or a section; the text of an
\* event that was stored, or of the author of one; and the way back from a thread.
GopherLink(config, known, thread, link) ==
  \/ /\ link.form = "menu"
     /\ \/ link.to \in HomeMenus \/ SectionAt(config, link.to)
        \/ link.to[1] \in Bases /\ link.to = <<link.to[1], "page", link.to[3]>>
        \/ thread # NoThread /\ thread.focus \in known /\ link.to = <<"note", thread.focus>>
  \/ /\ link.form = "text"
     /\ \E id \in known : \/ link.to = <<"note", id>>
                          \/ link.to = <<"profile", Event[id].author>> /\ Event[id].kind = 0

GopherPage(config, known, answer) ==
  \A link \in answer.links : GopherLink(config, known, answer.thread, link)

LEMMA PageParsed ==
  ASSUME NEW T, NEW parts \in Seq(T)
  PROVE  parsePageFromParts(parts).page \in Nat \ {0}
<1>. DEFINE numerals == {ToString(n) : n \in 1..MaxPage}
            at == {i \in 1..(Len(parts) - 1) : parts[i] = "page" /\ parts[i + 1] \in numerals}
            first == CHOOSE j \in at : \A k \in at : j <= k
            number == CHOOSE n \in 1..MaxPage : ToString(n) = parts[first + 1]
<1>1. parsePageFromParts(parts).page = IF at = {} THEN 1 ELSE number
  BY DEF parsePageFromParts
<1>2. ASSUME at # {} PROVE number \in 1..MaxPage
  <2>1. at \in SUBSET Nat
    OBVIOUS
  <2>. HIDE DEF at
  <2>2. first \in at
    BY <1>2, <2>1, LeastExists
  <2>. HIDE DEF first
  <2>3. parts[first + 1] \in numerals
    BY <2>2 DEF at
  <2>. QED BY <2>3
<1>. HIDE DEF at, number
<1>. QED BY <1>1, <1>2

LEMMA NoteLinksKnown ==
  ASSUME NEW ids \in SUBSET DOMAIN Event, NEW s \in Seq(EventsOf(ids)), NEW link \in NoteLinks(s),
         NEW config, NEW thread
  PROVE  GopherLink(config, ids, thread, link)
<1>1. PICK i \in DOMAIN s : link = AddTextFile(<<"note", s[i].id>>)
  BY DEF NoteLinks
<1>2. s[i].id \in ids
  BY EventsOfFacts
<1>. QED BY <1>1, <1>2 DEF AddTextFile, GopherLink

LEMMA ListingLinks ==
  ASSUME NEW ids \in SUBSET DOMAIN Event, NEW config, NEW ok, NEW base \in Bases,
         NEW found \in Seq(EventsOf(ids)), NEW n \in Nat \ {0}
  PROVE  GopherPage(config, ids, Listing(ok, base, found, n))
<1>1. ASSUME NEW thread, NEW link \in {Home} \cup addPaginationLinks(base, n, Len(found))
      PROVE  GopherLink(config, ids, thread, link)
  <2>1. link = Home \/ \E m : link = AddDirectory(<<base, "page", ToString(m)>>)
    BY <1>1 DEF addPaginationLinks
  <2>2. ASSUME NEW m, link = AddDirectory(<<base, "page", ToString(m)>>)
        PROVE  GopherLink(config, ids, thread, link)
    BY <2>2 DEF AddDirectory, GopherLink
  <2>3. CASE link = Home
    BY <2>3 DEF Home, AddDirectory, GopherLink, HomeMenus
  <2>. QED BY <2>1, <2>2, <2>3
<1>. DEFINE shown == paginateItems(found, n)
<1>2. shown \in Seq(EventsOf(ids))
  <2>1. (n - 1) * itemsPerPage \in Nat /\ n * itemsPerPage \in Int
    BY BrowsingAssumption
  <2>. QED BY <2>1, SliceListed DEF paginateItems
<1>. HIDE DEF shown
<1>3. Listing(ok, base, found, n).links \subseteq
        {Home} \cup NoteLinks(shown) \cup addPaginationLinks(base, n, Len(found))
  BY DEF Listing, errorResponse, Gophermap, shown
<1>. QED BY <1>1, <1>2, <1>3, NoteLinksKnown DEF GopherPage

\* Sections of one path, as GetSectionsByPath finds them.
LEMMA HereFacts ==
  ASSUME NEW config \in Sites, NEW path, NEW here \in GetSectionsByPath(config.sections, path)
  PROVE  \A i \in DOMAIN here : here[i] \in config.sections /\ here[i].limit \in Nat \ {0}
<1>1. \A i \in DOMAIN here : here[i] \in config.sections
  BY DEF GetSectionsByPath
<1>. QED BY <1>1, BrowsingAssumption

LEMMA SectionLinks ==
  ASSUME NEW ids \in SUBSET DOMAIN Event, NEW ok, NEW config \in Sites, NEW path,
         NEW here \in GetSectionsByPath(config.sections, path)
  PROVE  LET answer == handleSections(EventsOf(ids), ok, here, config.sections)
         IN  GopherPage(config, ids, answer) /\ answer.form = "menu" /\ ~answer.error
<1>. DEFINE listed(i) == IF ok THEN GetPage(EventsOf(ids), here[i], 1).events ELSE << >>
            more(i) == IF ok THEN MoreLinks(here[i], config.sections) ELSE {}
            shown(i) == NoteLinks(listed(i)) \cup {AddDirectory(p) : p \in more(i)}
            answer == handleSections(EventsOf(ids), ok, here, config.sections)
<1>1. /\ answer.links = {Home} \cup UNION {shown(i) : i \in DOMAIN here}
      /\ answer.form = "menu" /\ ~answer.error
  BY DEF handleSections, Gophermap
<1>2. ASSUME NEW i \in DOMAIN here PROVE listed(i) \in Seq(EventsOf(ids))
  <2>1. GetPage(EventsOf(ids), here[i], 1).events \in Seq(EventsOf(ids))
    <3>1. here[i].limit \in Nat \ {0}
      BY HereFacts
    <3>2. EventsOf(ids) \in SUBSET Everyone
      BY EventsOfFacts
    <3>3. 1 \in Nat \ {0}
      OBVIOUS
    <3>. QED BY <3>1, <3>2, <3>3, SectionsListed
  <2>2. << >> \in Seq(EventsOf(ids))
    OBVIOUS
  <2>. QED BY <2>1, <2>2
<1>3. ASSUME NEW i \in DOMAIN here, NEW p \in more(i) PROVE SectionAt(config, p)
  BY DEF MoreLinks, SectionAt
<1>. HIDE DEF listed, more, answer
<1>4. ASSUME NEW link, link \in answer.links PROVE GopherLink(config, ids, answer.thread, link)
  <2>1. CASE link = Home
    BY <2>1 DEF Home, AddDirectory, GopherLink, HomeMenus
  <2>2. ASSUME NEW i \in DOMAIN here, link \in NoteLinks(listed(i))
        PROVE  GopherLink(config, ids, answer.thread, link)
    BY <1>2, <2>2, NoteLinksKnown
  <2>3. ASSUME NEW i \in DOMAIN here, NEW p \in more(i), link = AddDirectory(p)
        PROVE  GopherLink(config, ids, answer.thread, link)
    BY <1>3, <2>3 DEF AddDirectory, GopherLink
  <2>4. \/ link = Home
        \/ \E i \in DOMAIN here : link \in shown(i)
    <3>. HIDE DEF shown
    <3>. QED BY <1>1, <1>4
  <2>5. ASSUME NEW i \in DOMAIN here, link \in {AddDirectory(p) : p \in more(i)}
        PROVE  GopherLink(config, ids, answer.thread, link)
    BY <2>3, <2>5
  <2>. QED BY <2>1, <2>2, <2>4, <2>5
<1>. QED BY <1>1, <1>4 DEF GopherPage, answer

LEMMA SearchLinks ==
  ASSUME NEW ids \in SUBSET DOMAIN Event, NEW config, NEW ok, NEW parts
  PROVE  GopherPage(config, ids, handleSearch(EventsOf(ids), ok, parts))
<1>. DEFINE filter == [Everything EXCEPT !.kinds = {0, 1, 30023}, !.limit = GopherSearchLimit]
            found == QueryEventsWithSearch(EventsOf(ids), filter, parts[1])
            LinkTo(e) == AddTextFile(IF e.kind = 0 THEN <<"profile", e.author>> ELSE <<"note", e.id>>)
            menus == {AddDirectory(<<"search">>), Home}
            answer == handleSearch(EventsOf(ids), ok, parts)
<1>1. filter.limit \in Int
  BY BrowsingAssumption DEF Everything
<1>2. answer = IF parts = << >> \/ parts[1] = "" THEN Gophermap(<< >>, {Home})
               ELSE IF ~ok THEN errorResponse({AddDirectory(<<"search">>)})
               ELSE IF found = << >> THEN Gophermap(<< >>, {AddDirectory(<<"search">>)})
               ELSE Gophermap(Ids(found), {LinkTo(found[i]) : i \in DOMAIN found} \cup menus)
  BY DEF handleSearch, Everything
<1>7. answer.links \subseteq menus \cup {LinkTo(found[i]) : i \in DOMAIN found}
  <2>. HIDE DEF found, answer, LinkTo
  <2>. QED BY <1>2 DEF errorResponse, Gophermap
<1>. HIDE DEF filter
<1>3. \A i \in DOMAIN found : found[i] \in EventsOf(ids)
  BY <1>1, EventsOfFacts, SearchListed
<1>. HIDE DEF found, answer
<1>4. ASSUME NEW link \in menus PROVE GopherLink(config, ids, answer.thread, link)
  BY DEF Home, AddDirectory, GopherLink, HomeMenus
<1>5. ASSUME NEW i \in DOMAIN found PROVE GopherLink(config, ids, answer.thread, LinkTo(found[i]))
  <2>1. found[i].id \in ids /\ found[i] = Event[found[i].id]
    BY <1>3, EventsOfFacts
  <2>. QED BY <2>1 DEF AddTextFile, GopherLink
<1>. QED BY <1>4, <1>5, <1>7 DEF GopherPage, answer

\* Pages without links but the one home.
LEMMA PlainLinks ==
  ASSUME NEW config, NEW known, NEW answer, answer.links \subseteq {Home}
  PROVE  GopherPage(config, known, answer)
BY DEF GopherPage, Home, AddDirectory, GopherLink, HomeMenus

LEMMA NoteLinksHome ==
  ASSUME NEW found, NEW thread, NEW config
  PROVE  NotePage(found, thread, config).links \subseteq {Home}
BY DEF NotePage, errorResponse, Gophermap, RenderNoteWithThread, RenderNote, PlainText

LEMMA ThreadLinksBack ==
  ASSUME NEW config, NEW known, NEW thread, thread # NoThread => thread.focus \in known
  PROVE  GopherPage(config, known, ThreadPage(thread))
<1>1. CASE thread = NoThread
  <2>1. ThreadPage(thread).links = {Home}
    BY <1>1 DEF ThreadPage, errorResponse, Gophermap
  <2>. QED BY <2>1, PlainLinks
<1>2. CASE thread # NoThread
  <2>1. /\ ThreadPage(thread).links = {AddDirectory(<<"note", thread.focus>>), Home}
        /\ ThreadPage(thread).thread = thread
    BY <1>2 DEF ThreadPage, RenderThreadGophermap, Gophermap
  <2>. QED BY <1>2, <2>1 DEF GopherPage, Home, AddDirectory, GopherLink, HomeMenus
<1>. QED BY <1>1, <1>2

LEMMA RouteCases ==
  ASSUME NEW events, NEW ok, NEW config, NEW T, NEW selector \in Seq(T),
         NEW answer \in Route(events, ok, config, selector)
  PROVE  \/ \E here \in GetSectionsByPath(config.sections, selector) :
              answer = handleSections(events, ok, here, config.sections)
         \/ answer \in {handleRoot, handleDiagnostics, errorResponse({Home})}
         \/ \E parts \in Seq(T) : answer \in {handleNotes(events, ok, config, parts),
                                              handleArticles(events, ok, config, parts),
                                              handleReplies(events, ok, config, parts),
                                              handleMentions(events, ok, config, parts),
                                              handleSearch(events, ok, parts)}
         \/ \E id : answer \in {handleNote(events, ok, config, id),
                                handleThread(events, ok, config, id),
                                handleProfile(events, ok, id)}
<1>1. CASE \E s \in config.sections : s.path = selector
  BY <1>1 DEF Route
<1>2. CASE ~(\E s \in config.sections : s.path = selector) /\ selector = << >>
  BY <1>2 DEF Route
<1>3. CASE ~(\E s \in config.sections : s.path = selector) /\ selector # << >>
  <2>1. Tail(selector) \in Seq(T)
    BY <1>3
  <2>. QED BY <1>3, <2>1 DEF Route
<1>. QED BY <1>1, <1>2, <1>3

LEMMA ListingAnswers ==
  ASSUME NEW ids \in SUBSET DOMAIN Event, NEW ok, NEW config \in Sites, NEW T, NEW parts \in Seq(T)
  PROVE  /\ GopherPage(config, ids, handleNotes(EventsOf(ids), ok, config, parts))
         /\ GopherPage(config, ids, handleArticles(EventsOf(ids), ok, config, parts))
         /\ GopherPage(config, ids, handleReplies(EventsOf(ids), ok, config, parts))
         /\ GopherPage(config, ids, handleMentions(EventsOf(ids), ok, config, parts))
<1>. DEFINE events == EventsOf(ids)
            n == parsePageFromParts(parts).page
            rest == parsePageFromParts(parts).remaining
<1>1. n \in Nat \ {0}
  BY PageParsed
<1>2. /\ GetNotes(events, config.behavior, GopherListLimit) \in Seq(events)
      /\ GetArticles(events, config.behavior, GopherListLimit) \in Seq(events)
      /\ GetReplies(events, config.behavior, GopherListLimit) \in Seq(events)
      /\ GetMentions(events, config.behavior, GopherListLimit) \in Seq(events)
  <2>1. GopherListLimit \in Nat
    BY BrowsingAssumption
  <2>2. events \in SUBSET Everyone
    BY EventsOfFacts
  <2>. HIDE DEF events
  <2>. QED BY <2>1, <2>2, ListingsListed
<1>3. ASSUME NEW base \in Bases, NEW found \in Seq(events)
      PROVE  GopherPage(config, ids, Listing(ok, base, found, n))
  <2>. HIDE DEF n
  <2>. QED BY <1>1, ListingLinks
<1>4. {"notes", "articles", "replies", "mentions"} \subseteq Bases
  BY DEF Bases
<1>5. \/ handleNotes(events, ok, config, parts) = handleNote(events, ok, config, rest[1])
      \/ handleNotes(events, ok, config, parts) =
           Listing(ok, "notes", GetNotes(events, config.behavior, GopherListLimit), n)
  BY DEF handleNotes
<1>6. /\ handleArticles(events, ok, config, parts) =
           Listing(ok, "articles", GetArticles(events, config.behavior, GopherListLimit), n)
      /\ handleReplies(events, ok, config, parts) =
           Listing(ok, "replies", GetReplies(events, config.behavior, GopherListLimit), n)
      /\ handleMentions(events, ok, config, parts) =
           Listing(ok, "mentions", GetMentions(events, config.behavior, GopherListLimit), n)
  BY DEF handleArticles, handleReplies, handleMentions
<1>7. handleNote(events, ok, config, rest[1]).links \subseteq {Home}
  <2>1. errorResponse({Home}).links = {Home}
    BY DEF errorResponse, Gophermap
  <2>. QED BY <2>1, NoteLinksHome DEF handleNote, Everything
<1>. HIDE DEF n, rest, events
<1>8. GopherPage(config, ids, handleNote(events, ok, config, rest[1]))
  BY <1>7, PlainLinks
<1>. QED BY <1>2, <1>3, <1>4, <1>5, <1>6, <1>8 DEF events

LEMMA GopherAnswers ==
  ASSUME NEW ids \in SUBSET DOMAIN Event, NEW ok, NEW config \in Sites, NEW T, NEW selector \in Seq(T),
         NEW answer \in Route(EventsOf(ids), ok, config, selector)
  PROVE  GopherPage(config, ids, answer)
<1>. DEFINE events == EventsOf(ids)
<1>1. ASSUME NEW here \in GetSectionsByPath(config.sections, selector)
      PROVE  GopherPage(config, ids, handleSections(events, ok, here, config.sections))
  BY SectionLinks
<1>2. GopherPage(config, ids, handleRoot)
  BY DEF GopherPage, handleRoot, Gophermap, AddDirectory, GopherLink, HomeMenus
<1>3. GopherPage(config, ids, handleDiagnostics) /\ GopherPage(config, ids, errorResponse({Home}))
  <2>1. handleDiagnostics.links = {Home} /\ errorResponse({Home}).links = {Home}
    BY DEF handleDiagnostics, errorResponse, Gophermap
  <2>. QED BY <2>1, PlainLinks
<1>4. ASSUME NEW parts \in Seq(T)
      PROVE  /\ GopherPage(config, ids, handleNotes(events, ok, config, parts))
             /\ GopherPage(config, ids, handleArticles(events, ok, config, parts))
             /\ GopherPage(config, ids, handleReplies(events, ok, config, parts))
             /\ GopherPage(config, ids, handleMentions(events, ok, config, parts))
  BY ListingAnswers
<1>5. ASSUME NEW id PROVE GopherPage(config, ids, handleNote(events, ok, config, id))
  <2>1. errorResponse({Home}).links = {Home}
    BY DEF errorResponse, Gophermap
  <2>2. handleNote(events, ok, config, id).links \subseteq {Home}
    BY <2>1, NoteLinksHome DEF handleNote, Everything
  <2>. QED BY <2>2, PlainLinks
<1>6. ASSUME NEW id PROVE GopherPage(config, ids, handleThread(events, ok, config, id))
  <2>1. GopherPage(config, ids, ThreadPage(GetThreadByEvent(events, id, config.limits)))
    BY ThreadFound, ThreadLinksBack
  <2>. QED BY <1>3, <2>1 DEF handleThread
<1>7. ASSUME NEW pubkey PROVE GopherPage(config, ids, handleProfile(events, ok, pubkey))
  <2>1. handleProfile(events, ok, pubkey).links \subseteq {Home}
    BY DEF handleProfile, errorResponse, Gophermap, RenderProfile, PlainText, Everything
  <2>. QED BY <2>1, PlainLinks
<1>8. ASSUME NEW parts PROVE GopherPage(config, ids, handleSearch(events, ok, parts))
  BY SearchLinks
<1>9. \/ \E here \in GetSectionsByPath(config.sections, selector) :
           answer = handleSections(events, ok, here, config.sections)
      \/ answer \in {handleRoot, handleDiagnostics, errorResponse({Home})}
      \/ \E parts \in Seq(T) : answer \in {handleNotes(events, ok, config, parts),
                                           handleArticles(events, ok, config, parts),
                                           handleReplies(events, ok, config, parts),
                                           handleMentions(events, ok, config, parts),
                                           handleSearch(events, ok, parts)}
      \/ \E id : answer \in {handleNote(events, ok, config, id),
                             handleThread(events, ok, config, id),
                             handleProfile(events, ok, id)}
  BY RouteCases
<1>. HIDE DEF events
<1>. QED BY <1>1, <1>2, <1>3, <1>4, <1>5, <1>6, <1>7, <1>8, <1>9

-------------------------------------------------------------------------------
(* The Gemini server has the same queries: an instance of a module keeps a   *)
(* copy of each definition of its own.                                       *)

\* The queries of the two servers are the same queries.
LEMMA TwinQueries ==
  /\ \A a, b : Gemini!Smaller(a, b) = Smaller(a, b)
  /\ \A s, n : Gemini!Cut(s, n) = Cut(s, n)
  /\ \A S : Gemini!NewestFirst(S) = NewestFirst(S)
  /\ \A e, f : Gemini!Matches(e, f) = Matches(e, f)
  /\ \A S, f : Gemini!QueryEvents(S, f) = QueryEvents(S, f)
  /\ \A s : Gemini!Among(s) = Among(s)
  /\ \A S, t : Gemini!MostRelevantFirst(S, t) = MostRelevantFirst(S, t)
  /\ \A S, f, t : Gemini!QueryEventsWithSearch(S, f, t) = QueryEventsWithSearch(S, f, t)
<1>1. \A a, b : Gemini!Smaller(a, b) = Smaller(a, b)
  BY DEF Gemini!Smaller, Smaller
<1>2. \A s, n : Gemini!Cut(s, n) = Cut(s, n)
  BY <1>1 DEF Gemini!Cut, Cut
<1>3. \A S : Gemini!NewestFirst(S) = NewestFirst(S)
  BY Zenon DEF Gemini!NewestFirst, Gemini!Ranked, Gemini!Cardinality, NewestFirst,
     Ranked, Cardinality
<1>4. \A e, f : Gemini!Matches(e, f) = Matches(e, f)
  BY DEF Gemini!Matches, Gemini!Admits, Gemini!NoTime, Matches, Admits, NoTime
<1>5. \A S, f : Gemini!QueryEvents(S, f) = QueryEvents(S, f)
  BY <1>1, <1>2, <1>3, <1>4 DEF Gemini!QueryEvents, QueryEvents
<1>6. \A s : Gemini!Among(s) = Among(s)
  BY DEF Gemini!Among, Among
<1>7. \A S, t : Gemini!MostRelevantFirst(S, t) = MostRelevantFirst(S, t)
  BY Zenon DEF Gemini!MostRelevantFirst, Gemini!calculateRelevance, Gemini!Ranked,
     Gemini!Cardinality, MostRelevantFirst, calculateRelevance, Ranked, Cardinality
<1>8. \A S, f, t : Gemini!QueryEventsWithSearch(S, f, t) = QueryEventsWithSearch(S, f, t)
  BY <1>2, <1>5, <1>6, <1>7 DEF Gemini!QueryEventsWithSearch, QueryEventsWithSearch
<1>. QED BY <1>1, <1>2, <1>3, <1>4, <1>5, <1>6, <1>7, <1>8

\* So are the listings.
LEMMA TwinListings ==
  /\ \A e : Gemini!ParseThreadInfo(e) = ParseThreadInfo(e)
  /\ \A i : Gemini!IsReply(i) = IsReply(i)
  /\ \A e, p : Gemini!IsMentioningPubkey(e, p) = IsMentioningPubkey(e, p)
  /\ \A S, m : Gemini!HighestFirst(S, m) = HighestFirst(S, m)
  /\ \A e, r : Gemini!passesContentFilter(e, r) = passesContentFilter(e, r)
  /\ \A S, r, m : Gemini!filterAndSortEvents(S, r, m) = filterAndSortEvents(S, r, m)
  /\ \A S, b, n : Gemini!GetNotes(S, b, n) = GetNotes(S, b, n)
  /\ \A S, b, n : Gemini!GetArticles(S, b, n) = GetArticles(S, b, n)
  /\ \A S, b, n : Gemini!GetReplies(S, b, n) = GetReplies(S, b, n)
  /\ \A S, b, n : Gemini!GetMentions(S, b, n) = GetMentions(S, b, n)
<1>1. \A e : Gemini!ParseThreadInfo(e) = ParseThreadInfo(e)
  BY Zenon DEF Gemini!ParseThreadInfo, Gemini!hasMarkedTags, Gemini!LastMarked,
     Gemini!parseMarkedFormat, Gemini!parsePositionalFormat, ParseThreadInfo,
     hasMarkedTags, LastMarked, parseMarkedFormat, parsePositionalFormat
<1>2. \A i : Gemini!IsReply(i) = IsReply(i)
  BY DEF Gemini!IsReply, IsReply
<1>3. \A e, p : Gemini!IsMentioningPubkey(e, p) = IsMentioningPubkey(e, p)
  BY DEF Gemini!IsMentioningPubkey, IsMentioningPubkey
<1>4. \A S, m : Gemini!HighestFirst(S, m) = HighestFirst(S, m)
  BY Zenon DEF Gemini!HighestFirst, Gemini!SortKey, Gemini!InteractionScore,
     Gemini!Ranked, Gemini!Cardinality, HighestFirst, SortKey, InteractionScore, Ranked,
     Cardinality
<1>5. \A e, r : Gemini!passesContentFilter(e, r) = passesContentFilter(e, r)
  BY DEF Gemini!passesContentFilter, Gemini!InteractionScore, Gemini!HasInteractions,
     passesContentFilter, InteractionScore, HasInteractions
<1>6. \A S, r, m : Gemini!filterAndSortEvents(S, r, m) = filterAndSortEvents(S, r, m)
  BY <1>4, <1>5 DEF Gemini!filterAndSortEvents, filterAndSortEvents
<1>7. \A S, b, n : Gemini!GetNotes(S, b, n) = GetNotes(S, b, n)
  BY <1>1, <1>2, <1>6, TwinQueries DEF Gemini!GetNotes, Gemini!Everything,
     Gemini!NoTime, GetNotes, Everything, NoTime
<1>8. \A S, b, n : Gemini!GetArticles(S, b, n) = GetArticles(S, b, n)
  BY <1>6, TwinQueries DEF Gemini!GetArticles, Gemini!Everything, Gemini!NoTime,
     GetArticles, Everything, NoTime
<1>9. \A S, b, n : Gemini!GetReplies(S, b, n) = GetReplies(S, b, n)
  BY <1>1, <1>2, <1>3, <1>6, TwinQueries DEF Gemini!GetReplies, Gemini!Everything,
     Gemini!NoTime, GetReplies, Everything, NoTime
<1>10. \A S, b, n : Gemini!GetMentions(S, b, n) = GetMentions(S, b, n)
  BY <1>6, TwinQueries DEF Gemini!GetMentions, Gemini!Everything, Gemini!NoTime,
     GetMentions, Everything, NoTime
<1>. QED BY <1>1, <1>2, <1>3, <1>4, <1>5, <1>6, <1>7, <1>8, <1>9, <1>10

LEMMA TwinTree ==
  ASSUME NEW r, NEW f, NEW i, NEW s
  PROVE  Gemini!ThreadTree(r, f, i, s) = ThreadTree(r, f, i, s)
<1>. DEFINE found == {s[k] : k \in DOMAIN s}
            ids == {e.id : e \in found}
            attached == {e \in found : ParseThreadInfo(e).root \in {NoEvent, i}}
            twins == {e \in found : Gemini!ParseThreadInfo(e).root \in {NoEvent, i}}
            Parent(e) == LET to == ParseThreadInfo(e).reply
                         IN  IF to \in ids THEN to ELSE RootNode
            Twin(e) == LET to == Gemini!ParseThreadInfo(e).reply
                       IN  IF to \in ids THEN to ELSE Gemini!RootNode
            parent == [id \in {e.id : e \in attached} |-> Parent(CHOOSE e \in attached : e.id = id)]
            twin == [id \in {e.id : e \in twins} |-> Twin(CHOOSE e \in twins : e.id = id)]
<1>1. Gemini!ThreadTree(r, f, i, s) = [root |-> r.id, focus |-> f, parent |-> twin]
  BY Zenon DEF Gemini!ThreadTree
<1>2. ThreadTree(r, f, i, s) = [root |-> r.id, focus |-> f, parent |-> parent]
  BY Zenon DEF ThreadTree
<1>3. attached = twins
  BY TwinListings
<1>4. \A e : Parent(e) = Twin(e)
  BY TwinListings DEF RootNode, Gemini!RootNode
<1>. HIDE DEF Parent, Twin, attached, twins
<1>5. parent = twin
  BY <1>3, <1>4
<1>. HIDE DEF parent, twin
<1>. QED BY <1>1, <1>2, <1>5

\* And the threads and their trees.
LEMMA TwinThreads ==
  /\ \A S, i : Gemini!fetchSingleEvent(S, i) = fetchSingleEvent(S, i)
  /\ \A e : Gemini!ThreadRootOf(e) = ThreadRootOf(e)
  /\ \A S, i, l : Gemini!ThreadReplies(S, i, l) = ThreadReplies(S, i, l)
  /\ \A S, i, l : Gemini!GetThreadByEvent(S, i, l) = GetThreadByEvent(S, i, l)
  /\ \A t, d : Gemini!NodesAtDepth(t, d) = NodesAtDepth(t, d)
<1>1. \A S, i : Gemini!fetchSingleEvent(S, i) = fetchSingleEvent(S, i)
  BY TwinQueries DEF Gemini!fetchSingleEvent, Gemini!Everything, Gemini!NoTime,
     fetchSingleEvent, Everything, NoTime
<1>2. \A e : Gemini!ThreadRootOf(e) = ThreadRootOf(e)
  BY TwinListings DEF Gemini!ThreadRootOf, Gemini!isThreadableKind,
     Gemini!GetRootOrSelf, ThreadRootOf, isThreadableKind, GetRootOrSelf
<1>3. \A S, i, l : Gemini!ThreadReplies(S, i, l) = ThreadReplies(S, i, l)
  BY TwinQueries DEF Gemini!ThreadReplies, Gemini!threadQueryLimit, Gemini!Everything,
     Gemini!NoTime, ThreadReplies, threadQueryLimit, Everything, NoTime
<1>4. \A S, i, l : Gemini!GetThreadByEvent(S, i, l) = GetThreadByEvent(S, i, l)
  BY <1>1, <1>2, <1>3, TwinTree DEF Gemini!GetThreadByEvent, GetThreadByEvent
<1>5. \A t, d : Gemini!NodesAtDepth(t, d) = NodesAtDepth(t, d)
  BY Zenon DEF Gemini!NodesAtDepth, Gemini!RootNode, NodesAtDepth, RootNode
<1>. QED BY <1>1, <1>2, <1>3, <1>4, <1>5

LEMMA TwinPage ==
  ASSUME NEW S, NEW c, NEW n
  PROVE  Gemini!GetPage(S, c, n) = GetPage(S, c, n)
<1>1. \A m : Gemini!buildFilter(c, m) = buildFilter(c, m)
  BY DEF Gemini!buildFilter, Gemini!resolveAuthors, Gemini!normalizeAuthorValue, Gemini!Everything,
     Gemini!NoTime, buildFilter, resolveAuthors, normalizeAuthorValue, Everything, NoTime
<1>2. \A s, r : Gemini!applyIsReplyFilter(s, r) = applyIsReplyFilter(s, r)
  BY TwinQueries, TwinListings DEF Gemini!applyIsReplyFilter, Gemini!isThreadableKind,
     applyIsReplyFilter, isThreadableKind
<1>3. \A s : Gemini!sortEvents(s, c) = sortEvents(s, c)
  BY DEF Gemini!sortEvents, sortEvents
<1>. DEFINE m == IF n < 1 THEN 1 ELSE n
            found == sortEvents(applyIsReplyFilter(QueryEvents(S, buildFilter(c, m)), c.isReply), c)
            twin == Gemini!sortEvents(Gemini!applyIsReplyFilter(
                      Gemini!QueryEvents(S, Gemini!buildFilter(c, m)), c.isReply), c)
            Result(s) == LET offset == (m - 1) * c.limit
                             pages == (Len(s) + c.limit - 1) \div c.limit
                         IN  [events  |-> SubSeq(s, offset + 1, Smaller(offset + c.limit, Len(s))),
                              hasNext |-> m < pages,
                              hasPrev |-> m > 1]
<1>4. found = twin
  <2>. HIDE DEF m
  <2>. QED BY <1>1, <1>2, <1>3, TwinQueries
<1>5. GetPage(S, c, n) = Result(found)
  BY Zenon DEF GetPage
<1>6. Gemini!GetPage(S, c, n) = Result(twin)
  BY TwinQueries, Zenon DEF Gemini!GetPage
<1>. HIDE DEF found, twin, Result
<1>. QED BY <1>4, <1>5, <1>6

LEMMA TwinHere ==
  \A S, p : Gemini!GetSectionsByPath(S, p) = GetSectionsByPath(S, p)
BY Zenon DEF Gemini!GetSectionsByPath, GetSectionsByPath, Gemini!Cardinality, Cardinality

-------------------------------------------------------------------------------
(* The links of a Gemini page.                                               *)

GeminiLink(config, known, path) ==
  \/ path \in HomeMenus \/ SectionAt(config, path)
  \/ \E id \in known : \/ path = <<"note", id>> \/ path = <<"thread", id>>
                       \/ path = <<"profile", Event[id].author>> /\ Event[id].kind = 0

GeminiPage(config, known, answer) ==
  \A path \in answer.links : GeminiLink(config, known, path)

\* A thread that names known events only.
KnownThread(known, thread) ==
  thread # NoThread =>
    /\ thread.focus \in known /\ thread.root \in known
    /\ \A depth : NodesAtDepth(thread, depth) \subseteq known \cup {RootNode}

LEMMA HomeIsThere ==
  ASSUME NEW config, NEW known, NEW answer, answer.links \subseteq {<<>>}
  PROVE  GeminiPage(config, known, answer)
BY DEF GeminiPage, GeminiLink, HomeMenus

LEMMA FailuresLinkNothing ==
  ASSUME NEW config, NEW known, NEW status
  PROVE  GeminiPage(config, known, Gemini!FormatResponse(status))
BY DEF GeminiPage, Gemini!FormatResponse

LEMMA GeminiListLinks ==
  ASSUME NEW ids \in SUBSET DOMAIN Event, NEW config, NEW ok, NEW found \in Seq(EventsOf(ids))
  PROVE  GeminiPage(config, ids, Gemini!List(ok, found))
<1>1. \A i \in DOMAIN found : found[i].id \in ids
  BY EventsOfFacts
<1>2. Gemini!List(ok, found).links \subseteq {<<"note", found[i].id>> : i \in DOMAIN found} \cup {<<>>}
  BY DEF Gemini!List, Gemini!RenderNoteList, Gemini!FormatResponse, Gemini!FormatSuccessResponse,
     Gemini!Note
<1>. QED BY <1>1, <1>2 DEF GeminiPage, GeminiLink, HomeMenus

LEMMA GeminiThreadLinks ==
  ASSUME NEW config, NEW known, NEW thread, KnownThread(known, thread), thread # NoThread, NEW limits
  PROVE  \A path \in Gemini!ThreadLinks(thread, limits) : GeminiLink(config, known, path)
<1>. DEFINE drawn == UNION {Gemini!NodesAtDepth(thread, d) : d \in 0..(Gemini!maxDepthShown(limits) - 1)}
            named == {Gemini!Note(IF n = Gemini!RootNode THEN thread.root ELSE n) : n \in drawn}
<1>1. Gemini!ThreadLinks(thread, limits) = named \cup {Gemini!Note(thread.focus), <<>>}
  BY DEF Gemini!ThreadLinks
<1>2. drawn \subseteq known \cup {RootNode}
  BY TwinThreads DEF KnownThread
<1>3. Gemini!RootNode = RootNode
  BY DEF Gemini!RootNode, RootNode
<1>. HIDE DEF drawn
<1>4. \A path \in named : \E id \in known : path = <<"note", id>>
  BY <1>2, <1>3 DEF KnownThread, Gemini!Note
<1>5. Gemini!Note(thread.focus) = <<"note", thread.focus>> /\ thread.focus \in known
  BY DEF KnownThread, Gemini!Note
<1>. HIDE DEF named
<1>. QED BY <1>1, <1>4, <1>5 DEF GeminiLink, HomeMenus

LEMMA GeminiNoteLinks ==
  ASSUME NEW config, NEW known, NEW thread, KnownThread(known, thread),
         NEW found, found # << >> => \E id \in known : found[1].id = id
  PROVE  GeminiPage(config, known, Gemini!NotePage(found, thread, config))
<1>1. CASE found = << >>
  BY <1>1, FailuresLinkNothing DEF Gemini!NotePage
<1>2. CASE found # << >>
  <2>. DEFINE note == found[1]
  <2>1. PICK id \in known : note.id = id
    BY <1>2
  <2>2. Gemini!NotePage(found, thread, config) = Gemini!RenderNoteWithThread(note, thread, config)
    BY <1>2 DEF Gemini!NotePage
  <2>. HIDE DEF note
  <2>3. \A path \in {<<"thread", note.id>>, <<>>} : GeminiLink(config, known, path)
    BY <2>1 DEF GeminiLink, HomeMenus
  <2>4. Gemini!RenderNote(note).links = {<<"thread", note.id>>, <<>>}
    BY DEF Gemini!RenderNote, Gemini!FormatSuccessResponse
  <2>5. CASE thread = NoThread \/ ~config.showThread
    BY <2>2, <2>3, <2>4, <2>5 DEF Gemini!RenderNoteWithThread, GeminiPage
  <2>6. CASE ~(thread = NoThread \/ ~config.showThread)
    <3>1. Gemini!RenderNoteWithThread(note, thread, config).links =
            {<<"thread", note.id>>, <<>>} \cup Gemini!ThreadLinks(thread, config.limits)
      BY <2>6 DEF Gemini!RenderNoteWithThread, Gemini!RenderNote, Gemini!FormatSuccessResponse
    <3>2. \A path \in Gemini!ThreadLinks(thread, config.limits) : GeminiLink(config, known, path)
      BY <2>6, GeminiThreadLinks
    <3>. QED BY <2>2, <2>3, <3>1, <3>2 DEF GeminiPage
  <2>. QED BY <2>5, <2>6
<1>. QED BY <1>1, <1>2

LEMMA GeminiThreadPageLinks ==
  ASSUME NEW config, NEW known, NEW thread, KnownThread(known, thread), NEW limits
  PROVE  GeminiPage(config, known, Gemini!ThreadPage(thread, limits))
<1>1. CASE thread = NoThread
  BY <1>1, FailuresLinkNothing DEF Gemini!ThreadPage
<1>2. CASE thread # NoThread
  <2>1. Gemini!ThreadPage(thread, limits).links = Gemini!ThreadLinks(thread, limits)
    BY <1>2 DEF Gemini!ThreadPage, Gemini!RenderThread, Gemini!FormatSuccessResponse
  <2>. QED BY <1>2, <2>1, GeminiThreadLinks DEF GeminiPage
<1>. QED BY <1>1, <1>2

LEMMA GeminiSectionLinks ==
  ASSUME NEW ids \in SUBSET DOMAIN Event, NEW ok, NEW config \in Sites, NEW path,
         NEW here \in Gemini!GetSectionsByPath(config.sections, path)
  PROVE  LET answer == Gemini!handleSections(EventsOf(ids), ok, here, config.sections)
         IN  GeminiPage(config, ids, answer) /\ answer.status = Gemini!Success
<1>. DEFINE listed(i) == IF ok THEN Gemini!GetPage(EventsOf(ids), here[i], 1).events ELSE << >>
            shown(i) == {Gemini!Note(listed(i)[k].id) : k \in DOMAIN listed(i)}
            more == {s \in config.sections : s.path # Gemini!NoPath /\
                       \E i \in DOMAIN here : here[i].moreLink = s.name}
            named == IF ok THEN {s.path : s \in more} ELSE {}
            answer == Gemini!handleSections(EventsOf(ids), ok, here, config.sections)
<1>1. /\ answer.links = {<<>>} \cup named \cup UNION {shown(i) : i \in DOMAIN here}
      /\ answer.status = Gemini!Success
  BY DEF Gemini!handleSections, Gemini!FormatSuccessResponse
<1>2. ASSUME NEW i \in DOMAIN here PROVE listed(i) \in Seq(EventsOf(ids))
  <2>1. here[i].limit \in Nat \ {0}
    BY TwinHere, HereFacts
  <2>2. EventsOf(ids) \in SUBSET Everyone
    BY EventsOfFacts
  <2>3. 1 \in Nat \ {0}
    OBVIOUS
  <2>4. GetPage(EventsOf(ids), here[i], 1).events \in Seq(EventsOf(ids))
    BY <2>1, <2>2, <2>3, SectionsListed
  <2>5. << >> \in Seq(EventsOf(ids))
    OBVIOUS
  <2>. QED BY <2>4, <2>5, TwinPage
<1>3. \A p \in named : SectionAt(config, p)
  BY DEF SectionAt
<1>. HIDE DEF listed, named, answer
<1>4. ASSUME NEW i \in DOMAIN here, NEW p \in shown(i) PROVE GeminiLink(config, ids, p)
  <2>1. PICK k \in DOMAIN listed(i) : p = <<"note", listed(i)[k].id>>
    BY DEF Gemini!Note
  <2>2. listed(i)[k].id \in ids
    BY <1>2, EventsOfFacts
  <2>. QED BY <2>1, <2>2 DEF GeminiLink
<1>. HIDE DEF shown
<1>5. ASSUME NEW p, p \in answer.links PROVE GeminiLink(config, ids, p)
  <2>1. p = <<>> \/ p \in named \/ \E i \in DOMAIN here : p \in shown(i)
    BY <1>1, <1>5
  <2>. QED BY <1>3, <1>4, <2>1 DEF GeminiLink, HomeMenus
<1>. QED BY <1>1, <1>5 DEF GeminiPage, answer

LEMMA GeminiSearchLinks ==
  ASSUME NEW ids \in SUBSET DOMAIN Event, NEW config, NEW ok, NEW q
  PROVE  GeminiPage(config, ids, Gemini!handleSearch(EventsOf(ids), ok, q))
<1>. DEFINE filter == [Gemini!Everything EXCEPT !.kinds = {0, 1, 30023}, !.limit = GeminiSearchLimit]
            found == Gemini!QueryEventsWithSearch(EventsOf(ids), filter, q)
            shown == IF ok THEN found ELSE << >>
            LinkTo(e) == IF e.kind = 0 THEN <<"profile", e.author>> ELSE Gemini!Note(e.id)
            answer == Gemini!handleSearch(EventsOf(ids), ok, q)
<1>1. filter.limit \in Int
  BY BrowsingAssumption DEF Gemini!Everything
<1>2. answer = IF q = "" THEN Gemini!FormatResponse(Gemini!Input)
               ELSE Gemini!FormatSuccessResponse(Gemini!ListOf(shown),
                      {LinkTo(shown[i]) : i \in DOMAIN shown} \cup {<<"search">>, <<>>}, NoThread)
  BY DEF Gemini!handleSearch, Gemini!Everything
<1>. HIDE DEF filter
<1>3. \A i \in DOMAIN shown : shown[i] \in EventsOf(ids)
  <2>1. found \in Seq(EventsOf(ids))
    BY <1>1, EventsOfFacts, SearchListed, TwinQueries
  <2>. HIDE DEF found
  <2>. QED BY <2>1
<1>. HIDE DEF shown, answer
<1>4. ASSUME NEW i \in DOMAIN shown PROVE GeminiLink(config, ids, LinkTo(shown[i]))
  <2>1. shown[i].id \in ids /\ shown[i] = Event[shown[i].id]
    BY <1>3, EventsOfFacts
  <2>. QED BY <2>1 DEF GeminiLink, Gemini!Note
<1>5. GeminiLink(config, ids, <<"search">>) /\ GeminiLink(config, ids, <<>>)
  BY DEF GeminiLink, HomeMenus
<1>. HIDE DEF LinkTo
<1>6. answer.links \subseteq {LinkTo(shown[i]) : i \in DOMAIN shown} \cup {<<"search">>, <<>>}
  BY <1>2 DEF Gemini!FormatResponse, Gemini!FormatSuccessResponse
<1>. QED BY <1>4, <1>5, <1>6 DEF GeminiPage, answer

LEMMA GeminiRouteCases ==
  ASSUME NEW events, NEW ok, NEW config, NEW T, NEW path \in Seq(T), NEW q,
         NEW answer \in Gemini!Route(events, ok, config, path, q)
  PROVE  \/ \E here \in Gemini!GetSectionsByPath(config.sections, path) :
              answer = Gemini!handleSections(events, ok, here, config.sections)
         \/ answer \in {Gemini!RenderHome, Gemini!handleDiagnostics,
                        Gemini!FormatResponse(Gemini!NotFound)}
         \/ answer \in {Gemini!handleArticles(events, ok, config),
                        Gemini!handleReplies(events, ok, config),
                        Gemini!handleMentions(events, ok, config),
                        Gemini!handleSearch(events, ok, q)}
         \/ \E parts \in Seq(T) : answer = Gemini!handleNotes(events, ok, config, parts)
         \/ \E id : answer \in {Gemini!handleNote(events, ok, config, id),
                                Gemini!handleThread(events, ok, config, id),
                                Gemini!handleProfile(events, ok, id)}
<1>1. CASE \E s \in config.sections : s.path = path
  BY <1>1 DEF Gemini!Route
<1>2. CASE ~(\E s \in config.sections : s.path = path) /\ path = << >>
  BY <1>2 DEF Gemini!Route
<1>3. CASE ~(\E s \in config.sections : s.path = path) /\ path # << >>
  <2>1. Tail(path) \in Seq(T)
    BY <1>3
  <2>. QED BY <1>3, <2>1 DEF Gemini!Route
<1>. QED BY <1>1, <1>2, <1>3

LEMMA GeminiThreadKnown ==
  ASSUME NEW ids \in SUBSET DOMAIN Event, NEW config \in Sites, NEW id
  PROVE  /\ KnownThread(ids, Gemini!GetThreadByEvent(EventsOf(ids), id, config.limits))
         /\ LET found == Gemini!QueryEvents(EventsOf(ids), [Gemini!Everything EXCEPT !.ids = {id}])
            IN  found # << >> => id \in ids /\ found[1].id = id
<1>1. KnownThread(ids, GetThreadByEvent(EventsOf(ids), id, config.limits))
  BY ThreadFound DEF KnownThread
<1>. DEFINE found == QueryEvents(EventsOf(ids), [Everything EXCEPT !.ids = {id}])
<1>2. /\ id \notin ids => found = << >>
      /\ id \in ids => found # << >> /\ found[1] = Event[id]
  BY FetchFinds
<1>3. found = Gemini!QueryEvents(EventsOf(ids), [Gemini!Everything EXCEPT !.ids = {id}])
  BY TwinQueries DEF Gemini!Everything, Everything, Gemini!NoTime, NoTime
<1>4. found # << >> => id \in ids /\ found[1].id = id
  <2>. HIDE DEF found
  <2>. QED BY <1>2, BrowsingAssumption
<1>. HIDE DEF found
<1>. QED BY <1>1, <1>3, <1>4, TwinThreads

LEMMA GeminiNoteKnown ==
  ASSUME NEW ids \in SUBSET DOMAIN Event, NEW ok, NEW config \in Sites, NEW id
  PROVE  /\ GeminiPage(config, ids, Gemini!handleNote(EventsOf(ids), ok, config, id))
         /\ GeminiPage(config, ids, Gemini!handleThread(EventsOf(ids), ok, config, id))
<1>. DEFINE found == Gemini!QueryEvents(EventsOf(ids), [Gemini!Everything EXCEPT !.ids = {id}])
            thread == Gemini!GetThreadByEvent(EventsOf(ids), id, config.limits)
<1>1. KnownThread(ids, thread) /\ (found # << >> => id \in ids /\ found[1].id = id)
  BY GeminiThreadKnown
<1>2. /\ Gemini!handleNote(EventsOf(ids), ok, config, id) =
           IF ~ok THEN Gemini!FormatResponse(Gemini!NotFound) ELSE Gemini!NotePage(found, thread, config)
      /\ Gemini!handleThread(EventsOf(ids), ok, config, id) =
           IF ~ok THEN Gemini!FormatResponse(Gemini!NotFound)
           ELSE Gemini!ThreadPage(thread, config.limits)
  BY DEF Gemini!handleNote, Gemini!handleThread, Gemini!Everything
<1>. HIDE DEF found, thread
<1>. QED BY <1>1, <1>2, FailuresLinkNothing, GeminiNoteLinks, GeminiThreadPageLinks

LEMMA GeminiListings ==
  ASSUME NEW ids \in SUBSET DOMAIN Event, NEW ok, NEW config \in Sites
  PROVE  /\ GeminiPage(config, ids, Gemini!handleArticles(EventsOf(ids), ok, config))
         /\ GeminiPage(config, ids, Gemini!handleReplies(EventsOf(ids), ok, config))
         /\ GeminiPage(config, ids, Gemini!handleMentions(EventsOf(ids), ok, config))
         /\ \A parts : GeminiPage(config, ids, Gemini!handleNotes(EventsOf(ids), ok, config, parts))
<1>. DEFINE events == EventsOf(ids)
            notes == Gemini!GetNotes(events, config.behavior, GeminiListLimit)
<1>1. /\ Gemini!GetNotes(events, config.behavior, GeminiListLimit) \in Seq(events)
      /\ Gemini!GetArticles(events, config.behavior, GeminiListLimit) \in Seq(events)
      /\ Gemini!GetReplies(events, config.behavior, GeminiListLimit) \in Seq(events)
      /\ Gemini!GetMentions(events, config.behavior, GeminiListLimit) \in Seq(events)
  <2>1. GeminiListLimit \in Nat /\ events \in SUBSET Everyone
    BY BrowsingAssumption, EventsOfFacts
  <2>. HIDE DEF events
  <2>. QED BY <2>1, ListingsListed, TwinListings
<1>2. \A found \in Seq(events) : GeminiPage(config, ids, Gemini!List(ok, found))
  BY GeminiListLinks
<1>3. ASSUME NEW parts
      PROVE  GeminiPage(config, ids, Gemini!handleNotes(events, ok, config, parts))
  <2>1. \/ Gemini!handleNotes(events, ok, config, parts) = Gemini!List(ok, notes)
        \/ \E id : Gemini!handleNotes(events, ok, config, parts) =
                     Gemini!handleNote(events, ok, config, id)
    BY DEF Gemini!handleNotes
  <2>2. \A id : GeminiPage(config, ids, Gemini!handleNote(events, ok, config, id))
    BY GeminiNoteKnown
  <2>. HIDE DEF events
  <2>. QED BY <1>1, <1>2, <2>1, <2>2
<1>4. /\ Gemini!handleArticles(events, ok, config) =
           Gemini!List(ok, Gemini!GetArticles(events, config.behavior, GeminiListLimit))
      /\ Gemini!handleReplies(events, ok, config) =
           Gemini!List(ok, Gemini!GetReplies(events, config.behavior, GeminiListLimit))
      /\ Gemini!handleMentions(events, ok, config) =
           Gemini!List(ok, Gemini!GetMentions(events, config.behavior, GeminiListLimit))
  BY DEF Gemini!handleArticles, Gemini!handleReplies, Gemini!handleMentions
<1>. HIDE DEF events
<1>. QED BY <1>1, <1>2, <1>3, <1>4 DEF events

LEMMA GeminiAnswers ==
  ASSUME NEW ids \in SUBSET DOMAIN Event, NEW ok, NEW config \in Sites, NEW T, NEW path \in Seq(T),
         NEW q, NEW answer \in Gemini!Route(EventsOf(ids), ok, config, path, q)
  PROVE  GeminiPage(config, ids, answer)
<1>. DEFINE events == EventsOf(ids)
<1>1. ASSUME NEW here \in Gemini!GetSectionsByPath(config.sections, path)
      PROVE  GeminiPage(config, ids, Gemini!handleSections(events, ok, here, config.sections))
  BY GeminiSectionLinks
<1>2. GeminiPage(config, ids, Gemini!RenderHome)
  BY DEF GeminiPage, GeminiLink, HomeMenus, Gemini!RenderHome, Gemini!FormatSuccessResponse
<1>3. GeminiPage(config, ids, Gemini!handleDiagnostics)
  <2>1. Gemini!handleDiagnostics.links = {<<>>}
    BY DEF Gemini!handleDiagnostics, Gemini!FormatSuccessResponse
  <2>. QED BY <2>1, HomeIsThere
<1>4. GeminiPage(config, ids, Gemini!FormatResponse(Gemini!NotFound))
  BY FailuresLinkNothing
<1>5. ASSUME NEW id PROVE GeminiPage(config, ids, Gemini!handleProfile(events, ok, id))
  <2>1. Gemini!handleProfile(events, ok, id).links \subseteq {<<>>}
    BY DEF Gemini!handleProfile, Gemini!FormatResponse, Gemini!RenderProfile,
       Gemini!FormatSuccessResponse, Gemini!Everything
  <2>. QED BY <2>1, HomeIsThere
<1>6. GeminiPage(config, ids, Gemini!handleSearch(events, ok, q))
  BY GeminiSearchLinks
<1>7. \A id : /\ GeminiPage(config, ids, Gemini!handleNote(events, ok, config, id))
              /\ GeminiPage(config, ids, Gemini!handleThread(events, ok, config, id))
  BY GeminiNoteKnown
<1>8. /\ GeminiPage(config, ids, Gemini!handleArticles(events, ok, config))
      /\ GeminiPage(config, ids, Gemini!handleReplies(events, ok, config))
      /\ GeminiPage(config, ids, Gemini!handleMentions(events, ok, config))
      /\ \A parts : GeminiPage(config, ids, Gemini!handleNotes(events, ok, config, parts))
  BY GeminiListings
<1>9. \/ \E here \in Gemini!GetSectionsByPath(config.sections, path) :
           answer = Gemini!handleSections(events, ok, here, config.sections)
      \/ answer \in {Gemini!RenderHome, Gemini!handleDiagnostics,
                     Gemini!FormatResponse(Gemini!NotFound)}
      \/ answer \in {Gemini!handleArticles(events, ok, config),
                     Gemini!handleReplies(events, ok, config),
                     Gemini!handleMentions(events, ok, config),
                     Gemini!handleSearch(events, ok, q)}
      \/ \E parts \in Seq(T) : answer = Gemini!handleNotes(events, ok, config, parts)
      \/ \E id : answer \in {Gemini!handleNote(events, ok, config, id),
                             Gemini!handleThread(events, ok, config, id),
                             Gemini!handleProfile(events, ok, id)}
  BY GeminiRouteCases
<1>. HIDE DEF events
<1>. QED BY <1>1, <1>2, <1>3, <1>4, <1>5, <1>6, <1>7, <1>8, <1>9

-------------------------------------------------------------------------------
(* The invariant: pages and requests in progress name events that were       *)
(* stored, at some time.                                                     *)

Known == store \cup gone

StoreInv == store \in SUBSET DOMAIN Event /\ gone \in SUBSET DOMAIN Event /\ site \in Sites

ViewInv ==
  view # Nothing =>
    /\ view = [protocol |-> view.protocol, note |-> view.note, focus |-> view.focus,
               root |-> view.root, id |-> view.id, wants |-> view.wants, next |-> view.next]
    /\ view.protocol \in {"gopher", "gemini"} /\ view.wants \in {"note", "thread"}
    /\ view.note # << >> => view.note[1].id \in Known
    /\ view.next \in {"root", "replies"} => view.id \in Known /\ view.focus[1] \in EventsOf(Known)
    /\ view.next = "replies" => view.root[1] \in EventsOf(Known)

PageInv ==
  page # Nothing =>
    /\ page.protocol = "gopher" => GopherPage(site, Known, page.answer)
    /\ page.protocol = "gemini" => GeminiPage(site, Known, page.answer)

Inv == StoreInv /\ ViewInv /\ PageInv

IsSelector(path) == \E T : path \in Seq(T)

LEMMA LinksGrow ==
  ASSUME NEW config, NEW known, NEW more, known \subseteq more, NEW answer
  PROVE  /\ GopherPage(config, known, answer) => GopherPage(config, more, answer)
         /\ GeminiPage(config, known, answer) => GeminiPage(config, more, answer)
<1>1. ASSUME NEW link, GopherLink(config, known, answer.thread, link)
      PROVE  GopherLink(config, more, answer.thread, link)
  BY <1>1 DEF GopherLink
<1>2. ASSUME NEW path, GeminiLink(config, known, path)
      PROVE  GeminiLink(config, more, path)
  BY <1>2 DEF GeminiLink
<1>. QED BY <1>1, <1>2 DEF GopherPage, GeminiPage

LEMMA MenusAreSelectors ==
  /\ \A path \in HomeMenus : IsSelector(path)
  /\ \A config \in Sites : \A path : SectionAt(config, path) => IsSelector(path)
  /\ \A a, b : IsSelector(<<a, b>>)
  /\ \A a, b, c : IsSelector(<<a, b, c>>)
<1>1. ASSUME NEW path \in HomeMenus PROVE IsSelector(path)
  <2>1. path = <<>> \/ \E name : path = <<name>>
    BY DEF HomeMenus
  <2>2. <<>> \in Seq({})
    OBVIOUS
  <2>3. ASSUME NEW name, path = <<name>> PROVE path \in Seq({name})
    BY <2>3
  <2>. QED BY <2>1, <2>2, <2>3 DEF IsSelector
<1>2. ASSUME NEW config \in Sites, NEW path, SectionAt(config, path) PROVE IsSelector(path)
  <2>1. path \in Seq(STRING)
    BY <1>2, BrowsingAssumption DEF SectionAt
  <2>. QED BY <2>1 DEF IsSelector
<1>3. ASSUME NEW a, NEW b PROVE IsSelector(<<a, b>>)
  <2>1. <<a, b>> \in Seq({a, b})
    OBVIOUS
  <2>. QED BY <2>1 DEF IsSelector
<1>4. ASSUME NEW a, NEW b, NEW c PROVE IsSelector(<<a, b, c>>)
  <2>1. <<a, b, c>> \in Seq({a, b, c})
    OBVIOUS
  <2>. QED BY <2>1 DEF IsSelector
<1>. QED BY <1>1, <1>2, <1>3, <1>4

LEMMA LinksAreSelectors ==
  ASSUME NEW config \in Sites, NEW known
  PROVE  /\ \A thread, link : GopherLink(config, known, thread, link) => IsSelector(link.to)
         /\ \A path : GeminiLink(config, known, path) => IsSelector(path)
<1>1. ASSUME NEW thread, NEW link, GopherLink(config, known, thread, link)
      PROVE  IsSelector(link.to)
  <2>. DEFINE to == link.to
  <2>1. \/ to \in HomeMenus \/ SectionAt(config, to)
        \/ \E a, b : to = <<a, b>>
        \/ \E a, b, c : to = <<a, b, c>>
    BY <1>1 DEF GopherLink
  <2>. HIDE DEF to
  <2>2. IsSelector(to)
    BY <2>1, MenusAreSelectors
  <2>. QED BY <2>2 DEF to
<1>2. ASSUME NEW path, GeminiLink(config, known, path)
      PROVE  IsSelector(path)
  <2>1. \/ path \in HomeMenus \/ SectionAt(config, path)
        \/ \E a, b : path = <<a, b>>
    BY <1>2 DEF GeminiLink
  <2>. QED BY <2>1, MenusAreSelectors
<1>. QED BY <1>1, <1>2

\* What a client asks for next is a selector.
LEMMA ReachableSelectors ==
  ASSUME Inv
  PROVE  /\ \A path \in Reachable("gopher") : IsSelector(path)
         /\ \A path \in Reachable("gemini") : IsSelector(path)
<1>1. \A path \in Typed : IsSelector(path)
  <2>1. \A path \in Typed : path \in Seq(STRING)
    BY BrowsingAssumption
  <2>. QED BY <2>1 DEF IsSelector
<1>2. ASSUME NEW path \in Offered("gopher") PROVE IsSelector(path)
  <2>1. PICK link \in page.answer.links : path = link.to /\ page # Nothing /\ page.protocol = "gopher"
    BY DEF Offered
  <2>2. GopherLink(site, Known, page.answer.thread, link)
    BY <2>1 DEF Inv, PageInv, GopherPage
  <2>. QED BY <2>1, <2>2, LinksAreSelectors DEF Inv, StoreInv
<1>3. ASSUME NEW path \in Offered("gemini") PROVE IsSelector(path)
  <2>1. path \in page.answer.links /\ page # Nothing /\ page.protocol = "gemini"
    BY DEF Offered
  <2>2. GeminiLink(site, Known, path)
    BY <2>1 DEF Inv, PageInv, GeminiPage
  <2>. QED BY <2>2, LinksAreSelectors DEF Inv, StoreInv
<1>. QED BY <1>1, <1>2, <1>3 DEF Reachable

LEMMA StoredEvents == Stored = EventsOf(store)
BY DEF Stored, EventsOf

LEMMA InitInv == Init => Inv
BY BrowsingAssumption DEF Init, Inv, StoreInv, ViewInv, PageInv

LEMMA ChurnKeepsInv ==
  ASSUME Inv, NEW id \in DOMAIN Event, Arrive(id) \/ Prune(id)
  PROVE  Inv'
<1>1. StoreInv' /\ Known \subseteq Known' /\ UNCHANGED <<site, view, page>>
  BY DEF Inv, StoreInv, Known, Arrive, Prune
<1>2. ViewInv'
  <2>1. EventsOf(Known) \subseteq EventsOf(Known')
    BY <1>1 DEF EventsOf
  <2>. QED BY <1>1, <2>1 DEF Inv, ViewInv
<1>3. PageInv'
  <2>1. site' = site /\ page' = page
    BY <1>1
  <2>2. GopherPage(site, Known, page.answer) => GopherPage(site, Known', page.answer)
    BY <1>1, LinksGrow
  <2>3. GeminiPage(site, Known, page.answer) => GeminiPage(site, Known', page.answer)
    BY <1>1, LinksGrow
  <2>. QED BY <2>1, <2>2, <2>3 DEF Inv, PageInv
<1>. QED BY <1>1, <1>2, <1>3 DEF Inv

LEMMA AnswersKeepInv ==
  ASSUME Inv, UNCHANGED <<store, gone, site>>, ViewInv',
         NEW protocol, NEW answer, Answered(protocol, answer),
         protocol = "gopher" => GopherPage(site, Known, answer),
         protocol = "gemini" => GeminiPage(site, Known, answer)
  PROVE  Inv'
<1>1. StoreInv' /\ Known' = Known /\ site' = site
  BY DEF Inv, StoreInv, Known
<1>2. PageInv'
  <2>1. page'.protocol = protocol /\ page'.answer = answer
    BY DEF Answered
  <2>. QED BY <1>1, <2>1 DEF PageInv
<1>. QED BY <1>1, <1>2 DEF Inv

LEMMA StoreIsKnown ==
  ASSUME Inv
  PROVE  /\ \A answer : GopherPage(site, store, answer) => GopherPage(site, Known, answer)
         /\ \A answer : GeminiPage(site, store, answer) => GeminiPage(site, Known, answer)
BY LinksGrow DEF Known

LEMMA AsksKeepInv ==
  ASSUME Inv, NEW ok
  PROVE  /\ \A path \in Reachable("gopher") : AskGopher(path, ok) => Inv'
         /\ \A path \in Reachable("gemini") : AskGemini(Request(path, ""), ok) => Inv'
         /\ \A q \in Terms : AskGemini(Request(<<"search">>, q), ok) => Inv'
         /\ \A request \in BadRequests : AskGemini(request, ok) => Inv'
         /\ \A query : AskFinger(query, ok) => Inv'
<1>1. store \in SUBSET DOMAIN Event /\ site \in Sites
  BY DEF Inv, StoreInv
<1>2. ASSUME UNCHANGED <<store, gone, view>> PROVE ViewInv'
  BY <1>2 DEF Inv, ViewInv, Known
<1>3. ASSUME NEW path, IsSelector(path), AskGopher(path, ok) PROVE Inv'
  <2>1. PICK answer \in Route(EventsOf(store), ok, site, path) : Answered("gopher", answer)
    BY <1>3, StoredEvents DEF AskGopher
  <2>2. PICK T : path \in Seq(T)
    BY <1>3 DEF IsSelector
  <2>3. GopherPage(site, store, answer)
    BY <1>1, <2>1, <2>2, GopherAnswers
  <2>4. UNCHANGED <<store, gone, site, view>>
    BY <1>3 DEF AskGopher
  <2>. QED BY <1>2, <2>1, <2>3, <2>4, StoreIsKnown, AnswersKeepInv
<1>4. ASSUME NEW request, AskGemini(request, ok),
             \A answer \in Gemini!handleConnection(EventsOf(store), ok, site, request) :
               GeminiPage(site, store, answer)
      PROVE  Inv'
  <2>1. PICK answer \in Gemini!handleConnection(EventsOf(store), ok, site, request) :
          Answered("gemini", answer)
    BY <1>4, StoredEvents DEF AskGemini
  <2>2. UNCHANGED <<store, gone, site, view>>
    BY <1>4 DEF AskGemini
  <2>3. GeminiPage(site, store, answer)
    BY <1>4, <2>1
  <2>. QED BY <1>2, <2>1, <2>2, <2>3, StoreIsKnown, AnswersKeepInv
<1>5. ASSUME NEW path, IsSelector(path), NEW q
      PROVE  \A answer \in Gemini!handleConnection(EventsOf(store), ok, site, Request(path, q)) :
               GeminiPage(site, store, answer)
  <2>1. PICK T : path \in Seq(T)
    BY <1>5 DEF IsSelector
  <2>2. Gemini!handleConnection(EventsOf(store), ok, site, Request(path, q)) =
          Gemini!Route(EventsOf(store), ok, site, path, q)
    BY DEF Gemini!handleConnection, Request
  <2>. QED BY <1>1, <2>1, <2>2, GeminiAnswers
<1>6. ASSUME NEW request \in BadRequests
      PROVE  \A answer \in Gemini!handleConnection(EventsOf(store), ok, site, request) :
               GeminiPage(site, store, answer)
  <2>1. request.line # "whole" \/ ~request.url \/ ~request.gemini
    <3>1. request = [line |-> request.line, url |-> request.url, gemini |-> request.gemini,
                     path |-> <<>>, q |-> ""]
      BY DEF BadRequests
    <3>2. request # Request(<<>>, "") /\ request.url \in BOOLEAN /\ request.gemini \in BOOLEAN
      BY DEF BadRequests
    <3>. QED BY <3>1, <3>2 DEF Request
  <2>2. \A answer \in Gemini!handleConnection(EventsOf(store), ok, site, request) :
          \E status : answer = Gemini!FormatResponse(status)
    BY <2>1 DEF Gemini!handleConnection
  <2>. QED BY <2>2, FailuresLinkNothing
<1>7. ASSUME NEW query, AskFinger(query, ok) PROVE Inv'
  <2>1. Answered("finger", Handle(Stored, ok, query)) /\ UNCHANGED <<store, gone, site, view>>
    BY <1>7 DEF AskFinger
  <2>. QED BY <1>2, <2>1, AnswersKeepInv
<1>8. IsSelector(<<"search">>)
  BY MenusAreSelectors DEF HomeMenus
<1>. QED BY <1>3, <1>4, <1>5, <1>6, <1>7, <1>8, ReachableSelectors

LEMMA OpeningKeepsInv ==
  ASSUME Inv, NEW path, NEW protocol \in {"gopher", "gemini"}, OpenView(protocol, path)
  PROVE  Inv'
<1>1. StoreInv' /\ page' = Nothing
  BY DEF Inv, StoreInv, OpenView
<1>2. ViewInv'
  BY DEF OpenView, ViewInv
<1>. QED BY <1>1, <1>2 DEF Inv, PageInv

\* The page a note or a thread request ends with.
LEMMA ServingKeepsInv ==
  ASSUME Inv, UNCHANGED <<store, gone, site>>, view # Nothing,
         NEW note, note # << >> => note[1].id \in Known,
         NEW thread, KnownThread(Known, thread), Serve(note, thread)
  PROVE  Inv'
<1>1. view' = Nothing /\ ViewInv'
  BY DEF Serve, ViewInv
<1>2. view.protocol \in {"gopher", "gemini"} /\ view.wants \in {"note", "thread"}
  BY DEF Inv, ViewInv
<1>3. GopherPage(site, Known, NotePage(note, thread, site))
  BY NoteLinksHome, PlainLinks
<1>4. GopherPage(site, Known, ThreadPage(thread))
  BY ThreadLinksBack DEF KnownThread
<1>5. GeminiPage(site, Known, Gemini!NotePage(note, thread, site))
  BY GeminiNoteLinks
<1>6. GeminiPage(site, Known, Gemini!ThreadPage(thread, site.limits))
  BY GeminiThreadPageLinks
<1>7. CASE view.protocol = "gopher"
  <2>1. \/ Answered("gopher", NotePage(note, thread, site))
        \/ Answered("gopher", ThreadPage(thread))
    BY <1>2, <1>7 DEF Serve
  <2>. QED BY <1>1, <1>3, <1>4, <2>1, AnswersKeepInv
<1>8. CASE view.protocol = "gemini"
  <2>1. \/ Answered("gemini", Gemini!NotePage(note, thread, site))
        \/ Answered("gemini", Gemini!ThreadPage(thread, site.limits))
    BY <1>2, <1>8 DEF Serve
  <2>. QED BY <1>1, <1>5, <1>6, <2>1, AnswersKeepInv
<1>. QED BY <1>2, <1>7, <1>8

\* What a read of one event finds, at any step of a request.
LEMMA ReadFinds ==
  ASSUME Inv, NEW ok, NEW id
  PROVE  LET found == IF ok THEN fetchSingleEvent(Stored, id) ELSE << >>
         IN  found # << >> => /\ id \in Known /\ found[1] \in EventsOf(Known)
                              /\ found[1].id = id
<1>. DEFINE found == IF ok THEN fetchSingleEvent(Stored, id) ELSE << >>
<1>1. store \in SUBSET DOMAIN Event
  BY DEF Inv, StoreInv
<1>2. found # << >> => id \in store /\ found[1] = Event[id]
  BY <1>1, FetchFinds, StoredEvents
<1>. HIDE DEF found
<1>3. found # << >> => id \in Known /\ found[1] \in EventsOf(Known) /\ found[1].id = id
  BY <1>1, <1>2, BrowsingAssumption DEF Known, EventsOf
<1>. QED BY <1>3 DEF found

LEMMA ReadsKeepInv ==
  ASSUME Inv, NEW ok, ReadNote(ok) \/ ReadFocus(ok) \/ ReadRoot(ok)
  PROVE  Inv'
<1>1. view # Nothing /\ UNCHANGED <<store, gone, site>> /\ StoreInv' /\ Known' = Known
  BY DEF ReadNote, ReadFocus, ReadRoot, Inv, StoreInv, Known
<1>2. KnownThread(Known, NoThread)
  BY DEF KnownThread
<1>3. ASSUME UNCHANGED page PROVE PageInv'
  BY <1>1, <1>3 DEF Inv, PageInv
<1>4. EventsOf(Known') = EventsOf(Known)
  BY <1>1
<1>5. CASE ReadNote(ok)
  <2>. DEFINE found == IF ok THEN fetchSingleEvent(Stored, view.id) ELSE << >>
  <2>1. found # << >> => /\ view.id \in Known /\ found[1] \in EventsOf(Known)
                         /\ found[1].id = view.id
    BY ReadFinds
  <2>2. IF found = << >> THEN Serve(found, NoThread)
        ELSE view' = [view EXCEPT !.note = found, !.next = "focus"] /\ UNCHANGED page
    BY <1>5 DEF ReadNote
  <2>. HIDE DEF found
  <2>3. CASE found = << >>
    BY <1>1, <1>2, <2>2, <2>3, ServingKeepsInv
  <2>4. CASE found # << >>
    <3>1. view'.note[1].id \in Known /\ view'.next = "focus"
      BY <1>1, <2>1, <2>2, <2>4 DEF Inv, ViewInv
    <3>2. ViewInv'
      BY <1>1, <2>2, <2>4, <3>1 DEF Inv, ViewInv
    <3>. QED BY <1>1, <1>3, <2>2, <2>4, <3>2 DEF Inv
  <2>. QED BY <2>3, <2>4
<1>6. CASE ReadFocus(ok)
  <2>. DEFINE found == IF ok THEN fetchSingleEvent(Stored, view.id) ELSE << >>
  <2>1. found # << >> => /\ view.id \in Known /\ found[1] \in EventsOf(Known)
                         /\ found[1].id = view.id
    BY ReadFinds
  <2>2. IF found = << >> THEN Serve(view.note, NoThread)
        ELSE view' = [view EXCEPT !.focus = found, !.next = "root"] /\ UNCHANGED page
    BY <1>6 DEF ReadFocus
  <2>. HIDE DEF found
  <2>3. CASE found = << >>
    BY <1>1, <1>2, <2>2, <2>3, ServingKeepsInv DEF Inv, ViewInv
  <2>4. CASE found # << >>
    <3>1. /\ view'.focus = found /\ view'.next = "root" /\ view'.id = view.id
          /\ view'.note = view.note
      BY <1>1, <2>2, <2>4 DEF Inv, ViewInv
    <3>2. ViewInv'
      BY <1>1, <1>4, <2>1, <2>2, <2>4, <3>1 DEF Inv, ViewInv
    <3>. QED BY <1>1, <1>3, <2>2, <2>4, <3>2 DEF Inv
  <2>. QED BY <2>3, <2>4
<1>7. CASE ReadRoot(ok)
  <2>. DEFINE rootId == ThreadRootOf(view.focus[1])
              found == fetchSingleEvent(Stored, rootId)
              root == IF found = << >> THEN view.focus ELSE found
  <2>1. found # << >> => found[1] \in EventsOf(Known)
    <3>. DEFINE read == IF TRUE THEN fetchSingleEvent(Stored, rootId) ELSE << >>
    <3>1. read # << >> => read[1] \in EventsOf(Known)
      BY ReadFinds
    <3>. QED BY <3>1
  <2>2. IF ~ok THEN Serve(view.note, NoThread)
        ELSE view' = [view EXCEPT !.root = root, !.next = "replies"] /\ UNCHANGED page
    BY <1>7 DEF ReadRoot
  <2>3. view.next = "root"
    BY <1>7 DEF ReadRoot
  <2>4. root[1] \in EventsOf(Known)
    BY <1>1, <2>1, <2>3 DEF Inv, ViewInv
  <2>. HIDE DEF root, rootId, found
  <2>5. CASE ~ok
    BY <1>1, <1>2, <2>2, <2>5, ServingKeepsInv DEF Inv, ViewInv
  <2>6. CASE ok
    <3>1. /\ view'.root = root /\ view'.next = "replies" /\ view'.id = view.id
          /\ view'.note = view.note /\ view'.focus = view.focus
      BY <1>1, <2>2, <2>6 DEF Inv, ViewInv
    <3>2. ViewInv'
      BY <1>1, <1>4, <2>2, <2>3, <2>4, <2>6, <3>1 DEF Inv, ViewInv
    <3>. QED BY <1>1, <1>3, <2>2, <2>6, <3>2 DEF Inv
  <2>. QED BY <2>5, <2>6
<1>. QED BY <1>5, <1>6, <1>7

LEMMA ReadRepliesKeepsInv ==
  ASSUME Inv, NEW ok, ReadReplies(ok)
  PROVE  Inv'
<1>. DEFINE rootId == ThreadRootOf(view.focus[1])
            replies == ThreadReplies(Stored, rootId, site.limits)
            tree == ThreadTree(view.root[1], view.id, rootId, replies)
            thread == IF ok THEN tree ELSE NoThread
<1>1. /\ view # Nothing /\ view.next = "replies" /\ UNCHANGED <<store, gone, site>>
      /\ Serve(view.note, thread)
  BY DEF ReadReplies
<1>2. /\ store \in SUBSET DOMAIN Event /\ site \in Sites /\ store \subseteq Known
      /\ Known \subseteq DOMAIN Event
  BY DEF Inv, StoreInv, Known
<1>3. view.id \in Known /\ view.root[1] \in EventsOf(Known)
  BY <1>1 DEF Inv, ViewInv
<1>4. replies \in Seq(EventsOf(store))
  BY <1>2, RepliesListed, StoredEvents
<1>5. PICK id \in Known : view.root[1] = Event[id]
  BY <1>3 DEF EventsOf
<1>. HIDE DEF rootId, replies
<1>6. LET t == ThreadTree(Event[id], view.id, rootId, replies)
      IN  /\ t.root = id /\ t.focus = view.id
          /\ \A depth : NodesAtDepth(t, depth) \subseteq store \cup {RootNode}
  <2>1. id \in DOMAIN Event /\ view.id \in DOMAIN Event
    BY <1>2, <1>3
  <2>. QED BY <1>2, <1>4, <2>1, TreeFacts
<1>7. /\ tree.root \in Known /\ tree.focus \in Known
      /\ \A depth : NodesAtDepth(tree, depth) \subseteq store \cup {RootNode}
  BY <1>3, <1>5, <1>6
<1>. HIDE DEF tree
<1>8. KnownThread(Known, thread)
  BY <1>2, <1>7 DEF KnownThread
<1>9. view.note # << >> => view.note[1].id \in Known
  BY <1>1 DEF Inv, ViewInv
<1>. HIDE DEF thread
<1>. QED BY <1>1, <1>8, <1>9, ServingKeepsInv

LEMMA LeavingKeepsInv ==
  ASSUME Inv, Leave
  PROVE  Inv'
BY DEF Leave, Inv, StoreInv, ViewInv, PageInv, Known

LEMMA NextInv ==
  ASSUME Inv, [Next]_vars
  PROVE  Inv'
<1>1. ASSUME NEW id \in DOMAIN Event, Arrive(id) \/ Prune(id) PROVE Inv'
  BY <1>1, ChurnKeepsInv
<1>2. ASSUME NEW path \in Reachable("gopher"), NEW ok \in BOOLEAN, AskGopher(path, ok) PROVE Inv'
  BY <1>2, AsksKeepInv
<1>3. ASSUME NEW path \in Reachable("gemini"), NEW ok \in BOOLEAN, AskGemini(Request(path, ""), ok)
      PROVE  Inv'
  BY <1>3, AsksKeepInv
<1>4. ASSUME NEW path, OpenView("gopher", path) \/ OpenView("gemini", path) PROVE Inv'
  BY <1>4, OpeningKeepsInv
<1>5. ASSUME NEW ok \in BOOLEAN, ReadNote(ok) \/ ReadFocus(ok) \/ ReadRoot(ok) PROVE Inv'
  BY <1>5, ReadsKeepInv
<1>6. ASSUME NEW ok \in BOOLEAN, ReadReplies(ok) PROVE Inv'
  BY <1>6, ReadRepliesKeepsInv
<1>7. ASSUME NEW q \in Terms, NEW ok \in BOOLEAN, AskGemini(Request(<<"search">>, q), ok) PROVE Inv'
  BY <1>7, AsksKeepInv
<1>8. ASSUME NEW request \in BadRequests, AskGemini(request, TRUE) PROVE Inv'
  BY <1>8, AsksKeepInv
<1>9. ASSUME NEW query \in FingerQueries, NEW ok \in BOOLEAN, AskFinger(query, ok) PROVE Inv'
  BY <1>9, AsksKeepInv
<1>10. ASSUME UNCHANGED vars PROVE Inv'
  BY <1>10 DEF vars, Inv, StoreInv, ViewInv, PageInv, Known
<1>. QED BY <1>1, <1>2, <1>3, <1>4, <1>5, <1>6, <1>7, <1>8, <1>9, <1>10, LeavingKeepsInv DEF Next

-------------------------------------------------------------------------------
(* Where the links lead.                                                     *)

\* A built-in selector, where no section is in front of it.
LEMMA MenusRouted ==
  ASSUME NEW events, NEW ok, NEW config, NEW selector, ~SectionAt(config, selector)
  PROVE  LET answers == Route(events, ok, config, selector)
         IN  /\ selector = << >> => answers = {handleRoot}
             /\ selector = <<"search">> => answers = {handleSearch(events, ok, << >>)}
             /\ selector = <<"diagnostics">> => answers = {handleDiagnostics}
             /\ \A id : selector = <<"note", id>> => answers = {handleNote(events, ok, config, id)}
             /\ \A author : selector = <<"profile", author>> =>
                              answers = {handleProfile(events, ok, author)}
<1>1. selector = << >> => Route(events, ok, config, selector) = {handleRoot}
  BY DEF Route, SectionAt
<1>2. selector = <<"search">> =>
        Route(events, ok, config, selector) = {handleSearch(events, ok, << >>)}
  <2>1. <<"search">> # << >> /\ <<"search">>[1] = "search" /\ Tail(<<"search">>) = << >>
    OBVIOUS
  <2>. QED BY <2>1 DEF Route, SectionAt
<1>3. selector = <<"diagnostics">> => Route(events, ok, config, selector) = {handleDiagnostics}
  BY DEF Route, SectionAt
<1>4. ASSUME NEW id, selector = <<"note", id>>
      PROVE  Route(events, ok, config, selector) = {handleNote(events, ok, config, id)}
  <2>1. selector # << >> /\ selector[1] = "note" /\ selector[2] = id /\ Len(selector) >= 2
    BY <1>4
  <2>. QED BY <2>1 DEF Route, SectionAt
<1>5. ASSUME NEW author, selector = <<"profile", author>>
      PROVE  Route(events, ok, config, selector) = {handleProfile(events, ok, author)}
  <2>1. selector # << >> /\ selector[1] = "profile" /\ selector[2] = author /\ Len(selector) >= 2
    BY <1>5
  <2>. QED BY <2>1 DEF Route, SectionAt
<1>. QED BY <1>1, <1>2, <1>3, <1>4, <1>5

LEMMA ProfileRouted ==
  ASSUME NEW events, NEW config, NEW selector, ~SectionAt(config, selector),
         NEW author, selector = <<"profile", author>>
  PROVE  Route(events, TRUE, config, selector) = {handleProfile(events, TRUE, author)}
<1>1. \A ok : \A a : selector = <<"profile", a>> =>
                       Route(events, ok, config, selector) = {handleProfile(events, ok, a)}
  BY MenusRouted
<1>. QED BY <1>1

\* The listing a base names.
ListingIn(events, config, base) ==
  CASE base = "notes"    -> GetNotes(events, config.behavior, GopherListLimit)
    [] base = "articles" -> GetArticles(events, config.behavior, GopherListLimit)
    [] base = "replies"  -> GetReplies(events, config.behavior, GopherListLimit)
    [] base = "mentions" -> GetMentions(events, config.behavior, GopherListLimit)

\* The page number a listing is asked for, and that nothing is left of it.
LEMMA PageAsked ==
  /\ parsePageFromParts(<< >>) = [page |-> 1, remaining |-> << >>]
  /\ \A x : /\ parsePageFromParts(<<"page", x>>).remaining \in {<<"page", x>>, << >>}
            /\ \A n \in 1..MaxPage : x = ToString(n) => parsePageFromParts(<<"page", x>>).page = n
<1>1. parsePageFromParts(<< >>) = [page |-> 1, remaining |-> << >>]
  <2>1. {i \in 1..(Len(<< >>) - 1) :
           << >>[i] = "page" /\ << >>[i + 1] \in {ToString(n) : n \in 1..MaxPage}} = {}
    OBVIOUS
  <2>. QED BY <2>1 DEF parsePageFromParts
<1>2. ASSUME NEW x
      PROVE  /\ parsePageFromParts(<<"page", x>>).remaining \in {<<"page", x>>, << >>}
             /\ \A n \in 1..MaxPage : x = ToString(n) => parsePageFromParts(<<"page", x>>).page = n
  <2>. DEFINE parts == <<"page", x>>
              numerals == {ToString(n) : n \in 1..MaxPage}
              at == {i \in 1..(Len(parts) - 1) : parts[i] = "page" /\ parts[i + 1] \in numerals}
              first == CHOOSE j \in at : \A k \in at : j <= k
  <2>1. parsePageFromParts(parts) =
          IF at = {} THEN [page |-> 1, remaining |-> parts]
          ELSE [page      |-> CHOOSE n \in 1..MaxPage : ToString(n) = parts[first + 1],
                remaining |-> SubSeq(parts, 1, first - 1) \o SubSeq(parts, first + 2, Len(parts))]
    BY DEF parsePageFromParts
  <2>2. at = {i \in {1} : x \in numerals}
    <3>1. 1..(Len(parts) - 1) = {1} /\ parts[1] = "page" /\ parts[1 + 1] = x
      OBVIOUS
    <3>. HIDE DEF numerals, parts
    <3>. QED BY <3>1
  <2>3. CASE x \notin numerals
    <3>1. at = {}
      BY <2>2, <2>3
    <3>2. \A n \in 1..MaxPage : x # ToString(n)
      BY <2>3
    <3>. HIDE DEF at
    <3>. QED BY <2>1, <3>1, <3>2
  <2>4. CASE x \in numerals
    <3>1. at = {1}
      BY <2>2, <2>4
    <3>. HIDE DEF at
    <3>2. first = 1
      BY <3>1
    <3>. HIDE DEF first
    <3>3. SubSeq(parts, 1, first - 1) \o SubSeq(parts, first + 2, Len(parts)) = << >>
      <4>1. SubSeq(parts, 1, 0) = << >> /\ SubSeq(parts, 3, 2) = << >> /\ Len(parts) = 2
        OBVIOUS
      <4>. QED BY <3>2, <4>1
    <3>4. ASSUME NEW n \in 1..MaxPage, x = ToString(n)
          PROVE  (CHOOSE m \in 1..MaxPage : ToString(m) = parts[first + 1]) = n
      <4>1. parts[first + 1] = ToString(n)
        BY <3>2, <3>4
      <4>2. \A m \in 1..MaxPage : ToString(m) = ToString(n) => m = n
        BY NotationAssumption, BrowsingAssumption
      <4>. QED BY <4>1, <4>2
    <3>5. at # {}
      BY <3>1
    <3>. DEFINE number == CHOOSE m \in 1..MaxPage : ToString(m) = parts[first + 1]
    <3>6. parsePageFromParts(parts) = [page |-> number, remaining |-> << >>]
      BY <2>1, <3>3, <3>5
    <3>7. \A n \in 1..MaxPage : x = ToString(n) => number = n
      BY <3>4
    <3>. HIDE DEF number
    <3>. QED BY <3>6, <3>7
  <2>. QED BY <2>3, <2>4
<1>. QED BY <1>1, <1>2

\* The pages of a listing are asked for by the base, and by its page number.
ForPage(parts) == parts = << >> \/ \E x : parts = <<"page", x>>

ForListing(selector, base) ==
  selector # << >> /\ selector[1] = base /\ ForPage(Tail(selector))

LEMMA ListingSelectors ==
  \A base : ForListing(<<base>>, base) /\ \A x : ForListing(<<base, "page", x>>, base)
<1>1. ASSUME NEW base PROVE ForListing(<<base>>, base)
  <2>1. Tail(<<base>>) = << >> /\ <<base>> # << >> /\ <<base>>[1] = base
    OBVIOUS
  <2>. QED BY <2>1 DEF ForListing, ForPage
<1>2. ASSUME NEW base, NEW x PROVE ForListing(<<base, "page", x>>, base)
  <2>1. Tail(<<base, "page", x>>) = <<"page", x>> /\ <<base, "page", x>> # << >>
        /\ <<base, "page", x>>[1] = base
    OBVIOUS
  <2>2. ForPage(<<"page", x>>)
    BY DEF ForPage
  <2>. QED BY <2>1, <2>2 DEF ForListing
<1>. QED BY <1>1, <1>2

LEMMA ListingsRouted ==
  ASSUME NEW events, NEW ok, NEW config, NEW base \in Bases, NEW selector,
         ~SectionAt(config, selector), ForListing(selector, base)
  PROVE  Route(events, ok, config, selector) =
           {Listing(ok, base, ListingIn(events, config, base),
                    parsePageFromParts(Tail(selector)).page)}
<1>. DEFINE parts == Tail(selector)
            rest == parsePageFromParts(parts).remaining
            n == parsePageFromParts(parts).page
<1>1. selector # << >> /\ selector[1] = base /\ ForPage(parts)
  BY DEF ForListing
<1>2. /\ base = "notes" => Route(events, ok, config, selector) = {handleNotes(events, ok, config, parts)}
      /\ base = "articles" => Route(events, ok, config, selector) = {handleArticles(events, ok, config, parts)}
      /\ base = "replies" => Route(events, ok, config, selector) = {handleReplies(events, ok, config, parts)}
      /\ base = "mentions" => Route(events, ok, config, selector) = {handleMentions(events, ok, config, parts)}
  BY <1>1 DEF Route, SectionAt
<1>. HIDE DEF parts
<1>3. ~(rest # << >> /\ rest[1] \notin {"", "page"})
  <2>1. ASSUME parts = << >> PROVE rest = << >>
    BY <2>1, PageAsked
  <2>2. ASSUME NEW x, parts = <<"page", x>> PROVE rest = << >> \/ rest[1] = "page"
    <3>1. parsePageFromParts(<<"page", x>>).remaining \in {<<"page", x>>, << >>}
      BY PageAsked
    <3>2. rest \in {<<"page", x>>, << >>}
      BY <2>2, <3>1
    <3>. HIDE DEF rest
    <3>. QED BY <3>2
  <2>. HIDE DEF rest
  <2>3. rest = << >> \/ rest[1] = "page"
    BY <1>1, <2>1, <2>2 DEF ForPage
  <2>. QED BY <2>3
<1>4. handleNotes(events, ok, config, parts) =
        Listing(ok, "notes", GetNotes(events, config.behavior, GopherListLimit), n)
  BY <1>3 DEF handleNotes
<1>5. base \in {"notes", "articles", "replies", "mentions"}
  BY DEF Bases
<1>. HIDE DEF n
<1>6. Route(events, ok, config, selector) = {Listing(ok, base, ListingIn(events, config, base), n)}
  <2>1. CASE base = "notes"
    BY <1>2, <1>4, <2>1 DEF ListingIn
  <2>2. CASE base = "articles"
    BY <1>2, <2>2 DEF ListingIn, handleArticles, n
  <2>3. CASE base = "replies"
    BY <1>2, <2>3 DEF ListingIn, handleReplies, n
  <2>4. CASE base = "mentions"
    BY <1>2, <2>4 DEF ListingIn, handleMentions, n
  <2>. QED BY <1>5, <2>1, <2>2, <2>3, <2>4
<1>. QED BY <1>6 DEF n, parts

IsMenu(answer) == answer.form = "menu" /\ answer.error = FALSE

IsText(answer) == answer.form = "text" /\ answer.error = FALSE

LEMMA ListingsResolve ==
  ASSUME NEW events, NEW config, NEW base \in Bases, NEW selector,
         ~SectionAt(config, selector), ForListing(selector, base)
  PROVE  \A answer \in Route(events, TRUE, config, selector) : IsMenu(answer)
<1>1. ASSUME NEW found, NEW n PROVE IsMenu(Listing(TRUE, base, found, n))
  BY DEF Listing, Gophermap, IsMenu
<1>. DEFINE n == parsePageFromParts(Tail(selector)).page
            found == ListingIn(events, config, base)
<1>2. Route(events, TRUE, config, selector) = {Listing(TRUE, base, found, n)}
  <2>1. \A ok : Route(events, ok, config, selector) = {Listing(ok, base, found, n)}
    BY ListingsRouted
  <2>. HIDE DEF found, n
  <2>. QED BY <2>1
<1>. HIDE DEF found, n
<1>. QED BY <1>1, <1>2

LEMMA MenusResolve ==
  ASSUME NEW events, NEW config, NEW selector \in HomeMenus, ~SectionAt(config, selector)
  PROVE  \A answer \in Route(events, TRUE, config, selector) : IsMenu(answer)
<1>1. IsMenu(handleRoot)
  BY DEF handleRoot, Gophermap, IsMenu
<1>2. IsMenu(handleSearch(events, TRUE, << >>))
  BY DEF handleSearch, Everything, Gophermap, IsMenu
<1>3. IsMenu(handleDiagnostics)
  BY DEF handleDiagnostics, Gophermap, IsMenu
<1>4. \/ selector = << >> \/ selector = <<"search">> \/ selector = <<"diagnostics">>
      \/ \E base \in Bases : selector = <<base>>
  BY DEF HomeMenus, Bases
<1>. DEFINE answers == Route(events, TRUE, config, selector)
<1>5. /\ selector = << >> => answers = {handleRoot}
      /\ selector = <<"search">> => answers = {handleSearch(events, TRUE, << >>)}
      /\ selector = <<"diagnostics">> => answers = {handleDiagnostics}
  <2>1. \A ok : /\ selector = << >> => Route(events, ok, config, selector) = {handleRoot}
                /\ selector = <<"search">> =>
                     Route(events, ok, config, selector) = {handleSearch(events, ok, << >>)}
                /\ selector = <<"diagnostics">> =>
                     Route(events, ok, config, selector) = {handleDiagnostics}
    BY MenusRouted
  <2>. QED BY <2>1
<1>6. ASSUME NEW base \in Bases, selector = <<base>> PROVE \A answer \in answers : IsMenu(answer)
  BY <1>6, ListingSelectors, ListingsResolve
<1>. HIDE DEF answers
<1>. QED BY <1>1, <1>2, <1>3, <1>4, <1>5, <1>6 DEF answers

\* The profile of an author is found where a profile of theirs is stored.
LEMMA ProfileFound ==
  ASSUME NEW ids \in SUBSET DOMAIN Event, NEW id \in ids, Event[id].kind = 0
  PROVE  QueryEvents(EventsOf(ids), [Everything EXCEPT !.kinds = {0}, !.authors = {Event[id].author},
                                                       !.limit = 1]) # << >>
<1>. DEFINE filter == [Everything EXCEPT !.kinds = {0}, !.authors = {Event[id].author}, !.limit = 1]
<1>1. /\ filter.kinds = {0} /\ filter.authors = {Event[id].author} /\ filter.limit \in Int
      /\ filter.ids = {} /\ filter.eTags = {} /\ filter.pTags = {}
      /\ filter.since = NoTime /\ filter.until = NoTime
  BY DEF Everything
<1>. HIDE DEF filter
<1>2. Matches(Event[id], filter)
  BY <1>1 DEF Matches, Admits
<1>3. Event[id] \in {e \in EventsOf(ids) : Matches(e, filter)}
  BY <1>2 DEF EventsOf
<1>. QED BY <1>1, <1>3, EventsOfFacts, QueryListed DEF filter

\* A note that is stored is shown, and a profile.
LEMMA NotesResolve ==
  ASSUME NEW ids \in SUBSET DOMAIN Event, NEW config, NEW id \in ids
  PROVE  /\ IsText(handleNote(EventsOf(ids), TRUE, config, id))
         /\ Event[id].kind = 0 => IsText(handleProfile(EventsOf(ids), TRUE, Event[id].author))
<1>1. IsText(handleNote(EventsOf(ids), TRUE, config, id))
  <2>. DEFINE found == QueryEvents(EventsOf(ids), [Everything EXCEPT !.ids = {id}])
              thread == GetThreadByEvent(EventsOf(ids), id, config.limits)
  <2>1. found # << >>
    BY FetchFinds
  <2>2. handleNote(EventsOf(ids), TRUE, config, id) = NotePage(found, thread, config)
    BY DEF handleNote, Everything
  <2>. HIDE DEF found, thread
  <2>3. NotePage(found, thread, config) = RenderNoteWithThread(found[1], thread, config)
    BY <2>1 DEF NotePage
  <2>4. IsText(RenderNoteWithThread(found[1], thread, config))
    BY DEF RenderNoteWithThread, RenderNote, PlainText, IsText
  <2>. QED BY <2>2, <2>3, <2>4
<1>2. ASSUME Event[id].kind = 0
      PROVE  IsText(handleProfile(EventsOf(ids), TRUE, Event[id].author))
  <2>. DEFINE found == QueryEvents(EventsOf(ids),
                         [Everything EXCEPT !.kinds = {0}, !.authors = {Event[id].author}, !.limit = 1])
  <2>1. found # << >>
    BY <1>2, ProfileFound
  <2>2. handleProfile(EventsOf(ids), TRUE, Event[id].author) =
          IF found = << >> THEN errorResponse({Home}) ELSE RenderProfile(found[1])
    BY DEF handleProfile, Everything
  <2>. HIDE DEF found
  <2>3. IsText(RenderProfile(found[1]))
    BY DEF RenderProfile, PlainText, IsText
  <2>. QED BY <2>1, <2>2, <2>3
<1>. QED BY <1>1, <1>2

\* The selector does not name an event that is lost, nor the profile of one.
NamesNone(lost, path) ==
  ~(/\ Len(path) >= 2
    /\ \/ path[2] \in lost
       \/ \E id \in lost : Event[id].kind = 0 /\ path = <<"profile", Event[id].author>>)

LEMMA NamesStored ==
  ASSUME NEW ids, NEW lost, NEW id \in ids \cup lost
  PROVE  /\ \A name : NamesNone(lost, <<name, id>>) => id \in ids
         /\ Event[id].kind = 0 /\ NamesNone(lost, <<"profile", Event[id].author>>) => id \in ids
<1>1. \A a, b : Len(<<a, b>>) >= 2 /\ <<a, b>>[2] = b
  OBVIOUS
<1>. QED BY <1>1 DEF NamesNone

\* What the answer to a link promised, a section at its place included.
GopherResolved(config, thread, link, answer) ==
  /\ ~answer.error
  /\ \/ answer.form = link.form
     \/ SectionAt(config, link.to)
     \/ thread # NoThread /\ link.to = <<"note", thread.focus>>

LEMMA GopherResolves ==
  ASSUME NEW ids \in SUBSET DOMAIN Event, NEW lost \in SUBSET DOMAIN Event, NEW config \in Sites,
         NEW thread, NEW link, GopherLink(config, ids \cup lost, thread, link),
         ~SectionAt(config, link.to), NamesNone(lost, link.to),
         NEW answer \in Route(EventsOf(ids), TRUE, config, link.to)
  PROVE  GopherResolved(config, thread, link, answer)
<1>. DEFINE to == link.to
            answers == Route(EventsOf(ids), TRUE, config, to)
            known == ids \cup lost
            ByPage(base, x) == to = <<base, "page", x>>
            Noted(id) == to = <<"note", id>>
            Profiled(id) == to = <<"profile", Event[id].author>> /\ Event[id].kind = 0
<1>1. \/ /\ link.form = "menu"
         /\ \/ to \in HomeMenus
            \/ \E base \in Bases : \E x : ByPage(base, x)
            \/ thread # NoThread /\ thread.focus \in known /\ Noted(thread.focus)
      \/ link.form = "text" /\ \E id \in known : Noted(id) \/ Profiled(id)
  BY DEF GopherLink
<1>. HIDE DEF to
<1>2. to = link.to /\ ~SectionAt(config, to) /\ NamesNone(lost, to) /\ answer \in answers
  BY DEF to
<1>3. ASSUME to \in HomeMenus PROVE IsMenu(answer)
  BY <1>2, <1>3, MenusResolve
<1>4. ASSUME NEW base \in Bases, NEW x, ByPage(base, x) PROVE IsMenu(answer)
  <2>1. ForListing(to, base)
    BY <1>4, ListingSelectors
  <2>. QED BY <1>2, <2>1, ListingsResolve
<1>5. ASSUME NEW id \in known, Noted(id) PROVE IsText(answer)
  <2>1. id \in ids
    BY <1>2, <1>5, NamesStored
  <2>2. answers = {handleNote(EventsOf(ids), TRUE, config, id)}
    BY <1>2, <1>5, MenusRouted
  <2>. QED BY <1>2, <2>1, <2>2, NotesResolve
<1>6. ASSUME NEW id \in known, Profiled(id) PROVE IsText(answer)
  <2>1. id \in ids
    BY <1>2, <1>6, NamesStored
  <2>. DEFINE author == Event[id].author
  <2>2. to = <<"profile", author>>
    BY <1>6
  <2>. HIDE DEF author
  <2>3. answers = {handleProfile(EventsOf(ids), TRUE, author)}
    BY <1>2, <2>2, ProfileRouted
  <2>. QED BY <1>2, <1>6, <2>1, <2>3, NotesResolve DEF author
<1>7. ASSUME thread # NoThread, thread.focus \in known, Noted(thread.focus)
      PROVE  GopherResolved(config, thread, link, answer)
  <2>1. IsText(answer)
    BY <1>5, <1>7
  <2>. QED BY <1>2, <1>7, <2>1 DEF IsText, GopherResolved
<1>. HIDE DEF ByPage, Noted, Profiled, known, answers
<1>8. ASSUME IsMenu(answer), link.form = "menu" PROVE GopherResolved(config, thread, link, answer)
  BY <1>8 DEF IsMenu, GopherResolved
<1>9. ASSUME IsText(answer), link.form = "text" PROVE GopherResolved(config, thread, link, answer)
  BY <1>9 DEF IsText, GopherResolved
<1>. QED BY <1>1, <1>3, <1>4, <1>5, <1>6, <1>7, <1>8, <1>9

LEMMA GopherLinksResolve ==
  ASSUME NEW ids \in SUBSET DOMAIN Event, NEW lost \in SUBSET DOMAIN Event, NEW config \in Sites,
         NEW thread, NEW link, GopherLink(config, ids \cup lost, thread, link),
         NamesNone(lost, link.to)
  PROVE  \A answer \in Route(EventsOf(ids), TRUE, config, link.to) :
           GopherResolved(config, thread, link, answer)
<1>1. ASSUME SectionAt(config, link.to), NEW answer \in Route(EventsOf(ids), TRUE, config, link.to)
      PROVE  GopherResolved(config, thread, link, answer)
  <2>1. PICK here \in GetSectionsByPath(config.sections, link.to) :
          answer = handleSections(EventsOf(ids), TRUE, here, config.sections)
    BY <1>1 DEF Route, SectionAt
  <2>. QED BY <1>1, <2>1, SectionLinks DEF GopherResolved
<1>2. ASSUME ~SectionAt(config, link.to), NEW answer \in Route(EventsOf(ids), TRUE, config, link.to)
      PROVE  GopherResolved(config, thread, link, answer)
  BY <1>2, GopherResolves
<1>. QED BY <1>1, <1>2

\* The same for Gemini.
IsAnswer(answer) == answer.status \in {Gemini!Success, Gemini!Input}

LEMMA GeminiRouted ==
  ASSUME NEW events, NEW ok, NEW config, NEW path, ~SectionAt(config, path), NEW q
  PROVE  LET answers == Gemini!Route(events, ok, config, path, q)
         IN  /\ path = << >> => answers = {Gemini!RenderHome}
             /\ path = <<"notes">> => answers = {Gemini!handleNotes(events, ok, config, << >>)}
             /\ path = <<"articles">> => answers = {Gemini!handleArticles(events, ok, config)}
             /\ path = <<"replies">> => answers = {Gemini!handleReplies(events, ok, config)}
             /\ path = <<"mentions">> => answers = {Gemini!handleMentions(events, ok, config)}
             /\ path = <<"search">> => answers = {Gemini!handleSearch(events, ok, q)}
             /\ path = <<"diagnostics">> => answers = {Gemini!handleDiagnostics}
<1>1. path = << >> => Gemini!Route(events, ok, config, path, q) = {Gemini!RenderHome}
  BY DEF Gemini!Route, SectionAt
<1>2. path = <<"notes">> =>
        Gemini!Route(events, ok, config, path, q) = {Gemini!handleNotes(events, ok, config, << >>)}
  <2>1. <<"notes">> # << >> /\ <<"notes">>[1] = "notes" /\ Tail(<<"notes">>) = << >>
    OBVIOUS
  <2>. QED BY <2>1 DEF Gemini!Route, SectionAt
<1>3. path = <<"articles">> =>
        Gemini!Route(events, ok, config, path, q) = {Gemini!handleArticles(events, ok, config)}
  BY DEF Gemini!Route, SectionAt
<1>4. path = <<"replies">> =>
        Gemini!Route(events, ok, config, path, q) = {Gemini!handleReplies(events, ok, config)}
  BY DEF Gemini!Route, SectionAt
<1>5. path = <<"mentions">> =>
        Gemini!Route(events, ok, config, path, q) = {Gemini!handleMentions(events, ok, config)}
  BY DEF Gemini!Route, SectionAt
<1>6. path = <<"search">> =>
        Gemini!Route(events, ok, config, path, q) = {Gemini!handleSearch(events, ok, q)}
  BY DEF Gemini!Route, SectionAt
<1>7. path = <<"diagnostics">> =>
        Gemini!Route(events, ok, config, path, q) = {Gemini!handleDiagnostics}
  BY DEF Gemini!Route, SectionAt
<1>. QED BY <1>1, <1>2, <1>3, <1>4, <1>5, <1>6, <1>7

LEMMA GeminiNoteRouted ==
  ASSUME NEW events, NEW ok, NEW config, NEW path, ~SectionAt(config, path), NEW q,
         NEW id, path = <<"note", id>>
  PROVE  Gemini!Route(events, ok, config, path, q) = {Gemini!handleNote(events, ok, config, id)}
<1>1. path # << >> /\ path[1] = "note" /\ path[2] = id /\ Len(path) >= 2
  OBVIOUS
<1>. QED BY <1>1 DEF Gemini!Route, SectionAt

LEMMA GeminiThreadRouted ==
  ASSUME NEW events, NEW ok, NEW config, NEW path, ~SectionAt(config, path), NEW q,
         NEW id, path = <<"thread", id>>
  PROVE  Gemini!Route(events, ok, config, path, q) = {Gemini!handleThread(events, ok, config, id)}
<1>1. path # << >> /\ path[1] = "thread" /\ path[2] = id /\ Len(path) >= 2
  OBVIOUS
<1>. QED BY <1>1 DEF Gemini!Route, SectionAt

LEMMA GeminiProfileRouted ==
  ASSUME NEW events, NEW config, NEW path, ~SectionAt(config, path),
         NEW id, path = <<"profile", id>>
  PROVE  Gemini!Route(events, TRUE, config, path, "") = {Gemini!handleProfile(events, TRUE, id)}
<1>1. path # << >> /\ path[1] = "profile" /\ path[2] = id /\ Len(path) >= 2
  OBVIOUS
<1>. QED BY <1>1 DEF Gemini!Route, SectionAt

LEMMA GeminiMenusResolve ==
  ASSUME NEW events, NEW config, NEW path \in HomeMenus, ~SectionAt(config, path)
  PROVE  \A answer \in Gemini!Route(events, TRUE, config, path, "") : IsAnswer(answer)
<1>1. \A found : IsAnswer(Gemini!List(TRUE, found))
  BY DEF Gemini!List, Gemini!RenderNoteList, Gemini!FormatSuccessResponse, IsAnswer
<1>2. /\ IsAnswer(Gemini!handleArticles(events, TRUE, config))
      /\ IsAnswer(Gemini!handleReplies(events, TRUE, config))
      /\ IsAnswer(Gemini!handleMentions(events, TRUE, config))
      /\ IsAnswer(Gemini!handleNotes(events, TRUE, config, << >>))
  BY <1>1 DEF Gemini!handleArticles, Gemini!handleReplies, Gemini!handleMentions, Gemini!handleNotes
<1>3. IsAnswer(Gemini!RenderHome) /\ IsAnswer(Gemini!handleDiagnostics)
  BY DEF Gemini!RenderHome, Gemini!handleDiagnostics, Gemini!FormatSuccessResponse, IsAnswer
<1>4. IsAnswer(Gemini!handleSearch(events, TRUE, ""))
  BY DEF Gemini!handleSearch, Gemini!FormatResponse, Gemini!Everything, IsAnswer
<1>. DEFINE answers == Gemini!Route(events, TRUE, config, path, "")
<1>5. /\ path = << >> => answers = {Gemini!RenderHome}
      /\ path = <<"notes">> => answers = {Gemini!handleNotes(events, TRUE, config, << >>)}
      /\ path = <<"articles">> => answers = {Gemini!handleArticles(events, TRUE, config)}
      /\ path = <<"replies">> => answers = {Gemini!handleReplies(events, TRUE, config)}
      /\ path = <<"mentions">> => answers = {Gemini!handleMentions(events, TRUE, config)}
      /\ path = <<"search">> => answers = {Gemini!handleSearch(events, TRUE, "")}
      /\ path = <<"diagnostics">> => answers = {Gemini!handleDiagnostics}
  BY GeminiRouted
<1>6. \/ path = << >> \/ path = <<"notes">> \/ path = <<"articles">> \/ path = <<"replies">>
      \/ path = <<"mentions">> \/ path = <<"search">> \/ path = <<"diagnostics">>
  BY DEF HomeMenus
<1>. HIDE DEF answers
<1>. QED BY <1>2, <1>3, <1>4, <1>5, <1>6 DEF answers

LEMMA GeminiNamesResolve ==
  ASSUME NEW ids \in SUBSET DOMAIN Event, NEW config \in Sites, NEW id \in ids
  PROVE  /\ IsAnswer(Gemini!handleNote(EventsOf(ids), TRUE, config, id))
         /\ IsAnswer(Gemini!handleThread(EventsOf(ids), TRUE, config, id))
         /\ Event[id].kind = 0 =>
              IsAnswer(Gemini!handleProfile(EventsOf(ids), TRUE, Event[id].author))
<1>. DEFINE thread == Gemini!GetThreadByEvent(EventsOf(ids), id, config.limits)
<1>1. IsAnswer(Gemini!handleNote(EventsOf(ids), TRUE, config, id))
  <2>. DEFINE found == QueryEvents(EventsOf(ids), [Everything EXCEPT !.ids = {id}])
              twin == Gemini!QueryEvents(EventsOf(ids), [Gemini!Everything EXCEPT !.ids = {id}])
  <2>1. found # << >>
    BY FetchFinds
  <2>2. twin = found
    BY TwinQueries DEF Gemini!Everything, Everything, Gemini!NoTime, NoTime
  <2>3. Gemini!handleNote(EventsOf(ids), TRUE, config, id) = Gemini!NotePage(twin, thread, config)
    BY DEF Gemini!handleNote, Gemini!Everything
  <2>. HIDE DEF found, twin, thread
  <2>4. Gemini!NotePage(found, thread, config) = Gemini!RenderNoteWithThread(found[1], thread, config)
    BY <2>1 DEF Gemini!NotePage
  <2>5. IsAnswer(Gemini!RenderNoteWithThread(found[1], thread, config))
    BY DEF Gemini!RenderNoteWithThread, Gemini!RenderNote, Gemini!FormatSuccessResponse, IsAnswer
  <2>. QED BY <2>2, <2>3, <2>4, <2>5
<1>2. IsAnswer(Gemini!handleThread(EventsOf(ids), TRUE, config, id))
  <2>1. thread # NoThread
    BY ThreadFound, TwinThreads
  <2>2. Gemini!handleThread(EventsOf(ids), TRUE, config, id) = Gemini!ThreadPage(thread, config.limits)
    BY DEF Gemini!handleThread
  <2>. HIDE DEF thread
  <2>3. Gemini!ThreadPage(thread, config.limits) = Gemini!RenderThread(thread, config.limits)
    BY <2>1 DEF Gemini!ThreadPage
  <2>4. IsAnswer(Gemini!RenderThread(thread, config.limits))
    BY DEF Gemini!RenderThread, Gemini!FormatSuccessResponse, IsAnswer
  <2>. QED BY <2>2, <2>3, <2>4
<1>3. ASSUME Event[id].kind = 0
      PROVE  IsAnswer(Gemini!handleProfile(EventsOf(ids), TRUE, Event[id].author))
  <2>. DEFINE found == QueryEvents(EventsOf(ids),
                         [Everything EXCEPT !.kinds = {0}, !.authors = {Event[id].author}, !.limit = 1])
              twin == Gemini!QueryEvents(EventsOf(ids),
                        [Gemini!Everything EXCEPT !.kinds = {0}, !.authors = {Event[id].author},
                                                  !.limit = 1])
  <2>1. found # << >>
    BY <1>3, ProfileFound
  <2>2. twin = found
    BY TwinQueries DEF Gemini!Everything, Everything, Gemini!NoTime, NoTime
  <2>3. Gemini!handleProfile(EventsOf(ids), TRUE, Event[id].author) =
          IF twin = << >> THEN Gemini!FormatResponse(Gemini!NotFound)
          ELSE Gemini!RenderProfile(twin[1])
    BY DEF Gemini!handleProfile, Gemini!Everything
  <2>. HIDE DEF found, twin
  <2>4. IsAnswer(Gemini!RenderProfile(found[1]))
    BY DEF Gemini!RenderProfile, Gemini!FormatSuccessResponse, IsAnswer
  <2>. QED BY <2>1, <2>2, <2>3, <2>4
<1>. QED BY <1>1, <1>2, <1>3

LEMMA GeminiResolves ==
  ASSUME NEW ids \in SUBSET DOMAIN Event, NEW lost \in SUBSET DOMAIN Event, NEW config \in Sites,
         NEW path, GeminiLink(config, ids \cup lost, path),
         ~SectionAt(config, path), NamesNone(lost, path),
         NEW answer \in Gemini!Route(EventsOf(ids), TRUE, config, path, "")
  PROVE  IsAnswer(answer)
<1>. DEFINE answers == Gemini!Route(EventsOf(ids), TRUE, config, path, "")
            known == ids \cup lost
            Noted(id) == path = <<"note", id>>
            Threaded(id) == path = <<"thread", id>>
            Profiled(id) == path = <<"profile", Event[id].author>> /\ Event[id].kind = 0
<1>1. path \in HomeMenus \/ \E id \in known : Noted(id) \/ Threaded(id) \/ Profiled(id)
  BY DEF GeminiLink
<1>2. ASSUME path \in HomeMenus PROVE IsAnswer(answer)
  BY <1>2, GeminiMenusResolve
<1>3. ASSUME NEW id \in known, Noted(id) PROVE IsAnswer(answer)
  <2>1. id \in ids
    BY <1>3, NamesStored
  <2>2. answers = {Gemini!handleNote(EventsOf(ids), TRUE, config, id)}
    BY <1>3, GeminiNoteRouted
  <2>. QED BY <2>1, <2>2, GeminiNamesResolve
<1>4. ASSUME NEW id \in known, Threaded(id) PROVE IsAnswer(answer)
  <2>1. id \in ids
    BY <1>4, NamesStored
  <2>2. answers = {Gemini!handleThread(EventsOf(ids), TRUE, config, id)}
    BY <1>4, GeminiThreadRouted
  <2>. QED BY <2>1, <2>2, GeminiNamesResolve
<1>5. ASSUME NEW id \in known, Profiled(id) PROVE IsAnswer(answer)
  <2>1. id \in ids
    BY <1>5, NamesStored
  <2>. DEFINE author == Event[id].author
  <2>2. path = <<"profile", author>>
    BY <1>5
  <2>. HIDE DEF author
  <2>3. answers = {Gemini!handleProfile(EventsOf(ids), TRUE, author)}
    BY <2>2, GeminiProfileRouted
  <2>. QED BY <1>5, <2>1, <2>3, GeminiNamesResolve DEF author
<1>. HIDE DEF Noted, Threaded, Profiled, known, answers
<1>. QED BY <1>1, <1>2, <1>3, <1>4, <1>5

LEMMA InvResolves ==
  ASSUME Inv
  PROVE  LinksResolve
<1>1. /\ store \in SUBSET DOMAIN Event /\ gone \in SUBSET DOMAIN Event /\ site \in Sites
      /\ Stored = EventsOf(store)
  BY StoredEvents DEF Inv, StoreInv
<1>2. \A path : /\ Overridden(path) <=> SectionAt(site, path)
                /\ ~Vanished(path) => NamesNone(gone, path)
  BY DEF Overridden, SectionAt, Vanished, NamesNone
<1>3. ASSUME page # Nothing, page.protocol = "gopher", NEW link \in page.answer.links,
             ~Vanished(link.to), NEW answer \in Route(EventsOf(store), TRUE, site, link.to)
      PROVE  /\ ~answer.error
             /\ \/ answer.form = link.form
                \/ Overridden(link.to)
                \/ page.answer.thread # NoThread /\ link.to = <<"note", page.answer.thread.focus>>
  <2>1. GopherLink(site, store \cup gone, page.answer.thread, link)
    BY <1>3 DEF Inv, PageInv, GopherPage, Known
  <2>2. NamesNone(gone, link.to) /\ (Overridden(link.to) <=> SectionAt(site, link.to))
    BY <1>2, <1>3
  <2>. DEFINE thread == page.answer.thread
  <2>3. GopherLink(site, store \cup gone, thread, link)
    BY <2>1
  <2>. HIDE DEF thread
  <2>4. \A reply \in Route(EventsOf(store), TRUE, site, link.to) :
          GopherResolved(site, thread, link, reply)
    BY <1>1, <2>2, <2>3, GopherLinksResolve
  <2>. QED BY <1>3, <2>2, <2>4 DEF GopherResolved, thread
<1>4. ASSUME page # Nothing, page.protocol = "gemini", NEW path \in page.answer.links,
             ~Vanished(path), NEW answer \in Gemini!Route(EventsOf(store), TRUE, site, path, "")
      PROVE  IsAnswer(answer)
  <2>1. GeminiLink(site, store \cup gone, path)
    BY <1>4 DEF Inv, PageInv, GeminiPage, Known
  <2>2. CASE SectionAt(site, path)
    <3>1. PICK here \in Gemini!GetSectionsByPath(site.sections, path) :
            answer = Gemini!handleSections(EventsOf(store), TRUE, here, site.sections)
      BY <1>4, <2>2 DEF Gemini!Route, SectionAt
    <3>. QED BY <1>1, <3>1, GeminiSectionLinks DEF IsAnswer
  <2>3. CASE ~SectionAt(site, path)
    BY <1>1, <1>2, <1>4, <2>1, <2>3, GeminiResolves
  <2>. QED BY <2>2, <2>3
<1>. QED BY <1>1, <1>3, <1>4 DEF LinksResolve, IsAnswer

LEMMA BrowsingInv == Spec => []Inv
BY InitInv, NextInv, PTL DEF Spec

\* However the store changes under a reader, every link of a page they were
\* served leads to a page of the form it promises, or what it names was pruned.
THEOREM LinksLeadToPages == Spec => []LinksResolve
BY BrowsingInv, InvResolves, PTL

-------------------------------------------------------------------------------
(* The pages of a listing and of a section.                                  *)

\* A slice lies inside its sequence.
LEMMA SliceBounds ==
  ASSUME NEW n \in Nat \ {0}, NEW size \in Nat \ {0}, NEW length \in Nat
  PROVE  /\ (n - 1) * size \in Nat /\ n * size \in Nat /\ (n - 1) * size + size = n * size
         /\ Smaller(n * size, length) \in Nat /\ Smaller(n * size, length) <= length
<1>1. (n - 1) * size \in Nat /\ n * size \in Nat /\ (n - 1) * size + size = n * size
  OBVIOUS
<1>. QED BY <1>1 DEF Smaller

LEMMA SameSequence ==
  ASSUME NEW S, NEW s \in Seq(S), NEW T, NEW t \in Seq(T), Len(s) = Len(t),
         \A i \in 1 .. Len(s) : s[i] = t[i]
  PROVE  s = t
OBVIOUS

LEMMA SlicesOfIds ==
  ASSUME NEW S, NEW s \in Seq(S), NEW n \in Nat \ {0}, NEW size \in Nat \ {0}
  PROVE  Ids(SubSeq(s, (n - 1) * size + 1, Smaller(n * size, Len(s)))) = Slice(Ids(s), n, size)
<1>. DEFINE first == (n - 1) * size + 1
            last == Smaller(n * size, Len(s))
            t == SubSeq(s, first, last)
            u == SubSeq(Ids(s), first, last)
            names == {e.id : e \in S}
<1>1. first \in Nat \ {0} /\ last \in Nat /\ last <= Len(s)
  BY SliceBounds
<1>2. /\ Ids(s) \in Seq(names) /\ Len(Ids(s)) = Len(s)
      /\ \A i \in 1 .. Len(s) : Ids(s)[i] = s[i].id /\ s[i] \in S /\ Ids(s)[i] \in names
  BY DEF Ids
<1>3. Slice(Ids(s), n, size) = u
  BY <1>2 DEF Slice
<1>. HIDE DEF first, last
<1>4. \A i \in first .. last : s[i] \in S /\ Ids(s)[i] \in names
  BY <1>1, <1>2
<1>. HIDE DEF names
<1>5. /\ t \in Seq(S) /\ Len(t) = (IF first <= last THEN last - first + 1 ELSE 0)
      /\ \A i \in 1 .. last - first + 1 : t[i] = s[first + i - 1]
  BY <1>1, <1>4, SubSeqProperties
<1>6. /\ u \in Seq(names) /\ Len(u) = (IF first <= last THEN last - first + 1 ELSE 0)
      /\ \A i \in 1 .. last - first + 1 : u[i] = Ids(s)[first + i - 1]
  BY <1>1, <1>4, SubSeqProperties
<1>. HIDE DEF t, u
<1>7. \A i \in 1 .. Len(t) : u[i] = t[i].id
  <2>1. TAKE i \in 1 .. Len(t)
  <2>2. i \in 1 .. last - first + 1 /\ first + i - 1 \in 1 .. Len(s)
    BY <1>1, <1>5
  <2>. QED BY <1>2, <1>5, <1>6, <2>2
<1>8. Ids(t) \in Seq(names) /\ Len(Ids(t)) = Len(t) /\ \A i \in 1 .. Len(t) : Ids(t)[i] = t[i].id
  BY <1>5 DEF Ids, names
<1>9. Ids(t) = u
  BY <1>5, <1>6, <1>7, <1>8, SameSequence
<1>. QED BY <1>3, <1>9 DEF t, first, last

\* A page cut from the newest n * size entries is the same page of all of them.
LEMMA PageOfPrefix ==
  ASSUME NEW S, NEW s \in Seq(S), NEW most \in Nat \ {0}, NEW n \in Nat \ {0}, NEW size \in Nat \ {0}
  PROVE  LET part  == Cut(s, Smaller(size * n, most))
             whole == Cut(s, most)
         IN  SubSeq(part, (n - 1) * size + 1, Smaller(n * size, Len(part))) =
               SubSeq(whole, (n - 1) * size + 1, Smaller(n * size, Len(whole)))
<1>. DEFINE end == n * size
            first == (n - 1) * size + 1
            limit == Smaller(size * n, most)
            part == Cut(s, limit)
            whole == Cut(s, most)
            t == SubSeq(part, first, Smaller(end, Len(part)))
            u == SubSeq(whole, first, Smaller(end, Len(whole)))
<1>1. end \in Nat \ {0} /\ size * n = end /\ first \in Nat \ {0} /\ Len(s) \in Nat
  OBVIOUS
<1>. HIDE DEF end, first
<1>2. limit \in Nat /\ limit = Smaller(end, most)
  BY <1>1 DEF Smaller
<1>. HIDE DEF limit
<1>3. /\ part \in Seq(S) /\ Len(part) = Smaller(Len(s), limit)
      /\ \A i \in 1 .. Len(part) : part[i] = s[i]
  BY <1>2, CutListed
<1>4. /\ whole \in Seq(S) /\ Len(whole) = Smaller(Len(s), most)
      /\ \A i \in 1 .. Len(whole) : whole[i] = s[i]
  BY CutListed
<1>. HIDE DEF part, whole
<1>. DEFINE last == Smaller(end, Len(whole))
<1>5. /\ last \in Nat /\ last = Smaller(end, Len(part)) /\ last <= Len(part) /\ last <= Len(whole)
  BY <1>1, <1>2, <1>3, <1>4 DEF Smaller
<1>. HIDE DEF last
<1>6. \A i \in first .. last : part[i] \in S /\ whole[i] \in S /\ part[i] = whole[i]
  BY <1>1, <1>3, <1>4, <1>5
<1>7. t = SubSeq(part, first, last) /\ u = SubSeq(whole, first, last)
  BY <1>5 DEF last
<1>. HIDE DEF t, u
<1>8. /\ t \in Seq(S) /\ Len(t) = (IF first <= last THEN last - first + 1 ELSE 0)
      /\ \A i \in 1 .. last - first + 1 : t[i] = part[first + i - 1]
  BY <1>1, <1>5, <1>6, <1>7, SubSeqProperties
<1>9. /\ u \in Seq(S) /\ Len(u) = (IF first <= last THEN last - first + 1 ELSE 0)
      /\ \A i \in 1 .. last - first + 1 : u[i] = whole[first + i - 1]
  BY <1>1, <1>5, <1>6, <1>7, SubSeqProperties
<1>10. \A i \in 1 .. Len(t) : t[i] = u[i]
  <2>1. TAKE i \in 1 .. Len(t)
  <2>2. i \in 1 .. last - first + 1 /\ first + i - 1 \in first .. last
    BY <1>1, <1>5, <1>8
  <2>. QED BY <1>6, <1>8, <1>9, <2>2
<1>11. t = u
  BY <1>8, <1>9, <1>10, SameSequence
<1>. QED BY <1>11 DEF t, u, part, whole, limit, first, end

\* There is a next page exactly when entries are left.
LEMMA PagesLeft ==
  ASSUME NEW n \in Nat \ {0}, NEW size \in Nat \ {0}, NEW length \in Nat
  PROVE  n < (length + size - 1) \div size <=> n * size < length
<1>. DEFINE pages == (length + size - 1) \div size
<1>1. pages \in Int /\ pages * size <= length + size - 1 /\ length + size - 1 < pages * size + size
  OBVIOUS
<1>. HIDE DEF pages
<1>2. ASSUME n < pages PROVE n * size < length
  <2>1. n * size + size <= pages * size
    BY <1>1, <1>2
  <2>. QED BY <1>1, <2>1
<1>3. ASSUME ~(n < pages) PROVE ~(n * size < length)
  <2>1. pages * size <= n * size
    BY <1>1, <1>3
  <2>. QED BY <1>1, <2>1
<1>. QED BY <1>2, <1>3 DEF pages

LEMMA ListingIsListed ==
  ASSUME NEW ids \in SUBSET DOMAIN Event, NEW config, NEW base \in Bases
  PROVE  ListingIn(EventsOf(ids), config, base) \in Seq(EventsOf(ids))
<1>1. base \in {"notes", "articles", "replies", "mentions"}
  BY DEF Bases
<1>2. GopherListLimit \in Nat /\ EventsOf(ids) \in SUBSET Everyone
  BY BrowsingAssumption, EventsOfFacts
<1>3. /\ GetNotes(EventsOf(ids), config.behavior, GopherListLimit) \in Seq(EventsOf(ids))
      /\ GetArticles(EventsOf(ids), config.behavior, GopherListLimit) \in Seq(EventsOf(ids))
      /\ GetReplies(EventsOf(ids), config.behavior, GopherListLimit) \in Seq(EventsOf(ids))
      /\ GetMentions(EventsOf(ids), config.behavior, GopherListLimit) \in Seq(EventsOf(ids))
  BY <1>2, ListingsListed
<1>. QED BY <1>1, <1>3 DEF ListingIn

\* A page of a listing shows its slice, and links to the pages next to it.
LEMMA ListingPage ==
  ASSUME NEW ids \in SUBSET DOMAIN Event, NEW base \in Bases,
         NEW found \in Seq(EventsOf(ids)), NEW n \in 1..MaxPage
  PROVE  LET answer == Listing(TRUE, base, found, n)
             linked(m) == AddDirectory(<<base, "page", ToString(m)>>)
         IN  /\ answer.shows = Slice(Ids(found), n, itemsPerPage)
             /\ linked(n + 1) \in answer.links <=> n * itemsPerPage < Len(found)
             /\ n > 1 => linked(n - 1) \in answer.links
<1>. DEFINE shown == paginateItems(found, n)
            Linked(m) == AddDirectory(<<base, "page", ToString(m)>>)
            answer == Listing(TRUE, base, found, n)
            pages == (Len(found) + itemsPerPage - 1) \div itemsPerPage
            back == IF n > 1 THEN {Linked(n - 1)} ELSE {}
            ahead == IF n < pages THEN {Linked(n + 1)} ELSE {}
<1>1. /\ answer.shows = Ids(shown)
      /\ answer.links = NoteLinks(shown) \cup {Home} \cup back \cup ahead
  BY DEF Listing, Gophermap, addPaginationLinks
<1>2. itemsPerPage \in Nat \ {0} /\ n \in Nat \ {0} /\ MaxPage \in Nat
  BY BrowsingAssumption
<1>3. Ids(shown) = Slice(Ids(found), n, itemsPerPage)
  BY <1>2, SlicesOfIds DEF paginateItems
<1>4. n < pages <=> n * itemsPerPage < Len(found)
  BY <1>2, PagesLeft
<1>5. Linked(n + 1) \notin NoteLinks(shown) /\ Linked(n + 1) # Home
  <2>1. Linked(n + 1).form = "menu" /\ \A link \in NoteLinks(shown) : link.form = "text"
    BY DEF AddDirectory, AddTextFile, NoteLinks
  <2>2. Linked(n + 1).to = <<base, "page", ToString(n + 1)>> /\ Home.to = << >>
    BY DEF AddDirectory, Home
  <2>3. <<base, "page", ToString(n + 1)>> # << >>
    OBVIOUS
  <2>. HIDE DEF Linked
  <2>. QED BY <2>1, <2>2, <2>3
<1>6. Linked(n - 1) # Linked(n + 1)
  <2>1. ToString(n - 1) # ToString(n + 1)
    <3>1. n - 1 \in 0..(MaxPage + 1) /\ n + 1 \in 0..(MaxPage + 1) /\ n - 1 # n + 1
      BY <1>2
    <3>. QED BY <3>1, NotationAssumption
  <2>2. \A x, y : <<base, "page", x>> = <<base, "page", y>> => x = y
    OBVIOUS
  <2>3. \A m : Linked(m).to = <<base, "page", ToString(m)>>
    BY DEF AddDirectory
  <2>. HIDE DEF Linked
  <2>. QED BY <2>1, <2>2, <2>3
<1>. HIDE DEF Linked, shown, answer, pages
<1>7. Linked(n + 1) \in answer.links <=> n < pages
  BY <1>1, <1>5, <1>6
<1>8. n > 1 => Linked(n - 1) \in answer.links
  BY <1>1
<1>. QED BY <1>1, <1>3, <1>4, <1>7, <1>8 DEF Linked, answer

LEMMA ListingIsOf == \A base \in Bases : ListingOf(base) = ListingIn(Stored, site, base)
BY DEF ListingOf, ListingIn

\* The n-th selector of a base asks for the n-th page.
LEMMA PageSelected ==
  ASSUME NEW base \in Bases, NEW n \in 1..MaxPage
  PROVE  /\ ForListing(PageSelector(base, n), base)
         /\ parsePageFromParts(Tail(PageSelector(base, n))).page = n
<1>1. CASE n = 1
  <2>1. PageSelector(base, n) = <<base>> /\ Tail(<<base>>) = << >>
    BY <1>1 DEF PageSelector
  <2>2. parsePageFromParts(<< >>).page = 1
    BY PageAsked
  <2>. QED BY <1>1, <2>1, <2>2, ListingSelectors
<1>2. CASE n # 1
  <2>. DEFINE x == ToString(n)
  <2>1. PageSelector(base, n) = <<base, "page", x>>
    BY <1>2 DEF PageSelector
  <2>2. parsePageFromParts(<<"page", x>>).page = n
    BY PageAsked
  <2>. HIDE DEF x
  <2>3. Tail(<<base, "page", x>>) = <<"page", x>>
    OBVIOUS
  <2>. QED BY <2>1, <2>2, <2>3, ListingSelectors
<1>. QED BY <1>1, <1>2

\* A section that filters nothing out and shows the newest first.
LEMMA SectionPage ==
  ASSUME NEW ids \in SUBSET DOMAIN Event, NEW s, s.limit \in Nat \ {0}, s.isReply = {},
         s.sortOrder = "desc", NEW n \in Nat \ {0}
  PROVE  Ids(GetPage(EventsOf(ids), s, n).events) =
           Slice(Ids(QueryEvents(EventsOf(ids), [buildFilter(s, 1) EXCEPT !.limit = 0])), n, s.limit)
<1>. DEFINE filter == buildFilter(s, n)
            all == [buildFilter(s, 1) EXCEPT !.limit = 0]
            found == QueryEvents(EventsOf(ids), filter)
            offset == (n - 1) * s.limit
            matching == {e \in EventsOf(ids) : Matches(e, all)}
            listed == NewestFirst(matching)
<1>1. /\ filter.limit = s.limit * n /\ all.limit = 0
      /\ filter.ids = all.ids /\ filter.kinds = all.kinds /\ filter.authors = all.authors
      /\ filter.eTags = all.eTags /\ filter.pTags = all.pTags
      /\ filter.since = all.since /\ filter.until = all.until
  BY DEF buildFilter, Everything
<1>2. GetPage(EventsOf(ids), s, n).events =
        SubSeq(found, offset + 1, Smaller(offset + s.limit, Len(found)))
  <2>1. (IF n < 1 THEN 1 ELSE n) = n
    OBVIOUS
  <2>2. \A t : sortEvents(applyIsReplyFilter(t, s.isReply), s) = t
    BY DEF sortEvents, applyIsReplyFilter
  <2>. DEFINE sorted == sortEvents(applyIsReplyFilter(found, s.isReply), s)
  <2>3. GetPage(EventsOf(ids), s, n).events =
          SubSeq(sorted, offset + 1, Smaller(offset + s.limit, Len(sorted)))
    BY <2>1, Zenon DEF GetPage
  <2>4. sorted = found
    BY <2>2
  <2>. HIDE DEF sorted, found, offset
  <2>. QED BY <2>3, <2>4
<1>3. offset + s.limit = n * s.limit
  BY SliceBounds
<1>. HIDE DEF filter, all
<1>4. \A e : Matches(e, filter) <=> Matches(e, all)
  BY <1>1 DEF Matches
<1>5. s.limit * n \in Nat \ {0}
  OBVIOUS
<1>6. found = Cut(listed, Smaller(s.limit * n, EngineLimit))
  <2>1. {e \in EventsOf(ids) : Matches(e, filter)} = matching
    BY <1>4
  <2>2. ~(filter.limit < 1)
    BY <1>1, <1>5
  <2>. QED BY <1>1, <2>1, <2>2 DEF QueryEvents
<1>7. QueryEvents(EventsOf(ids), all) = Cut(listed, EngineLimit)
  BY <1>1 DEF QueryEvents
<1>8. listed \in Seq(EventsOf(ids)) /\ EngineLimit \in Nat \ {0}
  <2>1. matching \in SUBSET Everyone /\ matching \in SUBSET EventsOf(ids)
    BY EventsOfFacts
  <2>. HIDE DEF matching
  <2>2. listed \in Seq(matching)
    BY <2>1, NewestListed
  <2>. QED BY <2>1, <2>2, BrowsingAssumption
<1>. DEFINE whole == Cut(listed, EngineLimit)
<1>. HIDE DEF found, listed, offset
<1>9. GetPage(EventsOf(ids), s, n).events =
        SubSeq(whole, (n - 1) * s.limit + 1, Smaller(n * s.limit, Len(whole)))
  <2>. DEFINE size == s.limit
              part == Cut(listed, Smaller(size * n, EngineLimit))
  <2>1. SubSeq(part, (n - 1) * size + 1, Smaller(n * size, Len(part))) =
          SubSeq(whole, (n - 1) * size + 1, Smaller(n * size, Len(whole)))
    <3>1. size \in Nat \ {0}
      OBVIOUS
    <3>. HIDE DEF size
    <3>. QED BY <1>8, <3>1, PageOfPrefix
  <2>2. found = part /\ offset = (n - 1) * size /\ offset + s.limit = n * size
    BY <1>3, <1>6 DEF offset
  <2>. HIDE DEF part, whole
  <2>. QED BY <1>2, <2>1, <2>2
<1>10. whole \in Seq(EventsOf(ids))
  BY <1>8, CutListed
<1>. HIDE DEF whole
<1>11. Ids(GetPage(EventsOf(ids), s, n).events) = Slice(Ids(whole), n, s.limit)
  BY <1>9, <1>10, SlicesOfIds
<1>. QED BY <1>7, <1>11 DEF whole, all

LEMMA InvPartition ==
  ASSUME Inv
  PROVE  PagesPartitionListing
<1>1. store \in SUBSET DOMAIN Event /\ site \in Sites /\ Stored = EventsOf(store)
  BY StoredEvents DEF Inv, StoreInv
<1>2. ASSUME NEW n \in 1..MaxPage, NEW base \in Bases, ~Overridden(PageSelector(base, n)),
             NEW answer \in Route(Stored, TRUE, site, PageSelector(base, n))
      PROVE  answer = Listing(TRUE, base, ListingOf(base), n)
  <2>. DEFINE selector == PageSelector(base, n)
              found == ListingIn(Stored, site, base)
  <2>1. ForListing(selector, base) /\ parsePageFromParts(Tail(selector)).page = n
    BY PageSelected
  <2>2. ~SectionAt(site, selector)
    BY <1>2 DEF Overridden, SectionAt
  <2>. HIDE DEF selector, found
  <2>3. \A ok : Route(Stored, ok, site, selector) = {Listing(ok, base, found, n)}
    BY <2>1, <2>2, ListingsRouted DEF found
  <2>4. answer \in Route(Stored, TRUE, site, selector)
    BY <1>2 DEF selector
  <2>5. ListingOf(base) = found
    BY ListingIsOf DEF found
  <2>. QED BY <2>3, <2>4, <2>5
<1>3. \A base \in Bases : ListingOf(base) \in Seq(EventsOf(store))
  BY <1>1, ListingIsOf, ListingIsListed
<1>4. ASSUME NEW n \in 1..MaxPage, NEW s \in site.sections, s.isReply = {}, s.sortOrder = "desc"
      PROVE  Ids(GetPage(Stored, s, n).events) =
               Slice(Ids(QueryEvents(Stored, [buildFilter(s, 1) EXCEPT !.limit = 0])), n, s.limit)
  <2>1. s.limit \in Nat \ {0}
    BY <1>1, BrowsingAssumption
  <2>2. n \in Nat \ {0}
    BY BrowsingAssumption
  <2>. QED BY <1>1, <1>4, <2>1, <2>2, SectionPage
<1>5. ASSUME NEW n \in 1..MaxPage, NEW base \in Bases, ~Overridden(PageSelector(base, n)),
             NEW answer \in Route(Stored, TRUE, site, PageSelector(base, n))
      PROVE  LET linked(m) == AddDirectory(<<base, "page", ToString(m)>>)
             IN  /\ answer.shows = Slice(Ids(ListingOf(base)), n, itemsPerPage)
                 /\ linked(n + 1) \in answer.links <=> n * itemsPerPage < Len(ListingOf(base))
                 /\ n > 1 => linked(n - 1) \in answer.links
  BY <1>1, <1>2, <1>3, <1>5, ListingPage
<1>. QED BY <1>4, <1>5 DEF PagesPartitionListing

\* For every store, page size and limit: the n-th page of a listing shows its n-th slice
\* and links the next page exactly when entries are left; the n-th page GetPage makes of
\* a section that filters nothing out afterwards, newest first, is the n-th slice of its
\* query.  No page links the second page of such a section (sections.go:209-212).
THEOREM PagesPartition == Spec => []PagesPartitionListing
BY BrowsingInv, InvPartition, PTL
===============================================================================
