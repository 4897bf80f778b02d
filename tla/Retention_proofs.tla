---------------------------- MODULE Retention_proofs ----------------------------
(***************************************************************************)
(* For any rules, events, caps, limits and interleaving of the worker, the  *)
(* re-evaluation and the pruner: the rule that decides is the one that the  *)
(* priorities alone determine, only events that some verdict left           *)
(* unprotected are deleted, and the caps never delete too much.             *)
(***************************************************************************)
EXTENDS RetentionManager, Sums_proofs, SequenceTheorems

-------------------------------------------------------------------------------
(* The sorted rules. *)

N == Len(Rules)

LEMMA RulesTyped ==
  /\ DOMAIN Rules = 1 .. N /\ N \in Nat
  /\ \A i \in 1 .. N: Rules[i].priority \in Int
BY RulesAssumption DEF N

LEMMA PositionsAreFinite == IsFiniteSet(1 .. N) /\ Cardinality(1 .. N) = N
BY RulesTyped, FS_Interval

LEMMA BeforeIsOrder ==
  /\ \A i \in 1 .. N: ~Before(i, i)
  /\ \A i, j, k \in 1 .. N: Before(i, j) /\ Before(j, k) => Before(i, k)
  /\ \A i, j \in 1 .. N: i # j => Before(i, j) \/ Before(j, i)
BY RulesTyped DEF Before

Earlier(i) == {j \in 1 .. N: Before(j, i)}

LEMMA PlaceType ==
  ASSUME NEW i \in 1 .. N
  PROVE  /\ Place(i) \in 1 .. N
         /\ Place(i) = 1 + Cardinality(Earlier(i))
         /\ IsFiniteSet(Earlier(i)) /\ Cardinality(Earlier(i)) \in Nat
<1>1. IsFiniteSet(1 .. N) /\ Cardinality(1 .. N) = N
  BY PositionsAreFinite
<1>2. Earlier(i) \in SUBSET (1 .. N) /\ i \notin Earlier(i)
  BY BeforeIsOrder DEF Earlier
<1>3. /\ IsFiniteSet(Earlier(i)) /\ Cardinality(Earlier(i)) <= N
      /\ Cardinality(Earlier(i)) = N => Earlier(i) = 1 .. N
  BY <1>1, <1>2, FS_Subset
<1>4. Cardinality(Earlier(i)) \in Nat
  BY <1>3, FS_CardinalityType
<1>5. Place(i) = 1 + Cardinality(Earlier(i))
  BY RulesTyped DEF Place, Earlier
<1>. QED BY <1>2, <1>3, <1>4, <1>5, RulesTyped

LEMMA PlaceFollowsOrder ==
  ASSUME NEW i \in 1 .. N, NEW j \in 1 .. N, Before(i, j)
  PROVE  Place(i) < Place(j)
<1>1. Earlier(i) \in SUBSET Earlier(j) /\ i \in Earlier(j) /\ i \notin Earlier(i)
  BY BeforeIsOrder DEF Earlier
<1>2. /\ IsFiniteSet(Earlier(j)) /\ Cardinality(Earlier(j)) \in Nat
      /\ IsFiniteSet(Earlier(i)) /\ Cardinality(Earlier(i)) \in Nat
      /\ Place(i) = 1 + Cardinality(Earlier(i)) /\ Place(j) = 1 + Cardinality(Earlier(j))
  BY PlaceType
<1>3. Cardinality(Earlier(i)) <= Cardinality(Earlier(j))
      /\ (Cardinality(Earlier(j)) = Cardinality(Earlier(i)) => Earlier(j) = Earlier(i))
  BY <1>1, <1>2, FS_Subset
<1>. QED BY <1>1, <1>2, <1>3

\* Every position of the sorted rules is taken, by one rule.
LEMMA RuleAtEvery ==
  ASSUME NEW n \in 1 .. N
  PROVE  RuleAt(n) \in 1 .. N /\ Place(RuleAt(n)) = n
<1>. DEFINE f == [i \in 1 .. N |-> Place(i)]
<1>1. f \in Injection(1 .. N, 1 .. N)
  <2>1. f \in [1 .. N -> 1 .. N]
    BY PlaceType
  <2>2. ASSUME NEW i \in 1 .. N, NEW j \in 1 .. N, f[i] = f[j] PROVE i = j
    <3>1. Place(i) = Place(j) /\ Place(i) \in Int /\ Place(j) \in Int
      BY <2>2, PlaceType
    <3>2. ~Before(i, j) /\ ~Before(j, i)
      BY <3>1, PlaceFollowsOrder
    <3>. QED BY <3>2, BeforeIsOrder
  <2>. QED BY <2>1, <2>2 DEF Injection, IsInjective
<1>. HIDE DEF f
<1>2. IsFiniteSet(1 .. N) /\ Cardinality(1 .. N) = N
  BY PositionsAreFinite
<1>3. f \in Surjection(1 .. N, 1 .. N)
  BY <1>1, <1>2, FS_Injection
<1>4. PICK i \in 1 .. N: f[i] = n
  BY <1>3 DEF Surjection
<1>5. \E k \in DOMAIN Rules: Place(k) = n
  BY <1>4, RulesTyped DEF f
<1>. QED BY <1>5, RulesTyped DEF RuleAt

LEMMA PlaceOfRule ==
  ASSUME NEW i \in 1 .. N
  PROVE  Place(i) \in 1 .. N /\ RuleAt(Place(i)) = i
<1>. DEFINE k == RuleAt(Place(i))
<1>1. Place(i) \in 1 .. N
  BY PlaceType
<1>2. k \in 1 .. N /\ Place(k) = Place(i)
  BY <1>1, RuleAtEvery
<1>. HIDE DEF k
<1>3. ~Before(i, k) /\ ~Before(k, i)
  BY <1>1, <1>2, PlaceFollowsOrder
<1>4. k = i
  BY <1>2, <1>3, BeforeIsOrder
<1>. QED BY <1>1, <1>4 DEF k

\* The first rule that matches is the best one.
LEMMA FirstMatchIsBest ==
  ASSUME NEW matches, 
         NEW hits, hits = {n \in DOMAIN SortedRules: matches[SortedRules[n].conditions]},
         hits # {}
  PROVE  /\ Min(hits) \in 1 .. N /\ RuleAt(Min(hits)) \in 1 .. N
         /\ SortedRules[Min(hits)] = Rules[RuleAt(Min(hits))]
         /\ matches[Rules[RuleAt(Min(hits))].conditions]
         /\ \A j \in 1 .. N: matches[Rules[j].conditions] =>
              j = RuleAt(Min(hits)) \/ Before(RuleAt(Min(hits)), j)
<1>. DEFINE n == Min(hits)
            i == RuleAt(n)
<1>1. /\ DOMAIN SortedRules = 1 .. N
      /\ \A m \in 1 .. N: SortedRules[m] = Rules[RuleAt(m)]
  BY RulesTyped DEF SortedRules
<1>2. hits \subseteq Nat
  BY <1>1, RulesTyped
<1>3. n \in hits /\ \A m \in hits: n <= m
  BY <1>2, LeastExists
<1>4. n \in 1 .. N /\ i \in 1 .. N /\ Place(i) = n
  BY <1>1, <1>3, RuleAtEvery
<1>5. matches[Rules[i].conditions]
  BY <1>1, <1>3, <1>4
<1>6. ASSUME NEW j \in 1 .. N, matches[Rules[j].conditions], j # i
      PROVE  Before(i, j)
  <2>1. Place(j) \in 1 .. N /\ RuleAt(Place(j)) = j
    BY PlaceOfRule
  <2>2. Place(j) \in hits
    BY <1>1, <1>6, <2>1
  <2>3. n <= Place(j)
    BY <1>3, <2>2
  <2>4. ~Before(j, i)
    BY <1>4, <2>1, <2>3, PlaceFollowsOrder, RulesTyped
  <2>. QED BY <1>4, <1>6, <2>4, BeforeIsOrder
<1>. QED BY <1>1, <1>4, <1>5, <1>6

LEMMA NothingMatches ==
  ASSUME NEW matches
  PROVE  {n \in DOMAIN SortedRules: matches[SortedRules[n].conditions]} = {}
           <=> {i \in DOMAIN Rules: matches[Rules[i].conditions]} = {}
<1>1. /\ DOMAIN SortedRules = 1 .. N
      /\ \A m \in 1 .. N: SortedRules[m] = Rules[RuleAt(m)] /\ RuleAt(m) \in 1 .. N
  BY RulesTyped, RuleAtEvery DEF SortedRules
<1>2. \A i \in 1 .. N: Place(i) \in 1 .. N /\ RuleAt(Place(i)) = i
  BY PlaceOfRule
<1>. DEFINE hits == {n \in DOMAIN SortedRules: matches[SortedRules[n].conditions]}
            matching == {i \in DOMAIN Rules: matches[Rules[i].conditions]}
<1>3. ASSUME NEW n \in hits PROVE RuleAt(n) \in matching
  BY <1>1, RulesTyped
<1>4. ASSUME NEW i \in matching PROVE Place(i) \in hits
  <2>1. i \in 1 .. N /\ matches[Rules[i].conditions]
    BY RulesTyped
  <2>2. SortedRules[Place(i)] = Rules[i]
    BY <1>1, <1>2, <2>1
  <2>. QED BY <1>1, <1>2, <2>1, <2>2
<1>. QED BY <1>3, <1>4

\* Whatever an evaluation reads of an event.
LEMMA DecisionIsBest == ASSUME NEW x PROVE DecidedByHighestPriority(x)
<1>. DEFINE matches == EvaluateConditions(x)
            hits == {n \in DOMAIN SortedRules: matches[SortedRules[n].conditions]}
            matching == {i \in DOMAIN Rules: matches[Rules[i].conditions]}
            best == {i \in matching: \A j \in matching:
                       /\ Rules[i].priority >= Rules[j].priority
                       /\ Rules[i].priority = Rules[j].priority => i <= j}
            result == EvaluateEvent(x)
            i == RuleAt(Min(hits))
            rule == Rules[i]
<1>1. hits = {} <=> matching = {}
  BY NothingMatches
<1>2. CASE hits = {}
  <2>1. result = [failed |-> FALSE, decision |-> DefaultDelete(x)]
    BY <1>2 DEF EvaluateEvent
  <2>2. result.decision.rule = "default_delete" /\ ~result.failed
    BY <2>1 DEF DefaultDelete
  <2>. QED BY <1>1, <1>2, <2>2 DEF DecidedByHighestPriority
<1>3. CASE hits # {}
  <2>1. /\ i \in 1 .. N /\ SortedRules[Min(hits)] = rule /\ matches[rule.conditions]
        /\ \A j \in 1 .. N: matches[Rules[j].conditions] => j = i \/ Before(i, j)
    <3>. HIDE DEF matches
    <3>. QED BY <1>3, FirstMatchIsBest
  <2>2. result = [failed   |-> rule.action.type = "unparsable",
                  decision |-> IF rule.action.type = "unparsable" THEN DefaultDelete(x)
                               ELSE ApplyAction(x, rule)]
    BY <1>3, <2>1 DEF EvaluateEvent
  <2>3. IF rule.action.type = "unparsable" THEN result.failed
        ELSE ~result.failed /\ result.decision.rule = rule.name
    <3>1. ApplyAction(x, rule).rule = rule.name
      BY DEF ApplyAction
    <3>. HIDE DEF rule, result
    <3>. QED BY <2>2, <3>1
  <2>4. i \in best
    <3>. HIDE DEF matches, i
    <3>. QED BY <2>1, RulesTyped DEF Before
  <2>. QED BY <1>1, <1>3, <2>3, <2>4 DEF DecidedByHighestPriority
<1>. QED BY <1>2, <1>3

\* Whatever is known of the events at any moment, the rule that decides is the one
\* that the priorities and the order of the configuration determine
\* (NewEngine and EvaluateEvent, engine.go:22-79).
THEOREM PrioritiesDecide == Spec => []HighestPriorityDecides
<1>1. HighestPriorityDecides
  BY DecisionIsBest DEF HighestPriorityDecides
<1>. QED BY <1>1, PTL

-------------------------------------------------------------------------------
(* Deletions.  The pruner works from lists and counts that were true when it *)
(* made them; the invariant says what is left of that truth later on.        *)

RowsAreJudged == DOMAIN metadata = Events /\ Unprotected \subseteq unsafe

ListIsJudged ==
  pruner.pc \in {"expired", "caps"} => pruner.todo \in Seq(unsafe) /\ pruner.todo # << >>

StoreIsFinite == store \in SUBSET Events /\ IsFiniteSet(store)

\* From the count to the last deletion nothing but the pruner deletes.
ExcessIsThere ==
  /\ pruner.pc = "list" => /\ pruner.excess \in Nat
                           /\ Cardinality(store) >= MaxTotalEvents + pruner.excess
  /\ pruner.pc = "caps" => Cardinality(store) >= MaxTotalEvents + Len(pruner.todo)

PruneInv == RowsAreJudged /\ ListIsJudged /\ StoreIsFinite /\ ExcessIsThere

LEMMA StoreCount == StoreIsFinite => Cardinality(store) \in Nat
BY FS_CardinalityType DEF StoreIsFinite

Selections(E, limit) == {SubSeq(s, 1, Min({limit, Len(s)})) : s \in SetToSeqs(E)}

\* What a query returns: some of the events it selects, at most as many as its LIMIT.
LEMMA ListIsSelection ==
  ASSUME NEW E, IsFiniteSet(E), NEW limit \in Nat, NEW list \in Selections(E, limit)
  PROVE  list \in Seq(E) /\ Len(list) <= limit
<1>1. PICK s \in SetToSeqs(E): list = SubSeq(s, 1, Min({limit, Len(s)}))
  BY DEF Selections
<1>2. s \in Seq(E) /\ Len(s) \in Nat
  <2>1. Cardinality(E) \in Nat
    BY FS_CardinalityType
  <2>2. s \in [1 .. Cardinality(E) -> E]
    BY DEF SetToSeqs
  <2>. QED BY <2>1, <2>2
<1>. DEFINE n == Min({limit, Len(s)})
<1>3. n \in Nat /\ n <= limit /\ n <= Len(s)
  BY <1>2, SmallerOf
<1>. HIDE DEF n
<1>4. SubSeq(s, 1, n) \in Seq(E) /\ Len(SubSeq(s, 1, n)) = n
  BY <1>2, <1>3
<1>. QED BY <1>1, <1>3, <1>4 DEF n

LEMMA ExpiredAreListed ==
  ASSUME RowsAreJudged, NEW list \in GetExpiredEvents
  PROVE  list \in Seq(unsafe)
<1>1. Expired \in SUBSET Events /\ Expired \subseteq unsafe
  BY DEF Expired, Unprotected, Rows, RowsAreJudged
<1>2. IsFiniteSet(Expired)
  BY <1>1, RetentionAssumption, FS_Subset
<1>3. list \in Selections(Expired, ExpiredLimit)
  BY DEF GetExpiredEvents, Listings, Selections
<1>4. list \in Seq(Expired)
  BY <1>2, <1>3, ListIsSelection, RetentionAssumption
<1>. QED BY <1>1, <1>4

LEMMA LowestScoresAreListed ==
  ASSUME RowsAreJudged, NEW limit \in Nat, NEW list \in GetEventsByScore(limit)
  PROVE  list \in Seq(unsafe) /\ Len(list) <= limit
<1>1. Unprotected \in SUBSET Events /\ Unprotected \subseteq unsafe
  BY DEF Unprotected, Rows, RowsAreJudged
<1>2. IsFiniteSet(Unprotected)
  BY <1>1, RetentionAssumption, FS_Subset
<1>3. list \in Selections(Unprotected, limit)
  BY DEF GetEventsByScore, Listings, Selections
<1>4. list \in Seq(Unprotected) /\ Len(list) <= limit
  BY <1>2, <1>3, ListIsSelection
<1>. QED BY <1>1, <1>4

LEMMA WriteJudges ==
  ASSUME RowsAreJudged, NEW e, NEW row, StoreRetentionMetadata(e, row)
  PROVE  RowsAreJudged' /\ unsafe \subseteq unsafe'
<1>1. CASE UNCHANGED <<metadata, unsafe>>
  BY <1>1 DEF RowsAreJudged, Unprotected, Rows
<1>2. CASE /\ metadata' = [metadata EXCEPT ![e] = row]
           /\ unsafe' = IF row.protected THEN unsafe ELSE unsafe \union {e}
  <2>1. unsafe \subseteq unsafe' /\ DOMAIN metadata' = Events
    BY <1>2 DEF RowsAreJudged
  <2>2. ASSUME NEW x \in Events, metadata'[x].exists, ~metadata'[x].protected
        PROVE  x \in unsafe'
    <3>1. CASE x = e
      <4>1. metadata'[x] = row
        BY <1>2, <3>1 DEF RowsAreJudged
      <4>. QED BY <1>2, <2>2, <3>1, <4>1
    <3>2. CASE x # e
      <4>1. metadata'[x] = metadata[x]
        BY <1>2, <3>2 DEF RowsAreJudged
      <4>2. x \in Unprotected
        BY <2>2, <4>1 DEF Unprotected, Rows
      <4>. QED BY <2>1, <4>2 DEF RowsAreJudged
    <3>. QED BY <3>1, <3>2
  <2>3. Unprotected' \subseteq unsafe'
    BY <2>2 DEF Unprotected, Rows
  <2>. QED BY <2>1, <2>3 DEF RowsAreJudged
<1>. QED BY <1>1, <1>2 DEF StoreRetentionMetadata

LEMMA RowsStayJudged ==
  ASSUME RowsAreJudged, [Next]_vars
  PROVE  RowsAreJudged' /\ unsafe \subseteq unsafe'
<1>1. CASE UNCHANGED <<metadata, unsafe>>
  BY <1>1 DEF RowsAreJudged, Unprotected, Rows
<1>2. CASE IngestWrites
  BY <1>2, WriteJudges DEF IngestWrites
<1>3. CASE ReEvalWrites
  BY <1>3, WriteJudges DEF ReEvalWrites
<1>. QED
  BY <1>1, <1>2, <1>3
     DEF Next, vars, Tick, ProfileChanges, StoreEvent, Ingest, IngestEvaluates,
         IngestSkipsEvaluation, ReEvalTick, ReEvalBatch, ReEvalEvaluates, ReEvalExits,
         PruneTick, PrunePass, DeleteExpired, CountEvents, ListByScore, DeleteByScore,
         PrunerExits, StopCalled, StopReturns

\* The deletion of one event, whether it is there or not and whether it works or not.
LEMMA DeletionCount ==
  ASSUME StoreIsFinite, NEW e, DeleteEvent(e)
  PROVE  /\ StoreIsFinite' /\ Cardinality(store)' \in Nat
         /\ Cardinality(store)' >= Cardinality(store) - 1
         /\ store \ store' \subseteq {e}
<1>1. /\ IsFiniteSet(store \ {e})
      /\ Cardinality(store \ {e}) \in {Cardinality(store), Cardinality(store) - 1}
  BY FS_RemoveElement DEF StoreIsFinite
<1>2. CASE store' = store \ {e}
  <2>1. StoreIsFinite'
    BY <1>1, <1>2 DEF StoreIsFinite
  <2>. QED BY <1>1, <1>2, <2>1, StoreCount, FS_CardinalityType DEF StoreIsFinite
<1>3. CASE UNCHANGED store
  BY <1>3, StoreCount DEF StoreIsFinite
<1>. QED BY <1>2, <1>3 DEF DeleteEvent

LEMMA WorkingOnSeq ==
  ASSUME NEW S, NEW list \in Seq(S), NEW pc, NEW rest
  PROVE  \/ list = << >> /\ Working(pc, list, rest) = rest
         \/ /\ list # << >> /\ Len(list) > 0
            /\ Working(pc, list, rest) = [pc |-> pc, todo |-> list]
BY DEF Working

LEMMA PruneInvStep == PruneInv /\ [Next]_vars => PruneInv'
<1>. SUFFICES ASSUME PruneInv, [Next]_vars PROVE PruneInv'
  OBVIOUS
<1>. USE DEF PruneInv
<1>1. RowsAreJudged' /\ unsafe \subseteq unsafe'
  BY RowsStayJudged
<1>2. /\ RowsAreJudged /\ StoreIsFinite /\ Cardinality(store) \in Nat
      /\ MaxTotalEvents \in Nat
  BY StoreCount, RetentionAssumption
<1>3. ASSUME UNCHANGED <<store, pruner>> PROVE PruneInv'
  BY <1>1, <1>3 DEF ListIsJudged, StoreIsFinite, ExcessIsThere
<1>4. ASSUME NEW e \in Events, StoreEvent(e) PROVE PruneInv'
  <2>1. store' = store \union {e} /\ UNCHANGED pruner /\ e \notin store
    BY <1>4 DEF StoreEvent
  <2>2. IsFiniteSet(store') /\ Cardinality(store)' = Cardinality(store) + 1
    BY <1>2, <2>1, FS_AddElement DEF StoreIsFinite
  <2>. QED BY <1>1, <1>2, <2>1, <2>2 DEF ListIsJudged, StoreIsFinite, ExcessIsThere
<1>5. ASSUME PruneTick PROVE PruneInv'
  <2>1. UNCHANGED <<store, unsafe>>
    BY <1>5 DEF PruneTick
  <2>2. AfterExpired.pc \in {"idle", "count"}
    BY DEF AfterExpired, IdlePruner
  <2>3. \/ pruner' = AfterExpired
        \/ \E list \in Seq(unsafe) \ {<< >>}: pruner' = [pc |-> "expired", todo |-> list]
    BY <1>2, <1>5, ExpiredAreListed, WorkingOnSeq DEF PruneTick
  <2>. QED BY <1>1, <1>2, <2>1, <2>2, <2>3 DEF ListIsJudged, StoreIsFinite, ExcessIsThere
<1>6. ASSUME DeleteExpired PROVE PruneInv'
  <2>1. StoreIsFinite' /\ UNCHANGED unsafe /\ pruner.todo \in Seq(unsafe) /\ pruner.todo # << >>
    BY <1>2, <1>6, DeletionCount DEF DeleteExpired, ListIsJudged
  <2>2. AfterExpired.pc \in {"idle", "count"}
    BY DEF AfterExpired, IdlePruner
  <2>3. PICK rest \in Seq(unsafe): rest = Tail(pruner.todo)
    <3>1. Tail(pruner.todo) \in Seq(unsafe)
      BY <2>1
    <3>. QED BY <3>1
  <2>4. \/ pruner' = AfterExpired
        \/ \E list \in Seq(unsafe) \ {<< >>}: pruner' = [pc |-> "expired", todo |-> list]
    <3>1. pruner' = Working("expired", rest, AfterExpired)
      BY <1>6, <2>3 DEF DeleteExpired
    <3>. QED BY <3>1 DEF Working
  <2>. QED BY <1>1, <2>1, <2>2, <2>4 DEF ListIsJudged, ExcessIsThere
<1>7. ASSUME CountEvents PROVE PruneInv'
  <2>1. UNCHANGED <<store, unsafe>>
    BY <1>7 DEF CountEvents
  <2>. DEFINE n == Cardinality(store) - MaxTotalEvents
  <2>2. EventsToDelete = IF n > 0 THEN n ELSE 0
    BY <1>2, AtLeastNothing DEF EventsToDelete
  <2>3. \/ pruner' = IdlePruner
        \/ /\ n \in Nat /\ pruner'.pc = "list" /\ pruner'.excess = n
    BY <1>2, <1>7, <2>2 DEF CountEvents
  <2>. QED BY <1>1, <1>2, <2>1, <2>3
           DEF ListIsJudged, StoreIsFinite, ExcessIsThere, IdlePruner
<1>8. ASSUME ListByScore PROVE PruneInv'
  <2>1. /\ UNCHANGED <<store, unsafe>> /\ pruner.excess \in Nat
        /\ Cardinality(store) >= MaxTotalEvents + pruner.excess
    BY <1>8 DEF ListByScore, ExcessIsThere
  <2>2. \/ pruner' = IdlePruner
        \/ \E list \in Seq(unsafe) \ {<< >>}: /\ Len(list) <= pruner.excess
                                            /\ pruner' = [pc |-> "caps", todo |-> list]
    BY <1>2, <1>8, <2>1, LowestScoresAreListed, WorkingOnSeq DEF ListByScore
  <2>. QED BY <1>1, <1>2, <2>1, <2>2
           DEF ListIsJudged, StoreIsFinite, ExcessIsThere, IdlePruner
<1>9. ASSUME DeleteByScore PROVE PruneInv'
  <2>1. /\ StoreIsFinite' /\ Cardinality(store)' \in Nat /\ UNCHANGED unsafe
        /\ Cardinality(store)' >= Cardinality(store) - 1
        /\ pruner.todo \in Seq(unsafe) /\ pruner.todo # << >>
        /\ Cardinality(store) >= MaxTotalEvents + Len(pruner.todo)
    BY <1>2, <1>9, DeletionCount DEF DeleteByScore, ListIsJudged, ExcessIsThere
  <2>2. PICK rest \in Seq(unsafe): rest = Tail(pruner.todo)
    <3>1. Tail(pruner.todo) \in Seq(unsafe)
      BY <2>1
    <3>. QED BY <3>1
  <2>3. Len(rest) \in Nat /\ Cardinality(store)' >= MaxTotalEvents + Len(rest)
    <3>1. Len(pruner.todo) \in Nat /\ Len(rest) \in Nat /\ Len(rest) = Len(pruner.todo) - 1
      BY <2>1, <2>2
    <3>. QED BY <1>2, <2>1, <3>1
  <2>4. \/ pruner' = IdlePruner
        \/ rest # << >> /\ pruner' = [pc |-> "caps", todo |-> rest]
    <3>1. pruner' = Working("caps", rest, IdlePruner)
      BY <1>9, <2>2 DEF DeleteByScore
    <3>. QED BY <2>2, <3>1, WorkingOnSeq
  <2>5. UNCHANGED unsafe /\ rest \in Seq(unsafe)
    BY <2>1, <2>2
  <2>. QED BY <1>1, <2>1, <2>3, <2>4, <2>5 DEF ListIsJudged, ExcessIsThere, IdlePruner
<1>10. ASSUME PrunerExits PROVE PruneInv'
  <2>1. UNCHANGED <<store, unsafe>> /\ pruner' = [pruner EXCEPT !.pc = "exited"]
        /\ pruner'.pc # "expired" /\ pruner'.pc # "caps" /\ pruner'.pc # "list"
    BY <1>10 DEF PrunerExits
  <2>. QED BY <1>1, <2>1 DEF ListIsJudged, StoreIsFinite, ExcessIsThere
<1>. QED
  BY <1>3, <1>4, <1>5, <1>6, <1>7, <1>8, <1>9, <1>10
     DEF Next, vars, Tick, ProfileChanges, Ingest, IngestEvaluates, IngestWrites,
         IngestSkipsEvaluation, ReEvalTick, ReEvalBatch, ReEvalEvaluates, ReEvalWrites,
         ReEvalExits, PrunePass, StopCalled, StopReturns

LEMMA PruneInvInit == Init => PruneInv
<1>. SUFFICES ASSUME Init PROVE PruneInv
  OBVIOUS
<1>1. RowsAreJudged /\ ListIsJudged
  BY DEF Init, RowsAreJudged, Unprotected, Rows, NoRow, ListIsJudged, IdlePruner
<1>2. StoreIsFinite /\ ExcessIsThere
  BY FS_EmptySet DEF Init, StoreIsFinite, ExcessIsThere, IdlePruner
<1>. QED BY <1>1, <1>2 DEF PruneInv

LEMMA PruneInvHolds == Spec => []PruneInv
<1>. QED BY PruneInvInit, PruneInvStep, PTL DEF Spec

\* An event that no evaluation ever left unprotected is never deleted, whichever
\* verdicts, ticks and deletions come in between: neither as expired nor by the caps
\* (pruneExpiredEvents and enforceGlobalCaps, retention.go:262-327).
THEOREM JudgedBeforeDeleted == Spec => UnjudgedAndProtectedStay
<1>1. PruneInv /\ [Next]_vars => [store \ store' \subseteq unsafe]_vars
  <2>. SUFFICES ASSUME PruneInv, [Next]_vars PROVE store \ store' \subseteq unsafe
    OBVIOUS
  <2>. USE DEF PruneInv
  <2>1. ASSUME store \subseteq store' PROVE store \ store' \subseteq unsafe
    BY <2>1
  <2>2. CASE DeleteExpired \/ DeleteByScore
    <3>1. /\ pruner.todo \in Seq(unsafe) /\ pruner.todo # << >>
          /\ store \ store' \subseteq {Head(pruner.todo)}
      BY <2>2, DeletionCount DEF DeleteExpired, DeleteByScore, ListIsJudged
    <3>. QED BY <3>1
  <2>. QED
    BY <2>1, <2>2
       DEF Next, vars, Tick, ProfileChanges, StoreEvent, Ingest, IngestEvaluates, IngestWrites,
           IngestSkipsEvaluation, ReEvalTick, ReEvalBatch, ReEvalEvaluates, ReEvalWrites,
           ReEvalExits, PruneTick, PrunePass, CountEvents, ListByScore, PrunerExits,
           StopCalled, StopReturns
<1>. QED BY <1>1, PruneInvHolds, PTL DEF Spec, UnjudgedAndProtectedStay

\* However many events come in and verdicts change between the count, the list and
\* the deletions, enforcing the caps never takes the store below the cap
\* (enforceGlobalCaps, retention.go:286-327).
THEOREM CapsAreLowerBound == Spec => CapsDeleteNoMoreThanExcess
<1>1. PruneInv /\ DeleteByScore => Cardinality(store') >= MaxTotalEvents
  <2>. SUFFICES ASSUME PruneInv, DeleteByScore PROVE Cardinality(store') >= MaxTotalEvents
    OBVIOUS
  <2>1. /\ Cardinality(store)' \in Nat /\ Cardinality(store)' >= Cardinality(store) - 1
        /\ pruner.todo \in Seq(unsafe) /\ pruner.todo # << >>
        /\ Cardinality(store) >= MaxTotalEvents + Len(pruner.todo)
    BY DeletionCount DEF PruneInv, DeleteByScore, ListIsJudged, ExcessIsThere
  <2>2. Len(pruner.todo) \in Nat /\ Len(pruner.todo) >= 1
    BY <2>1
  <2>3. Cardinality(store) \in Nat /\ MaxTotalEvents \in Nat
    BY StoreCount, RetentionAssumption DEF PruneInv
  <2>. QED BY <2>1, <2>2, <2>3
<1>. QED BY <1>1, PruneInvHolds, PTL DEF Spec, CapsDeleteNoMoreThanExcess
-------------------------------------------------------------------------------
(* Types.  A goroutine in the middle of a list has an event in hand, and     *)
(* what it writes is a row of the table.                                     *)

\* No part of a score is negative.
LEMMA ScoreType ==
  ASSUME NEW x, NEW priority \in Nat,
         x.created \in Int, x.distance \in Int, x.now \in Int,
         x.replies \in Nat, x.reactions \in Nat, x.zaps \in Nat
  PROVE  CalculateScore(x, priority) \in Nat
<1>. DEFINE age == (x.now - x.created) \div TicksPerMonth
            interactions == x.replies + x.reactions \div 10 + x.zaps \div 1000
            social == AtLeastZero(10 - x.distance)
            recent == AtLeastZero(10 - age)
            active == Min({10, interactions})
            own == IF x.pubkey = OwnerPubkey THEN 1000 ELSE 0
<1>1. \A n \in Int: AtLeastZero(n) \in Nat
  BY AtLeastNothing DEF AtLeastZero
<1>2. age \in Int /\ interactions \in Nat
  BY TicksAssumption
<1>3. recent \in Nat
  <2>. HIDE DEF age
  <2>. QED BY <1>1, <1>2
<1>4. social \in Nat
  BY <1>1
<1>5. active \in Nat
  <2>. HIDE DEF interactions
  <2>. QED BY <1>2, SmallerOf
<1>6. CalculateScore(x, priority)
        = priority * 100 + own + (IF x.distance >= 0 THEN 100 * social ELSE 0)
            + 10 * recent + 5 * active
  BY DEF CalculateScore
<1>7. own \in Nat
  OBVIOUS
<1>. HIDE DEF own, social, recent, active
<1>. QED BY <1>3, <1>4, <1>5, <1>6, <1>7

Decisions ==
  [rule: {Rules[i].name : i \in DOMAIN Rules} \union {"default_delete"},
   until: Int, protected: BOOLEAN, score: Nat]

LEMMA DecisionType ==
  ASSUME NEW x, ~EvaluateEvent(x).failed,
         x.created \in Int, x.distance \in Int, x.now \in Int,
         x.replies \in Nat, x.reactions \in Nat, x.zaps \in Nat
  PROVE  EvaluateEvent(x).decision \in Decisions
<1>. DEFINE matches == EvaluateConditions(x)
            hits == {n \in DOMAIN SortedRules: matches[SortedRules[n].conditions]}
            i == RuleAt(Min(hits))
            rule == Rules[i]
<1>1. DefaultDelete(x) \in Decisions
  BY DEF DefaultDelete, Decisions
<1>2. CASE hits = {}
  <2>1. EvaluateEvent(x) = [failed |-> FALSE, decision |-> DefaultDelete(x)]
    BY <1>2 DEF EvaluateEvent
  <2>. QED BY <1>1, <2>1
<1>3. CASE hits # {}
  <2>1. i \in 1 .. N /\ SortedRules[Min(hits)] = rule
    <3>. HIDE DEF matches
    <3>. QED BY <1>3, FirstMatchIsBest
  <2>2. EvaluateEvent(x)
          = [failed   |-> rule.action.type = "unparsable",
             decision |-> IF rule.action.type = "unparsable" THEN DefaultDelete(x)
                          ELSE ApplyAction(x, rule)]
    BY <1>3, <2>1 DEF EvaluateEvent
  <2>3. i \in DOMAIN Rules
    BY <2>1, RulesTyped
  <2>. HIDE DEF i
  <2>4. /\ rule.name \in {Rules[k].name : k \in DOMAIN Rules}
        /\ rule.priority \in Nat /\ rule.action.type \in Actions /\ rule.action.ticks \in Int
    BY <2>3, RulesAssumption, ActionsAssumption
  <2>. HIDE DEF rule
  <2>5. rule.action.type # "unparsable" /\ EvaluateEvent(x).decision = ApplyAction(x, rule)
    <3>. DEFINE failed == rule.action.type = "unparsable"
                decision == IF failed THEN DefaultDelete(x) ELSE ApplyAction(x, rule)
    <3>1. EvaluateEvent(x).failed = failed /\ EvaluateEvent(x).decision = decision
      BY <2>2
    <3>. QED BY <3>1
  <2>6. RetainUntil(rule.action, x) \in Int
    BY <2>4, <2>5 DEF RetainUntil, Actions, Forever
  <2>7. CalculateScore(x, rule.priority) \in Nat
    BY <2>4, ScoreType
  <2>8. ApplyAction(x, rule) \in Decisions
    BY <2>4, <2>6, <2>7 DEF ApplyAction, Decisions
  <2>. QED BY <2>5, <2>8
<1>. QED BY <1>2, <1>3

Verdicts == VerdictRows \union {NoRow}

LEMMA VerdictType ==
  ASSUME now \in 0 .. MaxNow, NEW e, profile[e] \in Profiles
  PROVE  Verdict(e) \in Verdicts
<1>. DEFINE x == Context(e)
            p == profile[e]
            result == EvaluateEvent(x)
<1>1. /\ DOMAIN p = {"kind", "pubkey", "created", "size", "tags", "distance", "mutual",
                     "replies", "reactions", "zaps", "now"}
      /\ p.created \in Int /\ p.distance \in Int
      /\ p.replies \in Nat /\ p.reactions \in Nat /\ p.zaps \in Nat
  BY ProfilesAssumption
<1>2. /\ x.created = p.created /\ x.distance = p.distance /\ x.now = now
      /\ x.replies = p.replies /\ x.reactions = p.reactions /\ x.zaps = p.zaps
  <2>1. x = [p EXCEPT !.now = now]
    BY DEF Context
  <2>. HIDE DEF x, p
  <2>. QED BY <1>1, <2>1
<1>3. now \in Int
  BY RetentionAssumption
<1>4. Verdict(e) = IF result.failed THEN NoRow ELSE RowOf(result.decision, now)
  BY DEF Verdict
<1>. HIDE DEF x, p
<1>5. ~result.failed => result.decision \in Decisions
  BY <1>1, <1>2, <1>3, DecisionType
<1>. HIDE DEF result
<1>6. ASSUME NEW d \in Decisions PROVE RowOf(d, now) \in VerdictRows
  BY <1>6 DEF RowOf, VerdictRows, Decisions
<1>. QED BY <1>4, <1>5, <1>6 DEF Verdicts

EvaluatorType ==
  [pc: {"idle", "query", "evaluate", "write", "never", "exited"},
   event: Events \union {NoEvent}, todo: Seq(Events), verdict: Verdicts]

PrunerTyped ==
  /\ pruner.pc \in {"idle", "expired", "count", "list", "caps", "exited"}
  /\ pruner.pc = "idle" => pruner = IdlePruner
  /\ pruner.pc \in {"expired", "caps"} \/ pruner.todo = << >>

WorldTyped ==
  /\ now \in 0 .. MaxNow
  /\ DOMAIN profile = Events
  /\ \A e \in Events: profile[e] \in ProfilesOf[e]
  /\ unsafe \subseteq Events
  /\ metadata \in [Events -> Verdicts]
  /\ stop \in {"running", "waiting", "returned"}

\* The lists are worked through from the head, and a worker that evaluates or
\* writes has an event.
WorkersTyped ==
  /\ ingest \in EvaluatorType /\ reEval \in EvaluatorType
  /\ ingest.pc \in {"evaluate", "write"} => ingest.event \in Events
  /\ reEval.pc \in {"query", "write"} => reEval.todo # << >>
  /\ reEval.pc = "write" => reEval.event \in Events

TypeInv == PruneInv /\ PrunerTyped /\ WorldTyped /\ WorkersTyped

LEMMA StaleAreListed ==
  ASSUME WorldTyped, Stale # {}, NEW list \in GetEventsForReEvaluation
  PROVE  list \in Seq(Events) /\ list # << >>
<1>1. Stale \in SUBSET Events
  BY DEF Stale, Rows
<1>2. IsFiniteSet(Stale) /\ Cardinality(Stale) \in Nat /\ Cardinality(Stale) # 0
  BY <1>1, RetentionAssumption, FS_Subset, FS_CardinalityType, FS_EmptySet
<1>3. PICK s \in SetToSeqs(Stale): list = SubSeq(s, 1, Min({BatchSize, Len(s)}))
  BY DEF GetEventsForReEvaluation, Listings
<1>4. s \in [1 .. Cardinality(Stale) -> Stale]
  BY DEF SetToSeqs
<1>5. s \in Seq(Stale) /\ Len(s) = Cardinality(Stale)
  BY <1>2, <1>4
<1>. DEFINE n == Min({BatchSize, Len(s)})
<1>6. n \in Nat /\ n > 0 /\ n <= Len(s)
  BY <1>2, <1>5, SmallerOf, RetentionAssumption
<1>. HIDE DEF n
<1>7. SubSeq(s, 1, n) \in Seq(Stale) /\ Len(SubSeq(s, 1, n)) = n
  BY <1>5, <1>6
<1>8. SubSeq(s, 1, n) \in Seq(Events) /\ SubSeq(s, 1, n) # << >>
  BY <1>1, <1>6, <1>7
<1>9. list = SubSeq(s, 1, n)
  BY <1>3 DEF n
<1>. QED BY <1>8, <1>9

LEMMA WriteTyped ==
  ASSUME WorldTyped, NEW e \in Events, NEW row \in Verdicts, StoreRetentionMetadata(e, row)
  PROVE  metadata' \in [Events -> Verdicts] /\ unsafe' \subseteq Events
BY DEF StoreRetentionMetadata, WorldTyped

LEMMA EventJudged ==
  ASSUME WorldTyped, NEW e \in Events
  PROVE  Verdict(e) \in Verdicts
<1>1. profile[e] \in Profiles /\ now \in 0 .. MaxNow
  BY RetentionAssumption DEF WorldTyped
<1>. QED BY <1>1, VerdictType

LEMMA WorldTypedStep ==
  ASSUME WorldTyped, WorkersTyped, [Next]_vars
  PROVE  WorldTyped'
<1>1. CASE Tick
  BY <1>1, RetentionAssumption DEF Tick, WorldTyped
<1>2. ASSUME NEW e \in Events, ProfileChanges(e) PROVE WorldTyped'
  BY <1>2 DEF ProfileChanges, WorldTyped
<1>3. CASE IngestWrites
  <2>1. ingest.event \in Events /\ ingest.verdict \in Verdicts
    BY <1>3 DEF IngestWrites, WorkersTyped, EvaluatorType
  <2>2. metadata' \in [Events -> Verdicts] /\ unsafe' \subseteq Events
    BY <1>3, <2>1, WriteTyped DEF IngestWrites
  <2>. QED BY <1>3, <2>2 DEF IngestWrites, WorldTyped
<1>4. CASE ReEvalWrites
  <2>1. reEval.event \in Events /\ reEval.verdict \in Verdicts
    BY <1>4 DEF ReEvalWrites, WorkersTyped, EvaluatorType
  <2>2. metadata' \in [Events -> Verdicts] /\ unsafe' \subseteq Events
    BY <1>4, <2>1, WriteTyped DEF ReEvalWrites
  <2>. QED BY <1>4, <2>2 DEF ReEvalWrites, WorldTyped
<1>5. CASE StopCalled \/ StopReturns
  BY <1>5 DEF StopCalled, StopReturns, WorldTyped
<1>6. CASE UNCHANGED <<now, profile, metadata, stop, unsafe>>
  BY <1>6 DEF WorldTyped
<1>. QED
  BY <1>1, <1>2, <1>3, <1>4, <1>5, <1>6
     DEF Next, vars, StoreEvent, Ingest, IngestEvaluates, IngestSkipsEvaluation, ReEvalTick,
         ReEvalBatch, ReEvalEvaluates, ReEvalExits, PruneTick, PrunePass, DeleteExpired,
         CountEvents, ListByScore, DeleteByScore, PrunerExits

\* The worker puts the first event of its list aside.
LEMMA NextOfTyped ==
  ASSUME NEW worker \in EvaluatorType, worker.todo # << >>
  PROVE  /\ NextOf(worker) \in EvaluatorType /\ NextOf(worker).pc \in {"query", "idle"}
         /\ NextOf(worker).pc = "query" => NextOf(worker).todo # << >>
<1>. DEFINE rest == Tail(worker.todo)
            pc == IF Len(worker.todo) > 1 THEN "query" ELSE "idle"
<1>1. worker.todo \in Seq(Events)
  BY DEF EvaluatorType
<1>2. rest \in Seq(Events) /\ (Len(worker.todo) > 1 => rest # << >>)
  <2>. DEFINE todo == worker.todo
  <2>1. todo \in Seq(Events) /\ todo # << >>
    BY <1>1
  <2>. HIDE DEF todo
  <2>2. Tail(todo) \in Seq(Events) /\ Len(Tail(todo)) = Len(todo) - 1
    BY <2>1
  <2>3. \A list \in Seq(Events): list = << >> => Len(list) = 0
    OBVIOUS
  <2>4. Len(todo) > 1 => Len(Tail(todo)) # 0
    BY <2>1, <2>2
  <2>. QED BY <2>2, <2>3, <2>4 DEF todo
<1>3. NextOf(worker) = [worker EXCEPT !.pc = pc, !.todo = rest, !.event = NoEvent,
                                      !.verdict = NoRow]
  BY DEF NextOf
<1>. HIDE DEF rest
<1>. QED BY <1>2, <1>3 DEF EvaluatorType, Verdicts

LEMMA WorkersTypedStep ==
  ASSUME WorldTyped, WorkersTyped, [Next]_vars
  PROVE  WorkersTyped'
<1>. USE DEF WorkersTyped
<1>1. Evaluator \in EvaluatorType /\ Evaluator.pc = "idle"
  BY DEF Evaluator, EvaluatorType, Verdicts
<1>2. ASSUME NEW e \in Events, StoreEvent(e) PROVE WorkersTyped'
  BY <1>2 DEF StoreEvent, EvaluatorType
<1>3. CASE IngestEvaluates
  <2>1. Verdict(ingest.event) \in Verdicts
    BY <1>3, EventJudged DEF IngestEvaluates
  <2>. QED BY <1>3, <2>1 DEF IngestEvaluates, EvaluatorType
<1>4. CASE IngestWrites \/ IngestSkipsEvaluation
  BY <1>1, <1>4 DEF IngestWrites, IngestSkipsEvaluation
<1>5. CASE ReEvalTick
  <2>1. PICK list \in GetEventsForReEvaluation: reEval' = [reEval EXCEPT !.pc = "query", !.todo = list]
    BY <1>5 DEF ReEvalTick
  <2>2. list \in Seq(Events) /\ list # << >>
    BY <1>5, StaleAreListed DEF ReEvalTick
  <2>. QED BY <1>5, <2>1, <2>2 DEF ReEvalTick, EvaluatorType
<1>6. CASE ReEvalEvaluates
  <2>1. reEval.todo \in Seq(Events) /\ reEval.todo # << >> /\ UNCHANGED ingest
    BY <1>6 DEF ReEvalEvaluates, EvaluatorType
  <2>2. PICK e \in Events: e = Head(reEval.todo)
    BY <2>1
  <2>3. Verdict(e) \in Verdicts
    BY EventJudged
  <2>4. \/ reEval' = [reEval EXCEPT !.pc = "write", !.event = e, !.verdict = Verdict(e)]
        \/ reEval' = NextOf(reEval)
    BY <1>6, <2>2 DEF ReEvalEvaluates
  <2>5. CASE reEval' = [reEval EXCEPT !.pc = "write", !.event = e, !.verdict = Verdict(e)]
    BY <2>1, <2>3, <2>5 DEF EvaluatorType
  <2>6. CASE reEval' = NextOf(reEval)
    BY <2>1, <2>6, NextOfTyped
  <2>. QED BY <2>4, <2>5, <2>6
<1>7. CASE ReEvalWrites
  BY <1>7, NextOfTyped DEF ReEvalWrites
<1>8. CASE ReEvalExits
  BY <1>8 DEF ReEvalExits, EvaluatorType
<1>9. CASE UNCHANGED <<ingest, reEval>>
  BY <1>9 DEF EvaluatorType
<1>. QED
  BY <1>2, <1>3, <1>4, <1>5, <1>6, <1>7, <1>8, <1>9
     DEF Next, vars, Tick, ProfileChanges, Ingest, ReEvalBatch, PruneTick, PrunePass,
         DeleteExpired, CountEvents, ListByScore, DeleteByScore, PrunerExits, StopCalled,
         StopReturns

LEMMA PrunerTypedStep ==
  ASSUME PrunerTyped, [Next]_vars
  PROVE  PrunerTyped'
<1>. USE DEF PrunerTyped
<1>. DEFINE Deleting(pc) == \E list: pruner' = [pc |-> pc, todo |-> list]
<1>1. ASSUME NEW pc, NEW list, NEW rest, pruner' = Working(pc, list, rest)
      PROVE  pruner' = rest \/ Deleting(pc)
  BY <1>1 DEF Working
<1>2. ASSUME pruner' = AfterExpired \/ pruner' = IdlePruner \/ Deleting("expired") \/ Deleting("caps")
      PROVE  PrunerTyped'
  BY <1>2 DEF AfterExpired, IdlePruner
<1>3. CASE PruneTick \/ DeleteExpired
  BY <1>1, <1>2, <1>3 DEF PruneTick, DeleteExpired
<1>4. CASE CountEvents
  BY <1>2, <1>4 DEF CountEvents
<1>5. CASE ListByScore \/ DeleteByScore
  BY <1>1, <1>2, <1>5 DEF ListByScore, DeleteByScore
<1>6. CASE PrunerExits
  <2>1. pruner' = [IdlePruner EXCEPT !.pc = "exited"]
    BY <1>6 DEF PrunerExits
  <2>. QED BY <2>1 DEF IdlePruner
<1>7. CASE UNCHANGED pruner
  BY <1>7
<1>. QED
  BY <1>3, <1>4, <1>5, <1>6, <1>7
     DEF Next, vars, Tick, ProfileChanges, StoreEvent, Ingest, IngestEvaluates, IngestWrites,
         IngestSkipsEvaluation, ReEvalTick, ReEvalBatch, ReEvalEvaluates, ReEvalWrites,
         ReEvalExits, PrunePass, StopCalled, StopReturns

LEMMA TypeInvInit == Init => TypeInv
<1>. SUFFICES ASSUME Init PROVE TypeInv
  OBVIOUS
<1>1. PrunerTyped
  BY DEF Init, PrunerTyped, IdlePruner
<1>2. WorldTyped
  BY RetentionAssumption DEF Init, WorldTyped, Verdicts
<1>3. WorkersTyped
  <2>1. Evaluator \in EvaluatorType /\ Evaluator.pc = "idle"
    BY DEF Evaluator, EvaluatorType, Verdicts
  <2>2. [Evaluator EXCEPT !.pc = "never"] \in EvaluatorType
    BY <2>1 DEF EvaluatorType
  <2>3. [Evaluator EXCEPT !.pc = "never"].pc = "never"
    BY DEF Evaluator
  <2>4. ingest = Evaluator /\ reEval \in {Evaluator, [Evaluator EXCEPT !.pc = "never"]}
    BY DEF Init
  <2>. QED BY <2>1, <2>2, <2>3, <2>4 DEF WorkersTyped
<1>. QED BY <1>1, <1>2, <1>3, PruneInvInit DEF TypeInv

\* The verdict and score of every row, the hands of the three goroutines and the
\* tables keep their types, whatever fails and in any interleaving; no goroutine
\* takes the head of an empty list (EvaluateEvent, engine.go:50-79; retention.go).
THEOREM RetentionTypes == Spec => []TypeOK
<1>1. TypeInv /\ [Next]_vars => TypeInv'
  BY PruneInvStep, WorldTypedStep, WorkersTypedStep, PrunerTypedStep DEF TypeInv
<1>2. TypeInv => TypeOK
  <2>. SUFFICES ASSUME TypeInv PROVE TypeOK
    OBVIOUS
  <2>1. now \in 0 .. MaxNow /\ (\A e \in Events: profile[e] \in ProfilesOf[e])
    BY DEF TypeInv, WorldTyped
  <2>2. /\ store \subseteq Events /\ unsafe \subseteq Events
        /\ metadata \in [Events -> VerdictRows \union {NoRow}]
        /\ stop \in {"running", "waiting", "returned"}
    BY DEF TypeInv, WorldTyped, PruneInv, StoreIsFinite, Verdicts
  <2>3. ingest \in EvaluatorType /\ reEval \in EvaluatorType
    BY DEF TypeInv, WorkersTyped
  <2>4. \A w \in EvaluatorType:
          /\ w.pc \in {"idle", "query", "evaluate", "write", "never", "exited"}
          /\ w.event \in Events \union {NoEvent} /\ w.todo \in Seq(Events)
          /\ w.verdict \in VerdictRows \union {NoRow}
    BY DEF EvaluatorType, Verdicts
  <2>5. pruner.pc \in {"idle", "expired", "count", "list", "caps", "exited"}
    BY DEF TypeInv, PrunerTyped
  <2>6. pruner.todo \in Seq(Events)
    <3>1. CASE pruner.todo \in Seq(unsafe)
      BY <2>2, <3>1
    <3>2. CASE pruner.todo = << >>
      BY <3>2
    <3>. QED BY <3>1, <3>2 DEF TypeInv, PrunerTyped, PruneInv, ListIsJudged
  <2>. QED BY <2>1, <2>2, <2>3, <2>4, <2>5, <2>6 DEF TypeOK
<1>. QED BY <1>1, <1>2, TypeInvInit, PTL DEF Spec
===============================================================================
