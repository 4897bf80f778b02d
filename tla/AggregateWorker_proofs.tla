------------------------- MODULE AggregateWorker_proofs -------------------------
(***************************************************************************)
(* For any number of targets, reactions, updates and failing writes: what   *)
(* the aggregates table shows was accepted, each update once, and the       *)
(* totals are the sums of the counts.                                      *)
(***************************************************************************)
EXTENDS MCAggregateWorker, Sums_proofs

-------------------------------------------------------------------------------
(* Maps and rows keep their types. *)

Maps(S, V) == UNION {[D -> V] : D \in SUBSET S}

LEMMA EmptyMapType == ASSUME NEW S, NEW V PROVE EmptyMap \in Maps(S, V) /\ DOMAIN EmptyMap = {}
<1>1. EmptyMap \in [{} -> V] /\ DOMAIN EmptyMap = {}
  BY DEF EmptyMap
<1>. QED BY <1>1 DEF Maps

LEMMA PutType ==
  ASSUME NEW S, NEW V, NEW f \in Maps(S, V), NEW k \in S, NEW v \in V
  PROVE  Put(f, k, v) \in Maps(S, V) /\ DOMAIN Put(f, k, v) = DOMAIN f \union {k}
<1>1. PICK D \in SUBSET S: f \in [D -> V]
  BY DEF Maps
<1>2. Put(f, k, v) \in [D \union {k} -> V]
  BY <1>1 DEF Put
<1>. QED BY <1>1, <1>2 DEF Maps

\* A set of times that is finite has a latest one.
LEMMA LatestExists ==
  ASSUME NEW S \in SUBSET Nat, IsFiniteSet(S), S # {}
  PROVE  \E t \in S: \A s \in S: s <= t
<1>. DEFINE T == {U \in SUBSET S: U # {} /\ ~\E t \in U: \A s \in U: s <= t}
<1>. SUFFICES ASSUME T # {} PROVE FALSE
  OBVIOUS
<1>1. PICK U \in T: \A V \in SUBSET U: V # U => V \notin T
  <2>1. T \in SUBSET (SUBSET S)
    OBVIOUS
  <2>. HIDE DEF T
  <2>. QED BY <2>1, SmallestSubset
<1>2. PICK p \in U: TRUE
  OBVIOUS
<1>3. CASE U = {p}
  BY <1>1, <1>2, <1>3
<1>4. CASE U # {p}
  <2>1. U \ {p} \in SUBSET U /\ U \ {p} # U /\ U \ {p} # {}
    BY <1>2, <1>4
  <2>2. PICK t \in U \ {p}: \A s \in U \ {p}: s <= t
    BY <1>1, <2>1
  <2>3. \E m \in {p, t}: \A s \in U: s <= m
    <3>1. p \in Nat /\ t \in Nat /\ U \subseteq Nat
      BY <1>2
    <3>. QED BY <2>2, <3>1
  <2>. QED BY <1>1, <1>2, <2>2, <2>3
<1>. QED BY <1>3, <1>4

LEMMA NoRowType == NoRow \in Rows
BY DEF NoRow, Rows

\* One column of a row at a time.
LEMMA RowFlags ==
  ASSUME NEW row \in Rows
  PROVE  [row EXCEPT !.exists = TRUE] \in Rows /\ [row EXCEPT !.json = TRUE] \in Rows
BY DEF Rows

LEMMA RowNumbers ==
  ASSUME NEW row \in Rows, NEW n \in Nat
  PROVE  /\ [row EXCEPT !.replies = n] \in Rows
         /\ [row EXCEPT !.total = n] \in Rows
         /\ [row EXCEPT !.zaps = n] \in Rows
         /\ [row EXCEPT !.last = n] \in Rows
BY DEF Rows

LEMMA RowCounts ==
  ASSUME NEW row \in Rows, NEW f \in [Reactions -> Nat]
  PROVE  [row EXCEPT !.counts = f] \in Rows
BY DEF Rows

LEMMA AddReplyRow ==
  ASSUME NEW row \in Rows, NEW at \in Nat
  PROVE  LET new == AddReply(row, at)
         IN  /\ new \in Rows
             /\ new.replies = row.replies + 1
             /\ new.zaps = row.zaps /\ new.counts = row.counts /\ new.total = row.total
<1>. DEFINE a == [row EXCEPT !.exists = TRUE]
            b == [a EXCEPT !.replies = row.replies + 1]
            d == [b EXCEPT !.last = Later(row.last, at)]
<1>1. row.replies + 1 \in Nat /\ row.last \in Nat /\ Later(row.last, at) \in Nat
  BY DEF Rows, Later
<1>2. a \in Rows /\ a.replies = row.replies /\ a.last = row.last
  BY RowFlags DEF Rows
<1>3. b \in Rows /\ b.last = row.last
  <2>. HIDE DEF a
  <2>1. b \in Rows
    BY <1>1, <1>2, RowNumbers
  <2>2. b.last = row.last
    BY <1>2 DEF Rows
  <2>. QED BY <2>1, <2>2
<1>4. d \in Rows
  <2>. HIDE DEF b
  <2>. QED BY <1>1, <1>3, RowNumbers
<1>5. AddReply(row, at) = d
  BY <1>2, <1>3 DEF AddReply
<1>6. /\ d.replies = row.replies + 1
      /\ d.zaps = row.zaps /\ d.counts = row.counts /\ d.total = row.total
  BY DEF Rows
<1>. QED BY <1>4, <1>5, <1>6

LEMMA AddZapRow ==
  ASSUME NEW row \in Rows, NEW sats \in Nat, NEW at \in Nat
  PROVE  LET new == AddZap(row, sats, at)
         IN  /\ new \in Rows
             /\ new.zaps = row.zaps + sats
             /\ new.replies = row.replies /\ new.counts = row.counts /\ new.total = row.total
<1>. DEFINE a == [row EXCEPT !.exists = TRUE]
            b == [a EXCEPT !.zaps = row.zaps + sats]
            d == [b EXCEPT !.last = Later(row.last, at)]
<1>1. row.zaps \in Nat /\ row.last \in Nat /\ Later(row.last, at) \in Nat /\ row.zaps + sats \in Nat
  BY DEF Rows, Later
<1>2. a \in Rows /\ a.zaps = row.zaps /\ a.last = row.last
  BY RowFlags DEF Rows
<1>3. b \in Rows /\ b.last = row.last
  <2>. HIDE DEF a
  <2>1. b \in Rows
    BY <1>1, <1>2, RowNumbers
  <2>2. b.last = row.last
    BY <1>2 DEF Rows
  <2>. QED BY <2>1, <2>2
<1>4. d \in Rows
  <2>. HIDE DEF b
  <2>. QED BY <1>1, <1>3, RowNumbers
<1>5. AddZap(row, sats, at) = d
  BY <1>2, <1>3 DEF AddZap
<1>6. /\ d.zaps = row.zaps + sats
      /\ d.replies = row.replies /\ d.counts = row.counts /\ d.total = row.total
  BY DEF Rows
<1>. QED BY <1>4, <1>5, <1>6

\* The reactions of one target: a row whose read fails starts again from zero.
LEMMA AddReactionsRow ==
  ASSUME NEW row \in Rows, NEW updates \in Maps(Reactions, Times)
  PROVE  LET new  == AddReactions(row, updates)
             base == IF GetAggregateFails(row) THEN NoRow ELSE row
         IN  /\ new \in Rows /\ base \in Rows
             /\ new.counts = [r \in Reactions |-> IF r \in DOMAIN updates THEN base.counts[r] + 1
                                                  ELSE base.counts[r]]
             /\ new.total = base.total + Cardinality(DOMAIN updates)
             /\ new.replies = base.replies /\ new.zaps = base.zaps
<1>. DEFINE agg == IF GetAggregateFails(row) THEN NoRow ELSE row
            times == {updates[r] : r \in DOMAIN updates} \union {agg.last}
            latest == CHOOSE t \in times: \A s \in times: s <= t
            counts == [r \in Reactions |-> IF r \in DOMAIN updates THEN agg.counts[r] + 1
                                           ELSE agg.counts[r]]
            total == agg.total + Cardinality(DOMAIN updates)
            a == [agg EXCEPT !.exists = TRUE]
            b == [a EXCEPT !.json = TRUE]
            d == [b EXCEPT !.counts = counts]
            g == [d EXCEPT !.total = total]
            h == [g EXCEPT !.last = latest]
<1>1. agg \in Rows
  BY NoRowType
<1>2. AddReactions(row, updates) = h
  BY DEF AddReactions
<1>. HIDE DEF agg
<1>3. DOMAIN updates \subseteq Reactions /\ updates \in [DOMAIN updates -> Times]
  BY DEF Maps
<1>4. IsFiniteSet(DOMAIN updates)
  BY <1>3, FiniteAssumption, FS_Subset
<1>5. counts \in [Reactions -> Nat]
  BY <1>1 DEF Rows
<1>6. total \in Nat
  BY <1>1, <1>4, FS_CardinalityType DEF Rows
<1>7. latest \in Nat
  <2>1. IsFiniteSet({updates[r] : r \in DOMAIN updates})
    BY <1>3, FiniteAssumption, FS_Subset
  <2>2. IsFiniteSet(times)
    BY <2>1, FS_AddElement
  <2>3. times \in SUBSET Nat /\ times # {}
    BY <1>1, <1>3, TimesAssumption DEF Rows
  <2>. HIDE DEF times
  <2>4. \E t \in times: \A s \in times: s <= t
    BY <2>2, <2>3, LatestExists
  <2>. QED BY <2>3, <2>4
<1>. HIDE DEF counts, total, latest
<1>8. a \in Rows /\ b \in Rows
  <2>1. a \in Rows
    BY <1>1, RowFlags
  <2>. HIDE DEF a
  <2>. QED BY <2>1, RowFlags
<1>9. d \in Rows
  <2>. HIDE DEF b
  <2>. QED BY <1>5, <1>8, RowCounts
<1>10. g \in Rows
  <2>. HIDE DEF d
  <2>. QED BY <1>6, <1>9, RowNumbers
<1>11. h \in Rows
  <2>. HIDE DEF g
  <2>. QED BY <1>7, <1>10, RowNumbers
<1>12. /\ h.counts = counts /\ h.total = total
       /\ h.replies = agg.replies /\ h.zaps = agg.zaps
  BY <1>1 DEF Rows
<1>. QED BY <1>1, <1>2, <1>11, <1>12 DEF agg, counts, total

-------------------------------------------------------------------------------
(* How many updates of a set wait in a channel. *)

Positions(s, W) == {i \in DOMAIN s: s[i] \in W}

LEMMA PositionsCount ==
  ASSUME NEW A, NEW s \in Seq(A), NEW W
  PROVE  IsFiniteSet(Positions(s, W)) /\ Cardinality(Positions(s, W)) \in Nat
<1>1. DOMAIN s = 1 .. Len(s) /\ Len(s) \in Nat
  OBVIOUS
<1>2. IsFiniteSet(1 .. Len(s))
  BY <1>1, FS_Interval
<1>3. Positions(s, W) \in SUBSET (1 .. Len(s))
  BY <1>1 DEF Positions
<1>. QED BY <1>2, <1>3, FS_Subset, FS_CardinalityType

LEMMA PositionsAppend ==
  ASSUME NEW A, NEW s \in Seq(A), NEW u \in A, NEW W
  PROVE  Cardinality(Positions(Append(s, u), W)) =
           Cardinality(Positions(s, W)) + IF u \in W THEN 1 ELSE 0
<1>. DEFINE a == Append(s, u)
            n == Len(s) + 1
<1>1. /\ Len(s) \in Nat /\ DOMAIN s = 1 .. Len(s) /\ DOMAIN a = 1 .. n
      /\ a[n] = u /\ \A i \in 1 .. Len(s): a[i] = s[i]
  OBVIOUS
<1>. HIDE DEF a
<1>2. n \notin Positions(s, W)
  BY <1>1 DEF Positions
<1>3. Positions(a, W) = IF u \in W THEN Positions(s, W) \union {n} ELSE Positions(s, W)
  BY <1>1 DEF Positions
<1>4. IsFiniteSet(Positions(s, W)) /\ Cardinality(Positions(s, W)) \in Nat
  BY PositionsCount
<1>5. Cardinality(Positions(s, W) \union {n}) = Cardinality(Positions(s, W)) + 1
  BY <1>2, <1>4, FS_AddElement
<1>. QED BY <1>3, <1>4, <1>5 DEF a

LEMMA PositionsTail ==
  ASSUME NEW A, NEW s \in Seq(A), s # << >>, NEW W
  PROVE  Cardinality(Positions(s, W)) =
           Cardinality(Positions(Tail(s), W)) + IF Head(s) \in W THEN 1 ELSE 0
<1>. DEFINE r == Tail(s)
            n == Len(s)
            P == Positions(s, W) \ {1}
            f == [i \in Positions(r, W) |-> i + 1]
<1>1. /\ n \in Nat \ {0} /\ DOMAIN s = 1 .. n /\ DOMAIN r = 1 .. n - 1
      /\ Head(s) = s[1] /\ \A i \in 1 .. n - 1: r[i] = s[i + 1]
  OBVIOUS
<1>2. r \in Seq(A)
  OBVIOUS
<1>. HIDE DEF r
<1>3. f \in Bijection(Positions(r, W), P)
  <2>1. \A i \in Positions(r, W): i \in Nat /\ i + 1 \in P
    BY <1>1 DEF Positions
  <2>2. f \in [Positions(r, W) -> P]
    BY <2>1
  <2>3. IsInjective(f)
    BY <2>1 DEF IsInjective
  <2>4. \A j \in P: \E i \in Positions(r, W): f[i] = j
    <3>1. ASSUME NEW j \in P PROVE j - 1 \in Positions(r, W) /\ (j - 1) + 1 = j
      BY <1>1 DEF Positions
    <3>. QED BY <3>1
  <2>. QED BY <2>2, <2>3, <2>4 DEF Bijection, Injection, Surjection
<1>4. Cardinality(Positions(r, W)) = Cardinality(P)
  <2>1. ExistsBijection(Positions(r, W), P)
    BY <1>3 DEF ExistsBijection
  <2>. QED BY <1>2, <2>1, PositionsCount, FS_Bijection
<1>5. 1 \in Positions(s, W) <=> Head(s) \in W
  BY <1>1 DEF Positions
<1>6. Cardinality(Positions(s, W)) \in Nat /\ IsFiniteSet(Positions(s, W))
  BY PositionsCount
<1>7. CASE Head(s) \in W
  <2>1. Cardinality(P) = Cardinality(Positions(s, W)) - 1
    BY <1>5, <1>6, <1>7, FS_RemoveElement
  <2>. QED BY <1>4, <1>6, <1>7, <2>1 DEF r
<1>8. CASE Head(s) \notin W
  <2>1. P = Positions(s, W)
    BY <1>5, <1>8
  <2>2. Cardinality(Positions(r, W)) = Cardinality(Positions(s, W))
    BY <1>4, <2>1
  <2>. QED BY <1>6, <1>8, <2>2 DEF r
<1>. QED BY <1>7, <1>8

Wanted(us, t) == {u \in us: u.target = t}

LEMMA InChannelIs ==
  ASSUME NEW us, NEW t
  PROVE  /\ InChannel(us, t) = Cardinality(Positions(aggregateChan, Wanted(us, t)))
         /\ InChannel(us, t)' = Cardinality(Positions(aggregateChan', Wanted(us, t)))
<1>1. {i \in DOMAIN aggregateChan: aggregateChan[i] \in us /\ aggregateChan[i].target = t}
        = Positions(aggregateChan, Wanted(us, t))
  BY DEF Positions, Wanted
<1>2. {i \in DOMAIN aggregateChan': aggregateChan'[i] \in us /\ aggregateChan'[i].target = t}
        = Positions(aggregateChan', Wanted(us, t))
  BY DEF Positions, Wanted
<1>. QED BY <1>1, <1>2 DEF InChannel

-------------------------------------------------------------------------------
(* Every step of the path keeps the types. *)

ZapEntries == [sats: {Placeholder}, at: Times]

\* AggTypeOK in terms of Maps.
ChannelTypes ==
  /\ ctxDone \in BOOLEAN /\ aggClosed \in BOOLEAN /\ leaving \in BOOLEAN
  /\ panicked \in BOOLEAN /\ writeFailed \in BOOLEAN
  /\ aggregateChan \in Seq(Updates) /\ Len(aggregateChan) <= AggCap
  /\ accepted \in [Updates -> Nat]

MapTypes ==
  /\ replies \in Maps(Targets, Times)
  /\ zaps \in Maps(Targets, ZapEntries)
  /\ DOMAIN reactions \subseteq Targets
  /\ \A t \in DOMAIN reactions: reactions[t] \in Maps(Reactions, Times) /\ DOMAIN reactions[t] # {}

TableTypes ==
  /\ batcher \in {"select", "replies", "reactions", "zaps", "exited"}
  /\ table \in [Targets -> Rows]

LEMMA NonEmptyMaps ==
  ASSUME NEW f
  PROVE  f \in UNION {[S -> Times] : S \in (SUBSET Reactions) \ {{}}}
           <=> f \in Maps(Reactions, Times) /\ DOMAIN f # {}
<1>1. ASSUME NEW S \in (SUBSET Reactions) \ {{}}, f \in [S -> Times]
      PROVE  f \in Maps(Reactions, Times) /\ DOMAIN f # {}
  BY <1>1 DEF Maps
<1>2. ASSUME NEW S \in SUBSET Reactions, f \in [S -> Times], DOMAIN f # {}
      PROVE  S \in (SUBSET Reactions) \ {{}}
  BY <1>2
<1>3. f \in Maps(Reactions, Times) <=> \E S \in SUBSET Reactions: f \in [S -> Times]
  BY DEF Maps
<1>4. f \in UNION {[S -> Times] : S \in (SUBSET Reactions) \ {{}}}
        <=> \E S \in (SUBSET Reactions) \ {{}}: f \in [S -> Times]
  OBVIOUS
<1>. QED BY <1>1, <1>2, <1>3, <1>4

LEMMA TypeParts == AggTypeOK <=> ChannelTypes /\ MapTypes /\ TableTypes
<1>1. replies \in UNION {[S -> Times] : S \in SUBSET Targets} <=> replies \in Maps(Targets, Times)
  BY DEF Maps
<1>2. zaps \in UNION {[S -> [sats: {Placeholder}, at: Times]] : S \in SUBSET Targets}
        <=> zaps \in Maps(Targets, ZapEntries)
  BY DEF Maps, ZapEntries
<1>. QED BY <1>1, <1>2, NonEmptyMaps DEF AggTypeOK, ChannelTypes, MapTypes, TableTypes

LEMMA AggTypeInit == AggInit => AggTypeOK
<1>. SUFFICES ASSUME AggInit PROVE ChannelTypes /\ MapTypes /\ TableTypes
  BY TypeParts
<1>1. ChannelTypes
  <2>1. << >> \in Seq(Updates) /\ Len(<< >>) <= AggCap
    BY AggCapAssumption
  <2>. QED BY <2>1 DEF AggInit, ChannelTypes
<1>2. MapTypes
  BY EmptyMapType DEF AggInit, MapTypes
<1>3. TableTypes
  BY NoRowType DEF AggInit, TableTypes
<1>. QED BY <1>1, <1>2, <1>3

LEMMA QueueType ==
  ASSUME AggTypeOK, NEW u \in Updates, QueueUpdate(u)
  PROVE  AggTypeOK'
<1>0. (AggTypeOK <=> ChannelTypes /\ MapTypes /\ TableTypes)'
  BY TypeParts, PTL
<1>1. ChannelTypes /\ MapTypes /\ TableTypes
  BY TypeParts
<1>2. MapTypes' /\ TableTypes'
  BY <1>1 DEF QueueUpdate, MapTypes, TableTypes, batchVars
<1>3. ChannelTypes'
  <2>1. panicked' \in BOOLEAN /\ UNCHANGED <<ctxDone, aggClosed, leaving, writeFailed>>
    BY <1>1 DEF QueueUpdate, ChannelTypes
  <2>2. CASE UNCHANGED <<aggregateChan, accepted>>
    BY <1>1, <2>1, <2>2 DEF ChannelTypes
  <2>3. CASE /\ Len(aggregateChan) < AggCap
             /\ aggregateChan' = Append(aggregateChan, u)
             /\ accepted' = [accepted EXCEPT ![u] = @ + 1]
    <3>1. aggregateChan' \in Seq(Updates) /\ Len(aggregateChan') <= AggCap
      <4>1. aggregateChan \in Seq(Updates)
        BY <1>1 DEF ChannelTypes
      <4>. QED BY <2>3, <4>1, AggCapAssumption
    <3>2. accepted' \in [Updates -> Nat]
      BY <1>1, <2>3 DEF ChannelTypes
    <3>. QED BY <1>1, <2>1, <3>1, <3>2 DEF ChannelTypes
  <2>. QED BY <2>2, <2>3 DEF QueueUpdate
<1>. QED BY <1>0, <1>2, <1>3

LEMMA FirstOfType ==
  ASSUME NEW rs, NEW xs, NEW zs, NEW final
  PROVE  FirstOf(rs, xs, zs, final) \in {"select", "replies", "reactions", "zaps", "exited"}
BY DEF FirstOf

LEMMA UpdateKinds ==
  ASSUME NEW u \in Updates
  PROVE  /\ u.target \in Targets /\ u.at \in Times
         /\ u.type \in {"reply", "reaction", "zap"}
         /\ u \in Replies <=> u.type = "reply"
         /\ u \in ReactionUpdates <=> u.type = "reaction"
         /\ u \in Zaps <=> u.type = "zap"
         /\ u.type = "reaction" => u.reaction \in Reactions
         /\ u.type = "zap" => u.sats = Placeholder
BY DEF Updates, Replies, ReactionUpdates, Zaps

\* What Accumulate makes of the batcher's maps.
LEMMA AccumulateMaps ==
  ASSUME AggTypeOK, NEW u \in Updates, Accumulate(u)
  PROVE  /\ MapTypes'
         /\ u.type = "reply" => /\ DOMAIN replies' = DOMAIN replies \union {u.target}
                                /\ UNCHANGED <<reactions, zaps>>
         /\ u.type = "zap" => /\ DOMAIN zaps' = DOMAIN zaps \union {u.target}
                              /\ UNCHANGED <<replies, reactions>>
         /\ u.type = "reaction" =>
              /\ UNCHANGED <<replies, zaps>>
              /\ DOMAIN reactions' = DOMAIN reactions \union {u.target}
              /\ \A t \in DOMAIN reactions \ {u.target}: reactions'[t] = reactions[t]
              /\ DOMAIN reactions'[u.target] =
                   {u.reaction} \union IF u.target \in DOMAIN reactions
                                       THEN DOMAIN reactions[u.target] ELSE {}
<1>0. MapTypes
  BY TypeParts
<1>u. /\ u.target \in Targets /\ u.at \in Times /\ u.type \in {"reply", "reaction", "zap"}
      /\ u.type = "reaction" => u.reaction \in Reactions
      /\ u.type = "zap" => u.sats = Placeholder
  BY UpdateKinds
<1>1. CASE u.type = "reply"
  <2>1. replies' = Put(replies, u.target, u.at) /\ UNCHANGED <<reactions, zaps>>
    BY <1>1 DEF Accumulate
  <2>2. replies \in Maps(Targets, Times)
    BY <1>0 DEF MapTypes
  <2>. DEFINE t == u.target
              at == u.at
  <2>3. replies \in Maps(Targets, Times) /\ t \in Targets /\ at \in Times
    BY <1>u, <2>2
  <2>. HIDE DEF t, at
  <2>4. /\ Put(replies, t, at) \in Maps(Targets, Times)
        /\ DOMAIN Put(replies, t, at) = DOMAIN replies \union {t}
    BY <2>3, PutType
  <2>. QED BY <1>0, <1>u, <1>1, <2>1, <2>4 DEF MapTypes, t, at
<1>2. CASE u.type = "zap"
  <2>. DEFINE z == [sats |-> u.sats, at |-> u.at]
  <2>1. zaps' = Put(zaps, u.target, z) /\ UNCHANGED <<replies, reactions>>
    BY <1>2 DEF Accumulate
  <2>2. z \in ZapEntries
    BY <1>u, <1>2 DEF ZapEntries
  <2>. HIDE DEF z
  <2>3. zaps \in Maps(Targets, ZapEntries) /\ u.target \in Targets
    BY <1>0, <1>u DEF MapTypes
  <2>4. /\ Put(zaps, u.target, z) \in Maps(Targets, ZapEntries)
        /\ DOMAIN Put(zaps, u.target, z) = DOMAIN zaps \union {u.target}
    BY <2>2, <2>3, PutType
  <2>. QED BY <1>0, <1>u, <1>2, <2>1, <2>4 DEF MapTypes
<1>3. CASE u.type = "reaction"
  <2>. DEFINE old == IF u.target \in DOMAIN reactions THEN reactions[u.target] ELSE EmptyMap
              r == u.reaction
              at == u.at
              new == Put(old, r, at)
  <2>1. reactions' = Put(reactions, u.target, new) /\ UNCHANGED <<replies, zaps>>
    BY <1>3 DEF Accumulate
  <2>2. /\ old \in Maps(Reactions, Times)
        /\ DOMAIN old = IF u.target \in DOMAIN reactions THEN DOMAIN reactions[u.target] ELSE {}
    BY <1>0, EmptyMapType DEF MapTypes
  <2>. HIDE DEF old
  <2>3. r \in Reactions /\ at \in Times
    BY <1>u, <1>3
  <2>. HIDE DEF r, at
  <2>4. new \in Maps(Reactions, Times) /\ DOMAIN new = DOMAIN old \union {r}
    BY <2>2, <2>3, PutType
  <2>. HIDE DEF new
  <2>5. /\ DOMAIN reactions' = DOMAIN reactions \union {u.target}
        /\ reactions'[u.target] = new
        /\ \A t \in DOMAIN reactions \ {u.target}: reactions'[t] = reactions[t]
    BY <1>0, <2>1 DEF Put, MapTypes
  <2>6. MapTypes'
    BY <1>0, <1>u, <2>1, <2>4, <2>5 DEF MapTypes
  <2>. QED BY <1>3, <2>1, <2>2, <2>4, <2>5, <2>6 DEF r
<1>. QED BY <1>u, <1>1, <1>2, <1>3

-------------------------------------------------------------------------------
(* What a target's replies, zaps and reactions weigh on their way to the      *)
(* table: no step of the batcher adds to it.                                  *)

ReplyLoad(t) == table[t].replies + InMap(replies, t) + InChannel(Replies, t)

ZapLoad(t) == table[t].zaps + InMap(zaps, t) + InChannel(Zaps, t)

InReactions(r, t) == IF t \in DOMAIN reactions THEN InMap(reactions[t], r) ELSE 0

ReactionLoad(r, t) ==
  table[t].counts[r] + InReactions(r, t) + InChannel(ReactionsOf(r), t)

NoLoadGrows ==
  \A t \in Targets: /\ ReplyLoad(t)' <= ReplyLoad(t)
                    /\ ZapLoad(t)' <= ZapLoad(t)
                    /\ \A r \in Reactions: ReactionLoad(r, t)' <= ReactionLoad(r, t)

LEMMA ChannelCount ==
  ASSUME AggTypeOK, NEW us, NEW t
  PROVE  InChannel(us, t) \in Nat
<1>1. aggregateChan \in Seq(Updates)
  BY DEF AggTypeOK
<1>. QED BY <1>1, PositionsCount, InChannelIs

LEMMA RowTypes ==
  ASSUME AggTypeOK, NEW t \in Targets
  PROVE  /\ table[t] \in Rows
         /\ table[t].replies \in Nat /\ table[t].zaps \in Nat /\ table[t].total \in Nat
         /\ table[t].counts \in [Reactions -> Nat]
BY DEF AggTypeOK, Rows

LEMMA ReceiveInv ==
  ASSUME AggTypeOK, Receive
  PROVE  AggTypeOK' /\ NoLoadGrows
<1>. DEFINE u == Head(aggregateChan)
<1>0. (AggTypeOK <=> ChannelTypes /\ MapTypes /\ TableTypes)'
  BY TypeParts, PTL
<1>1. ChannelTypes /\ MapTypes /\ TableTypes
  BY TypeParts
<1>2. aggregateChan \in Seq(Updates) /\ aggregateChan # << >> /\ u \in Updates
  BY <1>1 DEF ChannelTypes, Receive
<1>3. aggregateChan' \in Seq(Updates) /\ Len(aggregateChan') <= AggCap
  BY <1>1, <1>2, AggCapAssumption DEF ChannelTypes, Receive
<1>4. ChannelTypes' /\ TableTypes'
  BY <1>1, <1>3 DEF ChannelTypes, TableTypes, Receive
<1>5. Accumulate(u)
  BY DEF Receive
<1>6. \A us, t: InChannel(us, t) = InChannel(us, t)' + IF u \in Wanted(us, t) THEN 1 ELSE 0
  BY <1>2, PositionsTail, InChannelIs DEF Receive
<1>. HIDE DEF u
<1>7. AggTypeOK'
  BY <1>0, <1>2, <1>4, <1>5, AccumulateMaps
<1>8. NoLoadGrows
  <2>. SUFFICES ASSUME NEW t \in Targets
                PROVE  /\ ReplyLoad(t)' <= ReplyLoad(t)
                       /\ ZapLoad(t)' <= ZapLoad(t)
                       /\ \A r \in Reactions: ReactionLoad(r, t)' <= ReactionLoad(r, t)
    BY DEF NoLoadGrows
  <2>1. table' = table
    BY DEF Receive
  <2>2. \A us: InChannel(us, t) \in Nat /\ InChannel(us, t)' \in Nat
    BY <1>2, <1>3, PositionsCount, InChannelIs
  <2>3. u.type \in {"reply", "reaction", "zap"}
    BY <1>2, UpdateKinds
  <2>4. /\ u \in Wanted(Replies, t) <=> u.type = "reply" /\ u.target = t
        /\ u \in Wanted(Zaps, t) <=> u.type = "zap" /\ u.target = t
        /\ \A r: u \in Wanted(ReactionsOf(r), t) <=>
                   u.type = "reaction" /\ u.target = t /\ u.reaction = r
    BY <1>2, UpdateKinds DEF Wanted, ReactionsOf
  <2>5. /\ u.type = "reply" => DOMAIN replies' = DOMAIN replies \union {u.target}
        /\ u.type # "reply" => replies' = replies
    BY <1>2, <1>5, <2>3, AccumulateMaps
  <2>6. InMap(replies, t)' <= InMap(replies, t) + IF u \in Wanted(Replies, t) THEN 1 ELSE 0
    BY <2>4, <2>5 DEF InMap
  <2>7. /\ u.type = "zap" => DOMAIN zaps' = DOMAIN zaps \union {u.target}
        /\ u.type # "zap" => zaps' = zaps
    BY <1>2, <1>5, <2>3, AccumulateMaps
  <2>8. InMap(zaps, t)' <= InMap(zaps, t) + IF u \in Wanted(Zaps, t) THEN 1 ELSE 0
    BY <2>4, <2>7 DEF InMap
  <2>9. /\ u.type = "reaction" =>
             /\ DOMAIN reactions' = DOMAIN reactions \union {u.target}
             /\ \A x \in DOMAIN reactions \ {u.target}: reactions'[x] = reactions[x]
             /\ DOMAIN reactions'[u.target] =
                  {u.reaction} \union IF u.target \in DOMAIN reactions
                                      THEN DOMAIN reactions[u.target] ELSE {}
        /\ u.type # "reaction" => reactions' = reactions
    BY <1>2, <1>5, <2>3, AccumulateMaps
  <2>10. ASSUME NEW r \in Reactions
         PROVE  InReactions(r, t)' <= InReactions(r, t) +
                                        IF u \in Wanted(ReactionsOf(r), t) THEN 1 ELSE 0
    <3>1. CASE u.type = "reaction" /\ u.target = t
      BY <2>4, <2>9, <3>1 DEF InMap, InReactions
    <3>2. CASE u.type = "reaction" /\ u.target # t
      BY <2>4, <2>9, <3>2 DEF InMap, InReactions
    <3>3. CASE u.type # "reaction"
      BY <2>4, <2>9, <3>3 DEF InMap, InReactions
    <3>. QED BY <3>1, <3>2, <3>3
  <2>11. InMap(replies, t) \in {0, 1} /\ InMap(replies, t)' \in {0, 1}
    BY DEF InMap
  <2>12. InMap(zaps, t) \in {0, 1} /\ InMap(zaps, t)' \in {0, 1}
    BY DEF InMap
  <2>13. \A r: InReactions(r, t) \in {0, 1} /\ InReactions(r, t)' \in {0, 1}
    BY DEF InMap, InReactions
  <2>14. /\ table[t].replies \in Nat /\ table[t].zaps \in Nat
         /\ \A r \in Reactions: table[t].counts[r] \in Nat
    BY RowTypes
  <2>15. ReplyLoad(t)' <= ReplyLoad(t)
    BY <1>6, <2>1, <2>2, <2>6, <2>11, <2>14 DEF ReplyLoad
  <2>16. ZapLoad(t)' <= ZapLoad(t)
    BY <1>6, <2>1, <2>2, <2>8, <2>12, <2>14 DEF ZapLoad
  <2>17. ASSUME NEW r \in Reactions PROVE ReactionLoad(r, t)' <= ReactionLoad(r, t)
    <3>1. InChannel(ReactionsOf(r), t) = InChannel(ReactionsOf(r), t)' +
            IF u \in Wanted(ReactionsOf(r), t) THEN 1 ELSE 0
      BY <1>6
    <3>. QED BY <2>1, <2>2, <2>10, <2>13, <2>14, <3>1 DEF ReactionLoad
  <2>. QED BY <2>15, <2>16, <2>17
<1>. QED BY <1>7, <1>8

LEMMA StartFlushInv ==
  ASSUME AggTypeOK, NEW final \in BOOLEAN, StartFlush(final)
  PROVE  AggTypeOK' /\ UNCHANGED <<table, replies, reactions, zaps, aggregateChan>>
<1>1. batcher' \in {"select", "replies", "reactions", "zaps", "exited"}
  BY FirstOfType DEF StartFlush
<1>. QED BY <1>1 DEF AggTypeOK, StartFlush, batchVars, channelVars

\* A step that leaves the channel alone moves loads between a map and the table.
LEMMA MovedLoads ==
  ASSUME AggTypeOK, AggTypeOK', UNCHANGED aggregateChan,
         \A t \in Targets:
           /\ table'[t].replies + InMap(replies, t)' <= table[t].replies + InMap(replies, t)
           /\ table'[t].zaps + InMap(zaps, t)' <= table[t].zaps + InMap(zaps, t)
           /\ \A r \in Reactions: table'[t].counts[r] + InReactions(r, t)'
                                    <= table[t].counts[r] + InReactions(r, t)
  PROVE  NoLoadGrows
<1>. SUFFICES ASSUME NEW t \in Targets
              PROVE  /\ ReplyLoad(t)' <= ReplyLoad(t)
                     /\ ZapLoad(t)' <= ZapLoad(t)
                     /\ \A r \in Reactions: ReactionLoad(r, t)' <= ReactionLoad(r, t)
  BY DEF NoLoadGrows
<1>1. \A us: InChannel(us, t)' = InChannel(us, t) /\ InChannel(us, t) \in Nat
  BY ChannelCount, InChannelIs
<1>2. /\ table[t].replies \in Nat /\ table[t].zaps \in Nat
      /\ \A r \in Reactions: table[t].counts[r] \in Nat
  BY RowTypes
<1>3. /\ table'[t].replies \in Nat /\ table'[t].zaps \in Nat
      /\ \A r \in Reactions: table'[t].counts[r] \in Nat
  BY DEF AggTypeOK, Rows
<1>4. /\ InMap(replies, t) \in {0, 1} /\ InMap(replies, t)' \in {0, 1}
      /\ InMap(zaps, t) \in {0, 1} /\ InMap(zaps, t)' \in {0, 1}
      /\ \A r: InReactions(r, t) \in {0, 1} /\ InReactions(r, t)' \in {0, 1}
  BY DEF InMap, InReactions
<1>5. ReplyLoad(t)' <= ReplyLoad(t)
  BY <1>1, <1>2, <1>3, <1>4 DEF ReplyLoad
<1>6. ZapLoad(t)' <= ZapLoad(t)
  BY <1>1, <1>2, <1>3, <1>4 DEF ZapLoad
<1>7. ASSUME NEW r \in Reactions PROVE ReactionLoad(r, t)' <= ReactionLoad(r, t)
  <2>1. table'[t].counts[r] + InReactions(r, t)' <= table[t].counts[r] + InReactions(r, t)
    OBVIOUS
  <2>. QED BY <1>1, <1>2, <1>3, <1>4, <2>1 DEF ReactionLoad
<1>. QED BY <1>5, <1>6, <1>7

LEMMA FlushRepliesInv ==
  ASSUME AggTypeOK, FlushReplies
  PROVE  /\ AggTypeOK' /\ NoLoadGrows
         /\ \A t \in Targets: /\ table'[t].counts = table[t].counts
                              /\ table'[t].total = table[t].total
<1>0. (AggTypeOK <=> ChannelTypes /\ MapTypes /\ TableTypes)'
  BY TypeParts, PTL
<1>1. ChannelTypes /\ MapTypes /\ TableTypes
  BY TypeParts
<1>2. table' \in {table, BatchIncrementReplies(table, replies)} /\ writeFailed' \in BOOLEAN
  BY <1>1 DEF FlushReplies, ChannelTypes
<1>3. /\ replies' = EmptyMap /\ UNCHANGED <<zaps, reactions, aggregateChan>>
      /\ UNCHANGED <<ctxDone, aggClosed, accepted, leaving, panicked>>
  BY DEF FlushReplies, channelVars
<1>4. ASSUME NEW t \in Targets, t \in DOMAIN replies
      PROVE  replies[t] \in Nat
  <2>1. PICK D \in SUBSET Targets: replies \in [D -> Times]
    BY <1>1 DEF MapTypes, Maps
  <2>. QED BY <1>4, <2>1, TimesAssumption
<1>5. ASSUME NEW t \in Targets
      PROVE  /\ table'[t] \in Rows
             /\ table'[t].replies <= table[t].replies + InMap(replies, t)
             /\ table'[t].zaps = table[t].zaps
             /\ table'[t].counts = table[t].counts /\ table'[t].total = table[t].total
  <2>1. table[t] \in Rows /\ table[t].replies \in Nat
    BY RowTypes
  <2>2. table'[t] = table[t] \/ (t \in DOMAIN replies /\ table'[t] = AddReply(table[t], replies[t]))
    BY <1>2 DEF BatchIncrementReplies
  <2>3. CASE table'[t] = table[t]
    BY <2>1, <2>3 DEF InMap
  <2>4. CASE t \in DOMAIN replies /\ table'[t] = AddReply(table[t], replies[t])
    <3>. DEFINE row == table[t]
                at == replies[t]
    <3>1. row \in Rows /\ at \in Nat /\ table'[t] = AddReply(row, at)
      BY <1>4, <2>1, <2>4
    <3>. HIDE DEF row, at
    <3>2. /\ table'[t] \in Rows /\ table'[t].replies = row.replies + 1
          /\ table'[t].zaps = row.zaps /\ table'[t].counts = row.counts
          /\ table'[t].total = row.total
      BY <3>1, AddReplyRow
    <3>. QED BY <2>1, <2>4, <3>2 DEF InMap, row
  <2>. QED BY <2>2, <2>3, <2>4
<1>6. table' \in [Targets -> Rows]
  <2>1. table' = [t \in Targets |-> table'[t]]
    BY <1>1, <1>2 DEF TableTypes, BatchIncrementReplies
  <2>. QED BY <1>5, <2>1
<1>7. AggTypeOK'
  <2>1. ChannelTypes'
    BY <1>1, <1>2, <1>3 DEF ChannelTypes
  <2>2. MapTypes'
    BY <1>1, <1>3, EmptyMapType DEF MapTypes
  <2>3. TableTypes'
    BY <1>6, FirstOfType DEF TableTypes, FlushReplies
  <2>. QED BY <1>0, <2>1, <2>2, <2>3
<1>8. NoLoadGrows
  <2>1. ASSUME NEW t \in Targets
        PROVE  /\ table'[t].replies + InMap(replies, t)' <= table[t].replies + InMap(replies, t)
               /\ table'[t].zaps + InMap(zaps, t)' <= table[t].zaps + InMap(zaps, t)
               /\ \A r \in Reactions: table'[t].counts[r] + InReactions(r, t)'
                                        <= table[t].counts[r] + InReactions(r, t)
    <3>1. InMap(replies, t)' = 0
      BY <1>3, EmptyMapType DEF InMap
    <3>2. InMap(zaps, t)' = InMap(zaps, t) /\ InMap(zaps, t) \in {0, 1}
      BY <1>3 DEF InMap
    <3>3. \A r: InReactions(r, t)' = InReactions(r, t) /\ InReactions(r, t) \in {0, 1}
      BY <1>3 DEF InMap, InReactions
    <3>4. table'[t].replies \in Nat
      BY <1>5 DEF Rows
    <3>. QED BY <1>5, <3>1, <3>2, <3>3, <3>4, RowTypes
  <2>. QED BY <1>3, <1>7, <2>1, MovedLoads
<1>. QED BY <1>5, <1>7, <1>8

LEMMA FlushZapsInv ==
  ASSUME AggTypeOK, FlushZaps
  PROVE  /\ AggTypeOK' /\ NoLoadGrows
         /\ \A t \in Targets: /\ table'[t].counts = table[t].counts
                              /\ table'[t].total = table[t].total
<1>0. (AggTypeOK <=> ChannelTypes /\ MapTypes /\ TableTypes)'
  BY TypeParts, PTL
<1>1. ChannelTypes /\ MapTypes /\ TableTypes
  BY TypeParts
<1>2. table' \in {table, BatchAddZaps(table, zaps)} /\ writeFailed' \in BOOLEAN
  BY <1>1 DEF FlushZaps, ChannelTypes
<1>3. /\ zaps' = EmptyMap /\ UNCHANGED <<replies, reactions, aggregateChan>>
      /\ UNCHANGED <<ctxDone, aggClosed, accepted, leaving, panicked>>
  BY DEF FlushZaps, channelVars
<1>4. ASSUME NEW t \in Targets, t \in DOMAIN zaps
      PROVE  zaps[t].sats = 1 /\ zaps[t].at \in Nat
  <2>1. PICK D \in SUBSET Targets: zaps \in [D -> ZapEntries]
    BY <1>1 DEF MapTypes, Maps
  <2>2. zaps[t] \in ZapEntries
    BY <1>4, <2>1
  <2>. QED BY <2>2, TimesAssumption DEF ZapEntries, Placeholder
<1>5. ASSUME NEW t \in Targets
      PROVE  /\ table'[t] \in Rows
             /\ table'[t].zaps <= table[t].zaps + InMap(zaps, t)
             /\ table'[t].replies = table[t].replies
             /\ table'[t].counts = table[t].counts /\ table'[t].total = table[t].total
  <2>1. table[t] \in Rows /\ table[t].zaps \in Nat
    BY RowTypes
  <2>2. \/ table'[t] = table[t]
        \/ t \in DOMAIN zaps /\ table'[t] = AddZap(table[t], zaps[t].sats, zaps[t].at)
    BY <1>2 DEF BatchAddZaps
  <2>3. CASE table'[t] = table[t]
    BY <2>1, <2>3 DEF InMap
  <2>4. CASE t \in DOMAIN zaps /\ table'[t] = AddZap(table[t], zaps[t].sats, zaps[t].at)
    <3>. DEFINE row == table[t]
                at == zaps[t].at
    <3>1. row \in Rows /\ at \in Nat /\ table'[t] = AddZap(row, 1, at)
      BY <1>4, <2>1, <2>4
    <3>. HIDE DEF row, at
    <3>2. /\ table'[t] \in Rows /\ table'[t].zaps = row.zaps + 1
          /\ table'[t].replies = row.replies /\ table'[t].counts = row.counts
          /\ table'[t].total = row.total
      BY <3>1, AddZapRow
    <3>. QED BY <2>1, <2>4, <3>2 DEF InMap, row
  <2>. QED BY <2>2, <2>3, <2>4
<1>6. table' \in [Targets -> Rows]
  <2>1. table' = [t \in Targets |-> table'[t]]
    BY <1>1, <1>2 DEF TableTypes, BatchAddZaps
  <2>. QED BY <1>5, <2>1
<1>7. AggTypeOK'
  <2>1. ChannelTypes'
    BY <1>1, <1>2, <1>3 DEF ChannelTypes
  <2>2. MapTypes'
    BY <1>1, <1>3, EmptyMapType DEF MapTypes
  <2>3. TableTypes'
    BY <1>6, FirstOfType DEF TableTypes, FlushZaps
  <2>. QED BY <1>0, <2>1, <2>2, <2>3
<1>8. NoLoadGrows
  <2>1. ASSUME NEW t \in Targets
        PROVE  /\ table'[t].replies + InMap(replies, t)' <= table[t].replies + InMap(replies, t)
               /\ table'[t].zaps + InMap(zaps, t)' <= table[t].zaps + InMap(zaps, t)
               /\ \A r \in Reactions: table'[t].counts[r] + InReactions(r, t)'
                                        <= table[t].counts[r] + InReactions(r, t)
    <3>1. InMap(zaps, t)' = 0
      BY <1>3, EmptyMapType DEF InMap
    <3>2. InMap(replies, t)' = InMap(replies, t) /\ InMap(replies, t) \in {0, 1}
      BY <1>3 DEF InMap
    <3>3. \A r: InReactions(r, t)' = InReactions(r, t) /\ InReactions(r, t) \in {0, 1}
      BY <1>3 DEF InMap, InReactions
    <3>4. table'[t].zaps \in Nat
      BY <1>5 DEF Rows
    <3>. QED BY <1>5, <3>1, <3>2, <3>3, <3>4, RowTypes
  <2>. QED BY <1>3, <1>7, <2>1, MovedLoads
<1>. QED BY <1>5, <1>7, <1>8

\* A row's total against the sum of its counts.
TotalMatches(row) == row.total = SumFunctionOnSet(row.counts, Reactions)

LEMMA NoRowMatches == TotalMatches(NoRow)
<1>. DEFINE zero == [r \in Reactions |-> 0]
<1>1. \A r \in Reactions: zero[r] = 0
  OBVIOUS
<1>2. NoRow.total = 0 /\ NoRow.counts = zero
  BY DEF NoRow
<1>. HIDE DEF zero
<1>3. SumFunctionOnSet(zero, Reactions) = 0
  BY <1>1, FiniteAssumption, SumOfZeros
<1>. QED BY <1>2, <1>3 DEF TotalMatches

LEMMA AddReactionsMatches ==
  ASSUME NEW row \in Rows, NEW updates \in Maps(Reactions, Times), TotalMatches(row)
  PROVE  TotalMatches(AddReactions(row, updates))
<1>. DEFINE base == IF GetAggregateFails(row) THEN NoRow ELSE row
            new == AddReactions(row, updates)
            D == DOMAIN updates
            f == base.counts
            g == [r \in Reactions |-> IF r \in D THEN f[r] + 1 ELSE f[r]]
<1>1. /\ new \in Rows /\ base \in Rows
      /\ new.counts = g
      /\ new.total = base.total + Cardinality(D)
  BY AddReactionsRow
<1>2. TotalMatches(base)
  BY NoRowMatches
<1>3. D \in SUBSET Reactions
  BY DEF Maps
<1>4. f \in [Reactions -> Nat] /\ base.total = SumFunctionOnSet(f, Reactions)
  BY <1>1, <1>2 DEF Rows, TotalMatches
<1>. HIDE DEF base, new, D, f
<1>5. SumFunctionOnSet(g, Reactions) = SumFunctionOnSet(f, Reactions) + Cardinality(D)
  BY <1>3, <1>4, FiniteAssumption, SumOfIncrements
<1>. QED BY <1>1, <1>4, <1>5 DEF TotalMatches, new

LEMMA FlushReactionsInv ==
  ASSUME AggTypeOK, FlushReactions
  PROVE  /\ AggTypeOK' /\ NoLoadGrows
         /\ \A t \in Targets: TotalMatches(table[t]) => TotalMatches(table'[t])
<1>0. (AggTypeOK <=> ChannelTypes /\ MapTypes /\ TableTypes)'
  BY TypeParts, PTL
<1>1. ChannelTypes /\ MapTypes /\ TableTypes
  BY TypeParts
<1>2. writeFailed' \in BOOLEAN
  BY <1>1 DEF FlushReactions, ChannelTypes
<1>3. PICK done \in SUBSET DOMAIN reactions: \E unread:
        table' = BatchIncrementReactions(table, reactions, done, unread)
  BY DEF FlushReactions, SavedTargets
<1>4. PICK unread: table' = BatchIncrementReactions(table, reactions, done, unread)
  BY <1>3
<1>5. /\ reactions' = EmptyMap /\ UNCHANGED <<replies, zaps, aggregateChan>>
      /\ UNCHANGED <<ctxDone, aggClosed, accepted, leaving, panicked>>
  BY DEF FlushReactions, channelVars
<1>6. ASSUME NEW t \in Targets
      PROVE  /\ table'[t] \in Rows
             /\ table'[t].replies <= table[t].replies
             /\ table'[t].zaps <= table[t].zaps
             /\ \A r \in Reactions: table'[t].counts[r] <= table[t].counts[r] + InReactions(r, t)
             /\ TotalMatches(table[t]) => TotalMatches(table'[t])
  <2>1. /\ table[t] \in Rows
        /\ table[t].replies \in Nat /\ table[t].zaps \in Nat
        /\ table[t].counts \in [Reactions -> Nat]
    BY RowTypes
  <2>2. CASE t \notin done
    BY <1>4, <2>1, <2>2 DEF BatchIncrementReactions, InReactions, InMap
  <2>3. CASE t \in done
    <3>. DEFINE row == IF t \in unread THEN NoRow ELSE table[t]
                updates == reactions[t]
                base == IF GetAggregateFails(row) THEN NoRow ELSE row
    <3>1. table'[t] = AddReactions(row, updates)
      BY <1>4, <2>3 DEF BatchIncrementReactions
    <3>2. t \in DOMAIN reactions /\ updates \in Maps(Reactions, Times)
      BY <1>1, <2>3 DEF MapTypes
    <3>3. row \in Rows
      BY <2>1, NoRowType
    <3>4. /\ base.replies <= table[t].replies /\ base.zaps <= table[t].zaps
          /\ \A r \in Reactions: base.counts[r] <= table[t].counts[r]
      <4>1. base = table[t] \/ base = NoRow
        OBVIOUS
      <4>2. /\ NoRow.replies = 0 /\ NoRow.zaps = 0
            /\ \A r \in Reactions: NoRow.counts[r] = 0
        BY DEF NoRow
      <4>. HIDE DEF base
      <4>. QED BY <2>1, <4>1, <4>2
    <3>5. TotalMatches(table[t]) => TotalMatches(row)
      BY NoRowMatches
    <3>. HIDE DEF row, updates
    <3>6. /\ table'[t] \in Rows /\ base \in Rows
          /\ table'[t].counts = [r \in Reactions |-> IF r \in DOMAIN updates
                                                     THEN base.counts[r] + 1 ELSE base.counts[r]]
          /\ table'[t].replies = base.replies /\ table'[t].zaps = base.zaps
      BY <3>1, <3>2, <3>3, AddReactionsRow
    <3>7. TotalMatches(table[t]) => TotalMatches(table'[t])
      BY <3>1, <3>2, <3>3, <3>5, AddReactionsMatches
    <3>8. ASSUME NEW r \in Reactions
          PROVE  table'[t].counts[r] <= table[t].counts[r] + InReactions(r, t)
      <4>1. InReactions(r, t) = IF r \in DOMAIN updates THEN 1 ELSE 0
        BY <3>2 DEF InReactions, InMap, updates
      <4>2. base.counts[r] \in Nat /\ table[t].counts[r] \in Nat
        BY <2>1, <3>6 DEF Rows
      <4>. HIDE DEF base
      <4>. QED BY <3>4, <3>6, <4>1, <4>2
    <3>. QED BY <3>4, <3>6, <3>7, <3>8
  <2>. QED BY <2>2, <2>3
<1>7. table' \in [Targets -> Rows]
  <2>1. table' = [t \in Targets |-> table'[t]]
    BY <1>4 DEF BatchIncrementReactions
  <2>. QED BY <1>6, <2>1
<1>8. AggTypeOK'
  <2>1. ChannelTypes'
    BY <1>1, <1>2, <1>5 DEF ChannelTypes
  <2>2. MapTypes'
    BY <1>1, <1>5, EmptyMapType DEF MapTypes
  <2>3. TableTypes'
    BY <1>7, FirstOfType DEF TableTypes, FlushReactions
  <2>. QED BY <1>0, <2>1, <2>2, <2>3
<1>9. NoLoadGrows
  <2>1. ASSUME NEW t \in Targets
        PROVE  /\ table'[t].replies + InMap(replies, t)' <= table[t].replies + InMap(replies, t)
               /\ table'[t].zaps + InMap(zaps, t)' <= table[t].zaps + InMap(zaps, t)
               /\ \A r \in Reactions: table'[t].counts[r] + InReactions(r, t)'
                                        <= table[t].counts[r] + InReactions(r, t)
    <3>1. \A r: InReactions(r, t)' = 0
      BY <1>5, EmptyMapType DEF InReactions, InMap
    <3>2. /\ InMap(replies, t)' = InMap(replies, t) /\ InMap(replies, t) \in {0, 1}
          /\ InMap(zaps, t)' = InMap(zaps, t) /\ InMap(zaps, t) \in {0, 1}
      BY <1>5 DEF InMap
    <3>3. /\ table'[t].replies \in Nat /\ table'[t].zaps \in Nat
          /\ \A r \in Reactions: table'[t].counts[r] \in Nat
      BY <1>6 DEF Rows
    <3>4. /\ table[t].replies \in Nat /\ table[t].zaps \in Nat
          /\ table'[t].replies <= table[t].replies /\ table'[t].zaps <= table[t].zaps
      BY <1>6, RowTypes
    <3>. QED BY <1>6, <3>1, <3>2, <3>3, <3>4
  <2>. QED BY <1>5, <1>8, <2>1, MovedLoads
<1>. QED BY <1>6, <1>8, <1>9

LEMMA BatcherInv ==
  ASSUME AggTypeOK, Batcher
  PROVE  /\ AggTypeOK' /\ NoLoadGrows
         /\ \A t \in Targets: TotalMatches(table[t]) => TotalMatches(table'[t])
         /\ UNCHANGED accepted
<1>1. CASE Receive
  <2>1. UNCHANGED <<table, accepted>>
    BY <1>1 DEF Receive
  <2>. QED BY <1>1, <2>1, ReceiveInv
<1>2. ASSUME NEW final \in BOOLEAN, StartFlush(final)
      PROVE  /\ AggTypeOK' /\ NoLoadGrows
             /\ \A t \in Targets: TotalMatches(table[t]) => TotalMatches(table'[t])
             /\ UNCHANGED accepted
  <2>1. AggTypeOK' /\ UNCHANGED <<table, replies, reactions, zaps, aggregateChan>>
    BY <1>2, StartFlushInv
  <2>2. UNCHANGED accepted
    BY <1>2 DEF StartFlush, channelVars
  <2>3. ASSUME NEW t \in Targets
        PROVE  /\ table'[t].replies + InMap(replies, t)' <= table[t].replies + InMap(replies, t)
               /\ table'[t].zaps + InMap(zaps, t)' <= table[t].zaps + InMap(zaps, t)
               /\ \A r \in Reactions: table'[t].counts[r] + InReactions(r, t)'
                                        <= table[t].counts[r] + InReactions(r, t)
    <3>1. /\ InMap(replies, t)' = InMap(replies, t) /\ InMap(replies, t) \in {0, 1}
          /\ InMap(zaps, t)' = InMap(zaps, t) /\ InMap(zaps, t) \in {0, 1}
      BY <2>1 DEF InMap
    <3>2. \A r: InReactions(r, t)' = InReactions(r, t) /\ InReactions(r, t) \in {0, 1}
      BY <2>1 DEF InMap, InReactions
    <3>. QED BY <2>1, <3>1, <3>2, RowTypes
  <2>. QED BY <2>1, <2>2, <2>3, MovedLoads
<1>3. CASE FlushReplies \/ FlushZaps
  <2>1. AggTypeOK' /\ NoLoadGrows
    BY <1>3, FlushRepliesInv, FlushZapsInv
  <2>2. \A t \in Targets: table'[t].counts = table[t].counts /\ table'[t].total = table[t].total
    BY <1>3, FlushRepliesInv, FlushZapsInv
  <2>3. UNCHANGED accepted
    BY <1>3 DEF FlushReplies, FlushZaps, channelVars
  <2>. QED BY <2>1, <2>2, <2>3 DEF TotalMatches
<1>4. CASE FlushReactions
  <2>1. UNCHANGED accepted
    BY <1>4 DEF FlushReactions, channelVars
  <2>. QED BY <1>4, <2>1, FlushReactionsInv
<1>. QED BY <1>1, <1>2, <1>3, <1>4 DEF Batcher, Flush, Tick, SeeCancelled, SeeClosed

\* An update that enters the channel weighs one, and only on its own target.
LEMMA QueueLoads ==
  ASSUME AggTypeOK, NEW u \in Updates, QueueUpdate(u)
  PROVE  /\ UNCHANGED <<table, replies, reactions, zaps>>
         /\ \/ UNCHANGED <<aggregateChan, accepted>>
            \/ /\ accepted' = [accepted EXCEPT ![u] = @ + 1]
               /\ \A us, t: InChannel(us, t)' =
                              InChannel(us, t) + IF u \in Wanted(us, t) THEN 1 ELSE 0
<1>1. UNCHANGED <<table, replies, reactions, zaps>>
  BY DEF QueueUpdate, batchVars
<1>2. CASE UNCHANGED <<aggregateChan, accepted>>
  BY <1>1, <1>2
<1>3. CASE /\ aggregateChan' = Append(aggregateChan, u)
           /\ accepted' = [accepted EXCEPT ![u] = @ + 1]
  <2>1. aggregateChan \in Seq(Updates)
    BY DEF AggTypeOK
  <2>2. \A us, t: InChannel(us, t)' = InChannel(us, t) + IF u \in Wanted(us, t) THEN 1 ELSE 0
    BY <1>3, <2>1, PositionsAppend, InChannelIs
  <2>. QED BY <1>1, <1>3, <2>2
<1>. QED BY <1>2, <1>3 DEF QueueUpdate

-------------------------------------------------------------------------------
(* Nothing is counted twice. *)

\* The updates that one load is about are finitely many.
LEMMA WantedFinite ==
  ASSUME NEW t
  PROVE  /\ IsFiniteSet(Wanted(Replies, t)) /\ IsFiniteSet(Wanted(Zaps, t))
         /\ \A r \in Reactions: IsFiniteSet(Wanted(ReactionsOf(r), t))
<1>1. ASSUME NEW W, \A w \in W: w.at \in Times,
             \A v, w \in W: v.at = w.at => v = w
      PROVE  IsFiniteSet(W)
  <2>. DEFINE f == [w \in W |-> w.at]
  <2>1. f \in Injection(W, Times)
    BY <1>1 DEF Injection, IsInjective
  <2>. QED BY <2>1, FiniteAssumption, FS_Injection
<1>2. IsFiniteSet(Wanted(Replies, t))
  BY <1>1 DEF Wanted, Replies
<1>3. IsFiniteSet(Wanted(Zaps, t))
  BY <1>1 DEF Wanted, Zaps
<1>4. ASSUME NEW r \in Reactions PROVE IsFiniteSet(Wanted(ReactionsOf(r), t))
  BY <1>1 DEF Wanted, ReactionsOf, ReactionUpdates
<1>. QED BY <1>2, <1>3, <1>4

LEMMA WantedAreUpdates ==
  ASSUME NEW t
  PROVE  /\ Wanted(Replies, t) \subseteq Updates /\ Wanted(Zaps, t) \subseteq Updates
         /\ \A r \in Reactions: Wanted(ReactionsOf(r), t) \subseteq Updates
BY DEF Wanted, ReactionsOf, Updates

LEMMA AcceptedGrows ==
  ASSUME AggTypeOK, NEW u \in Updates, accepted' = [accepted EXCEPT ![u] = @ + 1],
         NEW W \in SUBSET Updates, IsFiniteSet(W)
  PROVE  SumFunctionOnSet(accepted', W) =
           SumFunctionOnSet(accepted, W) + IF u \in W THEN 1 ELSE 0
<1>. DEFINE f == accepted
            g == [accepted EXCEPT ![u] = @ + 1]
<1>1. f \in [Updates -> Nat]
  BY DEF AggTypeOK
<1>2. /\ \A w \in W: f[w] \in Nat /\ g[w] \in Nat
      /\ \A w \in W \ {u}: g[w] = f[w]
      /\ u \in W => g[u] = f[u] + 1
  BY <1>1
<1>. HIDE DEF f, g
<1>3. CASE u \in W
  <2>1. SumFunctionOnSet(g, W) = SumFunctionOnSet(f, W) + 1
    BY <1>2, <1>3, SumChanges
  <2>. QED BY <1>3, <2>1 DEF f, g
<1>4. CASE u \notin W
  <2>1. SumFunctionOnSet(g, W) = SumFunctionOnSet(f, W)
    BY <1>2, <1>4, SumSame
  <2>2. SumFunctionOnSet(f, W) \in Nat
    BY <1>2, SumType
  <2>. QED BY <1>4, <2>1, <2>2 DEF f, g
<1>. QED BY <1>3, <1>4

\* NothingCountedTwice in terms of the loads.
LoadsWereAccepted ==
  \A t \in Targets:
    /\ ReplyLoad(t) <= SumFunctionOnSet(accepted, Wanted(Replies, t))
    /\ ZapLoad(t) <= SumFunctionOnSet(accepted, Wanted(Zaps, t))
    /\ \A r \in Reactions:
         ReactionLoad(r, t) <= SumFunctionOnSet(accepted, Wanted(ReactionsOf(r), t))

LEMMA CountedTwiceIs == LoadsWereAccepted <=> NothingCountedTwice
BY DEF LoadsWereAccepted, NothingCountedTwice, ReplyLoad, ZapLoad, ReactionLoad,
       InReactions, Interactions, Wanted

LoadsAreNumbers ==
  \A t \in Targets: /\ ReplyLoad(t) \in Nat /\ ZapLoad(t) \in Nat
                    /\ \A r \in Reactions: ReactionLoad(r, t) \in Nat

LEMMA LoadTypes == AggTypeOK => LoadsAreNumbers
<1>. SUFFICES ASSUME AggTypeOK, NEW t \in Targets
              PROVE  /\ ReplyLoad(t) \in Nat /\ ZapLoad(t) \in Nat
                     /\ \A r \in Reactions: ReactionLoad(r, t) \in Nat
  BY DEF LoadsAreNumbers
<1>1. \A us: InChannel(us, t) \in Nat
  BY ChannelCount
<1>2. /\ InMap(replies, t) \in {0, 1} /\ InMap(zaps, t) \in {0, 1}
      /\ \A r: InReactions(r, t) \in {0, 1}
  BY DEF InMap, InReactions
<1>. QED BY <1>1, <1>2, RowTypes DEF ReplyLoad, ZapLoad, ReactionLoad

LEMMA AcceptedType ==
  ASSUME AggTypeOK, NEW W \in SUBSET Updates, IsFiniteSet(W)
  PROVE  SumFunctionOnSet(accepted, W) \in Nat
<1>1. \A w \in W: accepted[w] \in Nat
  BY DEF AggTypeOK
<1>. QED BY <1>1, SumType

LEMMA BatcherKeepsLoads ==
  ASSUME AggTypeOK, LoadsWereAccepted, Batcher
  PROVE  LoadsWereAccepted'
<1>1. AggTypeOK' /\ NoLoadGrows /\ accepted' = accepted
  BY BatcherInv
<1>2. (AggTypeOK => LoadsAreNumbers)'
  BY LoadTypes, PTL
<1>. SUFFICES ASSUME NEW t \in Targets
              PROVE  /\ ReplyLoad(t)' <= SumFunctionOnSet(accepted, Wanted(Replies, t))
                     /\ ZapLoad(t)' <= SumFunctionOnSet(accepted, Wanted(Zaps, t))
                     /\ \A r \in Reactions:
                          ReactionLoad(r, t)' <= SumFunctionOnSet(accepted, Wanted(ReactionsOf(r), t))
  BY <1>1 DEF LoadsWereAccepted, Wanted, ReactionsOf, Replies, Zaps, ReactionUpdates, Placeholder
<1>3. /\ ReplyLoad(t) \in Nat /\ ZapLoad(t) \in Nat
      /\ \A r \in Reactions: ReactionLoad(r, t) \in Nat
  BY LoadTypes DEF LoadsAreNumbers
<1>4. /\ ReplyLoad(t)' \in Nat /\ ZapLoad(t)' \in Nat
      /\ \A r \in Reactions: ReactionLoad(r, t)' \in Nat
  BY <1>1, <1>2 DEF LoadsAreNumbers
<1>5. /\ SumFunctionOnSet(accepted, Wanted(Replies, t)) \in Nat
      /\ SumFunctionOnSet(accepted, Wanted(Zaps, t)) \in Nat
      /\ \A r \in Reactions: SumFunctionOnSet(accepted, Wanted(ReactionsOf(r), t)) \in Nat
  BY WantedFinite, WantedAreUpdates, AcceptedType
<1>. QED BY <1>1, <1>3, <1>4, <1>5 DEF NoLoadGrows, LoadsWereAccepted

LEMMA QueueKeepsLoads ==
  ASSUME AggTypeOK, LoadsWereAccepted, NEW u \in Updates, QueueUpdate(u)
  PROVE  LoadsWereAccepted'
<1>1. UNCHANGED <<table, replies, reactions, zaps>>
  BY QueueLoads
<1>. SUFFICES ASSUME NEW t \in Targets
              PROVE  /\ ReplyLoad(t)' <= SumFunctionOnSet(accepted', Wanted(Replies, t))
                     /\ ZapLoad(t)' <= SumFunctionOnSet(accepted', Wanted(Zaps, t))
                     /\ \A r \in Reactions:
                          ReactionLoad(r, t)' <= SumFunctionOnSet(accepted', Wanted(ReactionsOf(r), t))
  BY DEF LoadsWereAccepted, Wanted, ReactionsOf, Replies, Zaps, ReactionUpdates, Placeholder
<1>2. CASE UNCHANGED <<aggregateChan, accepted>>
  BY <1>1, <1>2
     DEF LoadsWereAccepted, ReplyLoad, ZapLoad, ReactionLoad, InMap, InReactions, InChannel
<1>3. CASE /\ accepted' = [accepted EXCEPT ![u] = @ + 1]
           /\ \A us, x: InChannel(us, x)' =
                          InChannel(us, x) + IF u \in Wanted(us, x) THEN 1 ELSE 0
  <2>1. /\ ReplyLoad(t) \in Nat /\ ZapLoad(t) \in Nat
        /\ \A r \in Reactions: ReactionLoad(r, t) \in Nat
    BY LoadTypes DEF LoadsAreNumbers
  <2>2. \A us: InChannel(us, t) \in Nat
    BY ChannelCount
  <2>3. /\ InMap(replies, t)' = InMap(replies, t) /\ InMap(replies, t) \in {0, 1}
        /\ InMap(zaps, t)' = InMap(zaps, t) /\ InMap(zaps, t) \in {0, 1}
        /\ \A r: InReactions(r, t)' = InReactions(r, t) /\ InReactions(r, t) \in {0, 1}
    BY <1>1 DEF InMap, InReactions
  <2>4. ReplyLoad(t)' = ReplyLoad(t) + IF u \in Wanted(Replies, t) THEN 1 ELSE 0
    BY <1>1, <1>3, <2>2, <2>3, RowTypes DEF ReplyLoad
  <2>5. ZapLoad(t)' = ZapLoad(t) + IF u \in Wanted(Zaps, t) THEN 1 ELSE 0
    BY <1>1, <1>3, <2>2, <2>3, RowTypes DEF ZapLoad
  <2>6. ASSUME NEW r \in Reactions
        PROVE  ReactionLoad(r, t)' = ReactionLoad(r, t) +
                                       IF u \in Wanted(ReactionsOf(r), t) THEN 1 ELSE 0
    <3>1. table[t].counts[r] \in Nat
      BY RowTypes
    <3>. QED BY <1>1, <1>3, <2>2, <2>3, <3>1 DEF ReactionLoad
  <2>7. ASSUME NEW W \in SUBSET Updates, IsFiniteSet(W)
        PROVE  /\ SumFunctionOnSet(accepted', W) =
                    SumFunctionOnSet(accepted, W) + IF u \in W THEN 1 ELSE 0
               /\ SumFunctionOnSet(accepted, W) \in Nat
    BY <1>3, <2>7, AcceptedGrows, AcceptedType
  <2>8. ReplyLoad(t)' <= SumFunctionOnSet(accepted', Wanted(Replies, t))
    <3>. DEFINE W == Wanted(Replies, t)
    <3>1. W \in SUBSET Updates /\ IsFiniteSet(W)
      BY WantedFinite, WantedAreUpdates
    <3>2. ReplyLoad(t) <= SumFunctionOnSet(accepted, W)
      BY DEF LoadsWereAccepted
    <3>3. ReplyLoad(t)' = ReplyLoad(t) + IF u \in W THEN 1 ELSE 0
      BY <2>4
    <3>. HIDE DEF W
    <3>4. ReplyLoad(t)' <= SumFunctionOnSet(accepted', W)
      BY <2>1, <2>7, <3>1, <3>2, <3>3
    <3>. QED BY <3>4 DEF W
  <2>9. ZapLoad(t)' <= SumFunctionOnSet(accepted', Wanted(Zaps, t))
    <3>. DEFINE W == Wanted(Zaps, t)
    <3>1. W \in SUBSET Updates /\ IsFiniteSet(W)
      BY WantedFinite, WantedAreUpdates
    <3>2. ZapLoad(t) <= SumFunctionOnSet(accepted, W)
      BY DEF LoadsWereAccepted
    <3>3. ZapLoad(t)' = ZapLoad(t) + IF u \in W THEN 1 ELSE 0
      BY <2>5
    <3>. HIDE DEF W
    <3>4. ZapLoad(t)' <= SumFunctionOnSet(accepted', W)
      BY <2>1, <2>7, <3>1, <3>2, <3>3
    <3>. QED BY <3>4 DEF W
  <2>10. ASSUME NEW r \in Reactions
         PROVE  ReactionLoad(r, t)' <= SumFunctionOnSet(accepted', Wanted(ReactionsOf(r), t))
    <3>. DEFINE W == Wanted(ReactionsOf(r), t)
    <3>1. W \in SUBSET Updates /\ IsFiniteSet(W)
      BY WantedFinite, WantedAreUpdates
    <3>2. ReactionLoad(r, t) <= SumFunctionOnSet(accepted, W)
      BY DEF LoadsWereAccepted
    <3>3. ReactionLoad(r, t)' = ReactionLoad(r, t) + IF u \in W THEN 1 ELSE 0
      BY <2>6
    <3>. HIDE DEF W
    <3>4. ReactionLoad(r, t)' <= SumFunctionOnSet(accepted', W)
      BY <2>1, <2>7, <3>1, <3>2, <3>3
    <3>. QED BY <3>4 DEF W
  <2>. QED BY <2>8, <2>9, <2>10
<1>. QED BY <1>2, <1>3, QueueLoads

-------------------------------------------------------------------------------
(* The theorems. *)

Balanced == \A t \in Targets: TotalMatches(table[t])

LEMMA BalancedIs == AggTypeOK => (Balanced <=> TotalIsSumOfCounts)
<1>. SUFFICES ASSUME AggTypeOK, NEW t \in Targets
              PROVE  TotalMatches(table[t]) <=> table[t].total = SumFunction(table[t].counts)
  BY DEF Balanced, TotalIsSumOfCounts
<1>1. DOMAIN table[t].counts = Reactions
  BY RowTypes
<1>. QED BY <1>1 DEF TotalMatches, SumFunction

AggInv == AggTypeOK /\ LoadsWereAccepted /\ Balanced

LEMMA AggInitInv == AggInit => AggInv
<1>. SUFFICES ASSUME AggInit PROVE AggInv
  OBVIOUS
<1>1. AggTypeOK
  BY AggTypeInit
<1>2. Balanced
  BY NoRowMatches DEF AggInit, Balanced
<1>3. LoadsWereAccepted
  <2>1. ASSUME NEW t \in Targets
        PROVE  /\ ReplyLoad(t) = 0 /\ ZapLoad(t) = 0
               /\ \A r \in Reactions: ReactionLoad(r, t) = 0
    <3>1. \A us: InChannel(us, t) = 0
      <4>1. \A W: Positions(aggregateChan, W) = {}
        BY DEF Positions, AggInit
      <4>. QED BY <4>1, FS_EmptySet, InChannelIs
    <3>2. /\ InMap(replies, t) = 0 /\ InMap(zaps, t) = 0
          /\ \A r \in Reactions: InReactions(r, t) = 0
      BY EmptyMapType DEF InMap, InReactions, AggInit
    <3>3. /\ table[t].replies = 0 /\ table[t].zaps = 0
          /\ \A r \in Reactions: table[t].counts[r] = 0
      BY DEF AggInit, NoRow
    <3>. QED BY <3>1, <3>2, <3>3 DEF ReplyLoad, ZapLoad, ReactionLoad
  <2>2. ASSUME NEW t \in Targets
        PROVE  /\ SumFunctionOnSet(accepted, Wanted(Replies, t)) \in Nat
               /\ SumFunctionOnSet(accepted, Wanted(Zaps, t)) \in Nat
               /\ \A r \in Reactions: SumFunctionOnSet(accepted, Wanted(ReactionsOf(r), t)) \in Nat
    BY <1>1, WantedFinite, WantedAreUpdates, AcceptedType
  <2>. QED BY <2>1, <2>2 DEF LoadsWereAccepted
<1>. QED BY <1>1, <1>2, <1>3 DEF AggInv

LEMMA AggStepInv == AggInv /\ [AggNext]_aggVars => AggInv'
<1>. SUFFICES ASSUME AggInv, [AggNext]_aggVars PROVE AggInv'
  OBVIOUS
<1>0. AggTypeOK /\ LoadsWereAccepted /\ Balanced
  BY DEF AggInv
<1>1. ASSUME NEW u \in Updates, QueueUpdate(u) PROVE AggInv'
  <2>1. Balanced'
    BY <1>0, <1>1, QueueLoads DEF Balanced
  <2>. QED BY <1>0, <1>1, <2>1, QueueType, QueueKeepsLoads DEF AggInv
<1>2. CASE Batcher
  <2>1. Balanced'
    BY <1>0, <1>2, BatcherInv DEF Balanced
  <2>. QED BY <1>0, <1>2, <2>1, BatcherInv, BatcherKeepsLoads DEF AggInv
<1>3. CASE Cancel \/ CloseAggregates \/ UNCHANGED aggVars
  <2>1. AggTypeOK'
    BY <1>0, <1>3 DEF AggTypeOK, Cancel, CloseAggregates, aggVars, channelVars, batchVars
  <2>2. UNCHANGED <<table, replies, reactions, zaps, aggregateChan, accepted>>
    BY <1>3 DEF Cancel, CloseAggregates, aggVars, channelVars, batchVars
  <2>3. \A t \in Targets: /\ ReplyLoad(t)' = ReplyLoad(t) /\ ZapLoad(t)' = ZapLoad(t)
                          /\ \A r \in Reactions: ReactionLoad(r, t)' = ReactionLoad(r, t)
    <3>1. \A us, t: InChannel(us, t)' = InChannel(us, t)
      BY <2>2, InChannelIs
    <3>. QED BY <2>2, <3>1 DEF ReplyLoad, ZapLoad, ReactionLoad, InMap, InReactions
  <2>4. LoadsWereAccepted'
    BY <1>0, <2>2, <2>3
       DEF LoadsWereAccepted, Wanted, ReactionsOf, Replies, Zaps, ReactionUpdates, Placeholder
  <2>5. Balanced'
    BY <1>0, <2>2 DEF Balanced
  <2>. QED BY <2>1, <2>4, <2>5 DEF AggInv
<1>. QED BY <1>1, <1>2, <1>3 DEF AggNext, Queue

\* The aggregate path keeps its types, for any workers that queue updates and a
\* Stop at any moment (engine.go:714-884).
THEOREM AggregateTypes == AggSpec => []AggTypeOK
<1>1. AggInv => AggTypeOK
  BY DEF AggInv
<1>. QED BY <1>1, AggInitInv, AggStepInv, PTL DEF AggSpec

\* For any number of notes, reactions and failing writes, what the table shows,
\* with what waits in the maps and the channel, never exceeds what was accepted:
\* the batcher counts nothing twice (processAggregates, engine.go:820-883).
THEOREM CountedOnce == AggSpec => []NothingCountedTwice
<1>1. AggInv => NothingCountedTwice
  BY CountedTwiceIs DEF AggInv
<1>. QED BY <1>1, AggInitInv, AggStepInv, PTL DEF AggSpec

\* The total of a row is the sum of its reaction counts, whichever batches fail
\* half-way (BatchIncrementReactions, aggregates.go:291-315).
THEOREM TotalsAddUp == AggSpec => []TotalIsSumOfCounts
<1>1. AggInv => TotalIsSumOfCounts
  BY BalancedIs DEF AggInv
<1>. QED BY <1>1, AggInitInv, AggStepInv, PTL DEF AggSpec
===============================================================================
