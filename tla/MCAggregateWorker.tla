--------------------------- MODULE MCAggregateWorker ---------------------------
(***************************************************************************)
(* The properties of the aggregate path, and the instance TLC checks.       *)
(***************************************************************************)
EXTENDS AggregateWorker

AggTypeOK ==
  /\ ctxDone \in BOOLEAN /\ aggClosed \in BOOLEAN /\ leaving \in BOOLEAN
  /\ panicked \in BOOLEAN /\ writeFailed \in BOOLEAN
  /\ aggregateChan \in Seq(Updates) /\ Len(aggregateChan) <= AggCap
  /\ replies \in UNION {[S -> Times] : S \in SUBSET Targets}
  /\ zaps \in UNION {[S -> [sats: {Placeholder}, at: Times]] : S \in SUBSET Targets}
  /\ DOMAIN reactions \subseteq Targets
  /\ \A t \in DOMAIN reactions:
       reactions[t] \in UNION {[S -> Times] : S \in (SUBSET Reactions) \ {{}}}
  /\ batcher \in {"select", "replies", "reactions", "zaps", "exited"}
  /\ table \in [Targets -> Rows]
  /\ accepted \in [Updates -> Nat]

-------------------------------------------------------------------------------
Interactions(us, t) == SumFunctionOnSet(accepted, {u \in us: u.target = t})

InChannel(us, t) ==
  Cardinality({i \in DOMAIN aggregateChan:
                 aggregateChan[i] \in us /\ aggregateChan[i].target = t})

InMap(map, t) == IF t \in DOMAIN map THEN 1 ELSE 0

ReactionsOf(r) == {u \in ReactionUpdates: u.reaction = r}

\* No interaction is counted twice: what the table shows of a target's replies,
\* zaps and of each reaction, with what waits in the batcher's maps and in the
\* channel, never exceeds what was accepted - over ticks, failed writes, final
\* flushes and half-saved batches (processAggregates, engine.go:820-883).
NothingCountedTwice ==
  \A t \in Targets:
    /\ table[t].replies + InMap(replies, t) + InChannel(Replies, t)
         <= Interactions(Replies, t)
    /\ table[t].zaps + InMap(zaps, t) + InChannel(Zaps, t)
         <= Interactions(Zaps, t)
    /\ \A r \in Reactions:
         table[t].counts[r]
           + (IF t \in DOMAIN reactions THEN InMap(reactions[t], r) ELSE 0)
           + InChannel(ReactionsOf(r), t)
         <= Interactions(ReactionsOf(r), t)

\* The total that a page shows is the sum of the per-reaction counts, although
\* the two are written by different code paths (BatchIncrementReactions,
\* aggregates.go:291-315) and replies and zaps rewrite the same rows.
TotalIsSumOfCounts ==
  \A t \in Targets: table[t].total = SumFunction(table[t].counts)

\* An accepted update does not wait for ever: the channel and the maps drain,
\* unless the batcher leaves because the engine stops (the 200 ms tick).
Waiting == aggregateChan # << >> \/ <<replies, reactions, zaps>> # <<EmptyMap, EmptyMap, EmptyMap>>

UpdatesDrain == Waiting ~> (~Waiting \/ ctxDone \/ panicked)

\* A cancelled engine's batcher exits: Stop's wg.Wait does not hang on it, even
\* while updates keep coming (engine.go:851-858).
CancelledBatcherExits == ctxDone ~> (batcher = "exited" \/ panicked)

-------------------------------------------------------------------------------
(* What the documents say and the code does not do. *)

\* docs/architecture.md: a target's interactions are "Count and sum"-ed into its
\* row "on ingestion".  When nothing waits and no write failed, the reply count
\* is the number of accepted replies.
CountsCatchUp ==
  (~Waiting /\ ~writeFailed) =>
    \A t \in Targets: table[t].replies = Interactions(Replies, t)

\* "BatchIncrementReactions increments reaction counts for multiple events"
\* (aggregates.go:279): writing reactions leaves replies and zaps alone.
ReactionsKeepOtherCounts ==
  [][FlushReactions => \A t \in Targets: /\ table'[t].replies = table[t].replies
                                         /\ table'[t].zaps = table[t].zaps]_aggVars
===============================================================================
