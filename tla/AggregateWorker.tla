---------------------------- MODULE AggregateWorker ----------------------------
(***************************************************************************)
(* The asynchronous aggregate path of the sync engine                       *)
(* (internal/sync/engine.go:714-884): event workers put updates into a      *)
(* bounded channel without ever waiting, and one goroutine, the batcher,    *)
(* accumulates them in three maps and writes the maps to the aggregates     *)
(* table every 200 ms, when the engine's context is cancelled and when the  *)
(* channel is closed.                                                      *)
(*                                                                         *)
(* "accepted" is a history variable: how often an update entered the        *)
(* channel.  "writeFailed" is one too: some batch write returned an error.  *)
(***************************************************************************)
EXTENDS AggregateStore, Sequences, Functions, FiniteSetsExt, TLC

CONSTANTS
  AggCap,      \* capacity of aggregateChan (1000 in the engine)
  Times,       \* created_at timestamps of interactions
  WritesMayFail, \* a read or write of a batch may fail although the context is live
  MaxAccepted  \* bound: updates accepted in a behaviour

ASSUME AggCapAssumption == AggCap \in Nat \ {0}
ASSUME TimesAssumption ==
  Times \subseteq Nat /\ MaxAccepted \in Nat /\ WritesMayFail \in BOOLEAN
\* A content has a limited size and a timestamp 64 bits: both can be counted over.
ASSUME FiniteAssumption == IsFiniteSet(Times) /\ IsFiniteSet(Reactions)

VARIABLES
  ctxDone,      \* the engine's context is cancelled
  aggregateChan,
  aggClosed,    \* Stop has closed aggregateChan
  replies,      \* the batcher's maps
  reactions,
  zaps,
  batcher,      \* "select", or the map a flush writes next, or "exited"
  leaving,      \* the flush in progress is the final one
  table,        \* the aggregates table
  panicked,     \* a goroutine panicked: the process is gone
  accepted,
  writeFailed

channelVars == <<aggregateChan, aggClosed, accepted>>
batchVars   == <<replies, reactions, zaps>>
aggVars     == <<ctxDone, channelVars, batchVars, batcher, leaving, table, panicked, writeFailed>>

\* The amount queueZapUpdate uses for every zap, in AggregateStore's unit.
Placeholder == 1

Replies    == [type: {"reply"}, target: Targets, at: Times]
ReactionUpdates == [type: {"reaction"}, target: Targets, reaction: Reactions, at: Times]
Zaps       == [type: {"zap"}, target: Targets, sats: {Placeholder}, at: Times]
Updates    == Replies \union ReactionUpdates \union Zaps

EmptyMap == << >>

AggInit ==
  /\ ctxDone = FALSE
  /\ aggregateChan = << >>
  /\ aggClosed = FALSE
  /\ replies = EmptyMap /\ reactions = EmptyMap /\ zaps = EmptyMap
  /\ batcher = "select"
  /\ leaving = FALSE
  /\ table = [t \in Targets |-> NoRow]
  /\ panicked = FALSE
  /\ accepted = [u \in Updates |-> 0]
  /\ writeFailed = FALSE

-------------------------------------------------------------------------------
(* The workers' side. *)

\* Variant of QueueUpdate: the channel has no capacity.
QueueWithoutLimit(u) ==
  /\ ~aggClosed
  /\ aggregateChan' = Append(aggregateChan, u)
  /\ accepted' = [accepted EXCEPT ![u] = @ + 1]
  /\ UNCHANGED <<ctxDone, aggClosed, batchVars, batcher, leaving, table, panicked,
                 writeFailed>>

\* A select with a default: a full channel drops the update, and a closed one
\* panics, default or not.
QueueUpdate(u) ==
  /\ UNCHANGED <<ctxDone, aggClosed, batchVars, batcher, leaving, table, writeFailed>>
  /\ IF aggClosed
     THEN panicked' = TRUE /\ UNCHANGED <<aggregateChan, accepted>>
     ELSE /\ UNCHANGED panicked
          /\ IF Len(aggregateChan) < AggCap
             THEN /\ aggregateChan' = Append(aggregateChan, u)
                  /\ accepted' = [accepted EXCEPT ![u] = @ + 1]
             ELSE UNCHANGED <<aggregateChan, accepted>>

-------------------------------------------------------------------------------
(* The batcher. *)

\* An assignment to an element of a map.
Put(map, key, value) ==
  [k \in DOMAIN map \union {key} |-> IF k = key THEN value ELSE map[k]]

\* The map a reply or a zap is kept in has one entry per target, the map of
\* reactions one per target and reaction: a later update replaces an earlier one.
Accumulate(u) ==
  CASE u.type = "reply" ->
         /\ replies' = Put(replies, u.target, u.at)
         /\ UNCHANGED <<reactions, zaps>>
    [] u.type = "reaction" ->
         LET old == IF u.target \in DOMAIN reactions THEN reactions[u.target] ELSE EmptyMap
         IN  /\ reactions' = Put(reactions, u.target, Put(old, u.reaction, u.at))
             /\ UNCHANGED <<replies, zaps>>
    [] u.type = "zap" ->
         /\ zaps' = Put(zaps, u.target, [sats |-> u.sats, at |-> u.at])
         /\ UNCHANGED <<replies, reactions>>

Receive ==
  /\ batcher = "select"
  /\ aggregateChan # << >>
  /\ Accumulate(Head(aggregateChan))
  /\ aggregateChan' = Tail(aggregateChan)
  /\ UNCHANGED <<ctxDone, aggClosed, accepted, batcher, leaving, table, panicked, writeFailed>>

\* Variant of FirstOf: a flush of zaps alone does not begin.
FirstOfTwo(rs, xs, zs, final) ==
  IF rs # EmptyMap THEN "replies"
  ELSE IF xs # EmptyMap THEN "reactions"
  ELSE IF final THEN "exited" ELSE "select"

\* A flush writes the maps that are not empty, replies first, then reactions,
\* then zaps; FirstOf is the first of the maps left to write.
FirstOf(rs, xs, zs, final) ==
  IF rs # EmptyMap THEN "replies"
  ELSE IF xs # EmptyMap THEN "reactions"
  ELSE IF zs # EmptyMap THEN "zaps"
  ELSE IF final THEN "exited" ELSE "select"

StartFlush(final) ==
  /\ batcher = "select"
  /\ batcher' = FirstOf(replies, reactions, zaps, final)
  /\ leaving' = final
  /\ UNCHANGED <<ctxDone, channelVars, batchVars, table, panicked, writeFailed>>

Tick == StartFlush(FALSE) /\ batcher' # "select"

\* Variant of SeeCancelled: the case flushes but does not return.
SeeCancelledAndStay == ctxDone /\ StartFlush(FALSE)

SeeCancelled == ctxDone /\ StartFlush(TRUE)

SeeClosed == aggClosed /\ aggregateChan = << >> /\ StartFlush(TRUE)

\* A transaction on a cancelled context does not begin; on a live one it may
\* still fail.  Whatever the outcome, the map is replaced by an empty one.
WriteOutcomes ==
  IF ctxDone THEN {FALSE} ELSE IF WritesMayFail THEN BOOLEAN ELSE {TRUE}

\* Variant of FlushReplies: the map is kept after the write.
FlushRepliesAndKeep ==
  /\ batcher = "replies"
  /\ \E ok \in WriteOutcomes:
       /\ table' = IF ok THEN BatchIncrementReplies(table, replies) ELSE table
       /\ writeFailed' = (writeFailed \/ ~ok)
  /\ batcher' = FirstOf(EmptyMap, reactions, zaps, leaving)
  /\ UNCHANGED <<ctxDone, channelVars, batchVars, leaving, panicked>>

FlushReplies ==
  /\ batcher = "replies"
  /\ \E ok \in WriteOutcomes:
       /\ table' = IF ok THEN BatchIncrementReplies(table, replies) ELSE table
       /\ writeFailed' = (writeFailed \/ ~ok)
  /\ replies' = EmptyMap
  /\ batcher' = FirstOf(EmptyMap, reactions, zaps, leaving)
  /\ UNCHANGED <<ctxDone, channelVars, reactions, zaps, leaving, panicked>>

\* The targets whose aggregate was saved before the write of the map ended.
SavedTargets(ok) ==
  IF ok THEN {DOMAIN reactions} ELSE IF ctxDone THEN {{}} ELSE SUBSET DOMAIN reactions

\* Those whose aggregate could not be read although it was saved afterwards.
UnreadTargets(done) == IF WritesMayFail THEN SUBSET done ELSE {{}}

FlushReactions ==
  /\ batcher = "reactions"
  /\ \E ok \in WriteOutcomes: \E done \in SavedTargets(ok): \E unread \in UnreadTargets(done):
       /\ table' = BatchIncrementReactions(table, reactions, done, unread)
       /\ writeFailed' = (writeFailed \/ ~ok)
  /\ reactions' = EmptyMap
  /\ batcher' = FirstOf(EmptyMap, EmptyMap, zaps, leaving)
  /\ UNCHANGED <<ctxDone, channelVars, replies, zaps, leaving, panicked>>

FlushZaps ==
  /\ batcher = "zaps"
  /\ \E ok \in WriteOutcomes:
       /\ table' = IF ok THEN BatchAddZaps(table, zaps) ELSE table
       /\ writeFailed' = (writeFailed \/ ~ok)
  /\ zaps' = EmptyMap
  /\ batcher' = FirstOf(EmptyMap, EmptyMap, EmptyMap, leaving)
  /\ UNCHANGED <<ctxDone, channelVars, replies, reactions, leaving, panicked>>

Flush == FlushReplies \/ FlushReactions \/ FlushZaps

Batcher == Receive \/ Tick \/ SeeCancelled \/ SeeClosed \/ Flush

-------------------------------------------------------------------------------
(* The path on its own: any workers, and a Stop at any moment.               *)

Queue ==
  /\ SumFunction(accepted) < MaxAccepted
  /\ \E u \in Updates: QueueUpdate(u)

Cancel ==
  /\ ~ctxDone
  /\ ctxDone' = TRUE
  /\ UNCHANGED <<channelVars, batchVars, batcher, leaving, table, panicked, writeFailed>>

CloseAggregates ==
  /\ ctxDone /\ ~aggClosed
  /\ aggClosed' = TRUE
  /\ UNCHANGED <<ctxDone, aggregateChan, accepted, batchVars, batcher, leaving, table,
                 panicked, writeFailed>>

AggNext ==
  /\ ~panicked
  /\ (Queue \/ Batcher \/ Cancel \/ CloseAggregates)

\* The runtime picks at random among the ready cases of a select, so a case that
\* stays ready is picked; the cancellation, which a flush hides again and again, is
\* picked in the end.  A flush that has begun goes on.
AggFairness ==
  /\ WF_aggVars(~panicked /\ Receive)
  /\ WF_aggVars(~panicked /\ Tick)
  /\ SF_aggVars(~panicked /\ SeeCancelled)
  /\ WF_aggVars(~panicked /\ Flush)

AggSpec == AggInit /\ [][AggNext]_aggVars /\ AggFairness
===============================================================================
