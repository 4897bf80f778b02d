---------------------------- MODULE AggregateStore ----------------------------
(***************************************************************************)
(* The aggregates table (internal/storage/aggregates.go) as a function from *)
(* the events that are replied to, reacted to or zapped to their rows.      *)
(*                                                                         *)
(* Zap amounts are counted in units of the engine's placeholder amount      *)
(* (1000 sats, engine.go:779), and "json" says whether the column           *)
(* reaction_counts_json holds a document: a row that an INSERT of a reply   *)
(* or a zap creates has NULL there.                                        *)
(***************************************************************************)
EXTENDS Naturals, FiniteSets

CONSTANTS
  Targets,   \* ids of the events that interactions refer to
  Reactions  \* reaction contents ("+", an emoji)

Rows ==
  [exists: BOOLEAN, json: BOOLEAN, replies: Nat, total: Nat,
   counts: [Reactions -> Nat], zaps: Nat, last: Nat]

NoRow ==
  [exists |-> FALSE, json |-> FALSE, replies |-> 0, total |-> 0,
   counts |-> [r \in Reactions |-> 0], zaps |-> 0, last |-> 0]

Later(s, t) == IF s >= t THEN s ELSE t

\* INSERT ... ON CONFLICT DO UPDATE SET reply_count = reply_count + 1
AddReply(row, at) ==
  [row EXCEPT !.exists = TRUE, !.replies = @ + 1, !.last = Later(@, at)]

AddZap(row, sats, at) ==
  [row EXCEPT !.exists = TRUE, !.zaps = @ + sats, !.last = Later(@, at)]

\* GetAggregate scans the row into non-pointer fields: it returns an error when
\* there is no row and when reaction_counts_json is NULL.
GetAggregateFails(row) == ~ (row.exists /\ row.json)

\* Variant of AddReactions: the total grows once per target, not per reaction.
AddReactionsOnce(row, updates) ==
  [(IF GetAggregateFails(row) THEN NoRow ELSE row) EXCEPT
     !.exists = TRUE,
     !.json   = TRUE,
     !.counts = [r \in Reactions |-> IF r \in DOMAIN updates THEN @[r] + 1 ELSE @[r]],
     !.total  = @ + 1]

\* The reactions of one target are applied to the aggregate that was read, or to
\* a new one when the read failed, and SaveAggregate overwrites every column.
AddReactions(row, updates) ==
  LET agg   == IF GetAggregateFails(row) THEN NoRow ELSE row
      times == {updates[r] : r \in DOMAIN updates} \union {agg.last}
  IN  [agg EXCEPT
         !.exists = TRUE,
         !.json   = TRUE,
         !.counts = [r \in Reactions |-> IF r \in DOMAIN updates THEN @[r] + 1 ELSE @[r]],
         !.total  = @ + Cardinality(DOMAIN updates),
         !.last   = CHOOSE t \in times: \A s \in times: s <= t]

\* One transaction: either every target's row changes or none.
BatchIncrementReplies(table, updates) ==
  [t \in Targets |->
     IF t \in DOMAIN updates THEN AddReply(table[t], updates[t]) ELSE table[t]]

BatchAddZaps(table, updates) ==
  [t \in Targets |->
     IF t \in DOMAIN updates
     THEN AddZap(table[t], updates[t].sats, updates[t].at)
     ELSE table[t]]

\* The reads and writes go around the transaction the function opens: when it
\* fails half-way the targets in "done" keep what was saved.  A read that fails,
\* for the targets in "unread", counts as a row that is not there.
BatchIncrementReactions(table, updates, done, unread) ==
  [t \in Targets |->
     IF t \in done
     THEN AddReactions(IF t \in unread THEN NoRow ELSE table[t], updates[t])
     ELSE table[t]]
===============================================================================
