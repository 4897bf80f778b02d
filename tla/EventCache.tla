------------------------------ MODULE EventCache ------------------------------
(***************************************************************************)
(* The deduplication cache of the sync engine (internal/sync/eventcache.go) *)
(* as a value: a set of ids for lookup and a ring of MaxSize slots that     *)
(* remembers in which order the ids came.  The sync engine and the cache's  *)
(* own state machine (EventCacheMachine) use the same operators.            *)
(*                                                                         *)
(* Every method of the code holds the cache's mutex for its whole body, so  *)
(* each is one atomic operator here.                                       *)
(***************************************************************************)
EXTENDS Naturals, FiniteSets

CONSTANTS
  Ids,      \* event ids
  MaxSize,  \* capacity of the cache (5000 in the engine)
  NoId      \* the empty string: a slot that was never filled

ASSUME MaxSizeAssumption == MaxSize \in Nat \ {0}
ASSUME NoIdAssumption == NoId \notin Ids

Slots == 0 .. MaxSize - 1

EventCaches ==
  [cache: SUBSET Ids, keys: [Slots -> Ids \union {NoId}], position: Slots]

NewEventCache ==
  [cache |-> {}, keys |-> [i \in Slots |-> NoId], position |-> 0]

Contains(c, id) == id \in c.cache

Size(c) == Cardinality(c.cache)

\* Variants of Evicted: nothing leaves; the oldest leaves one id too late.
EvictsNothing(c) == {}
EvictsLate(c) == IF Size(c) > MaxSize THEN {c.keys[c.position]} \ {NoId} ELSE {}

\* The ids that leave the cache when a new one comes: the one in the slot that
\* the ring is about to reuse, once the cache is full.
Evicted(c) == IF Size(c) >= MaxSize THEN {c.keys[c.position]} \ {NoId} ELSE {}

\* Variants of Add: the position runs past the last slot; an id that is known is
\* added once more.
AddWithoutWrap(c, id) ==
  IF Contains(c, id) THEN c
  ELSE [cache    |-> (c.cache \ Evicted(c)) \union {id},
        keys     |-> [c.keys EXCEPT ![c.position] = id],
        position |-> c.position + 1]

AddAgain(c, id) ==
  [cache    |-> (c.cache \ Evicted(c)) \union {id},
   keys     |-> [c.keys EXCEPT ![c.position] = id],
   position |-> (c.position + 1) % MaxSize]

Add(c, id) ==
  IF Contains(c, id) THEN c
  ELSE [cache    |-> (c.cache \ Evicted(c)) \union {id},
        keys     |-> [c.keys EXCEPT ![c.position] = id],
        position |-> (c.position + 1) % MaxSize]

Clear(c) == NewEventCache
===============================================================================
