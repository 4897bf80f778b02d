--------------------------- MODULE EventCacheMachine ---------------------------
(***************************************************************************)
(* The life of one event cache: any sequence of Add and Clear calls, with   *)
(* the lookups (Contains, Size) between them.                              *)
(***************************************************************************)
EXTENDS EventCache, Sequences

VARIABLE ring  \* the cache: its ring of slots, its lookup set and its write position

Init == ring = NewEventCache

AddId(id) == ring' = Add(ring, id)

ClearAll == ring' = Clear(ring)

Next == ClearAll \/ \E id \in Ids: AddId(id)

Spec == Init /\ [][Next]_ring

TypeOK == ring \in EventCaches

-------------------------------------------------------------------------------
(* The ring and the set agree. *)

Filled(k) == {i \in Slots: k.keys[i] # NoId}

\* The lookup set holds exactly the ids in the ring: an id that Contains
\* reports can still be evicted, and an id in the ring is never reported absent
\* (Add, eventcache.go:32-46).
SetMatchesRing == ring.cache = {ring.keys[i]: i \in Filled(ring)}

\* No id takes two slots of the ring: otherwise evicting one of them would make
\* Contains deny an id the ring still holds (the early return of Add).
NoDuplicateSlots ==
  \A i, j \in Filled(ring): ring.keys[i] = ring.keys[j] => i = j

\* The slots fill from 0 up, and until they are all full the next free one is
\* at the write position: Add never overwrites a slot while another is empty.
FillsInOrder == Filled(ring) = Slots \/ Filled(ring) = 0 .. ring.position - 1

\* The cache never holds more than its capacity (Add evicts before it inserts).
Bounded == Size(ring) <= MaxSize

-------------------------------------------------------------------------------
(* The ring, read from the oldest id to the newest, is a recent window. *)

WindowOf(k) ==
  IF Filled(k) = Slots
  THEN [n \in 1 .. MaxSize |-> k.keys[(k.position + n - 1) % MaxSize]]
  ELSE [n \in 1 .. k.position |-> k.keys[n - 1]]

Abstract == INSTANCE RecentWindow WITH window <- WindowOf(ring)

\* The ring implements the window of the MaxSize ids added last: the id an Add
\* evicts is the one added longest ago, and Clear forgets everything.  That is what
\* Add does (eventcache.go:27-50); it is not the LRU cache of the comment above it
\* (eventcache.go:7; also engine.go:34, :536), which would evict the id used longest
\* ago: Add returns at once for an id it knows, and Contains moves nothing, so an id
\* that comes again and again leaves as soon as MaxSize others came after its first.
ImplementsRecentWindow == Abstract!Spec
===============================================================================
