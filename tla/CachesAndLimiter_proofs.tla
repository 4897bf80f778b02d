------------------------ MODULE CachesAndLimiter_proofs ------------------------
(***************************************************************************)
(* Three small components that keep something bounded, each with its own    *)
(* specification and no state in common with the others.                    *)
(*                                                                          *)
(* The deduplication cache of the client, for every capacity and every set  *)
(* of ids: its ring and its lookup set always agree, it stays within its    *)
(* capacity, and it implements the abstract window of the ids added last.   *)
(*                                                                          *)
(* The other two are what a server can put in front of its handlers, for    *)
(* any number of goroutines in the middle of a call: the response cache,    *)
(* then the rate limiter.                                                   *)
(*                                                                          *)
(* The cache: the values fit, and a fresh one leaves only for the reasons   *)
(* named.  What a reader found under the read lock is still true under the  *)
(* write lock if the address says that it is the same entry, because a new  *)
(* entry gets an address no reader holds.                                   *)
(*                                                                          *)
(* The limiter: a balance kept for each client.  The tokens in its bucket,  *)
(* and the time since its last refill, are what it may still get; so is one *)
(* request for each caller that holds a bucket which has left the table.    *)
(* What was granted and what may still be granted never exceed the full     *)
(* buckets the client was given and the time that has passed.               *)
(***************************************************************************)
EXTENDS EventCacheMachine, ResponseCache, RateLimiter, Sums_proofs, SequenceTheorems

-------------------------------------------------------------------------------
(* The deduplication cache.                                                 *)

\* The number of ids is the capacity once every slot has been used, and the
\* write position before.
SizeMatchesRing ==
  /\ IsFiniteSet(ring.cache)
  /\ Size(ring) = IF Filled(ring) = Slots THEN MaxSize ELSE ring.position

IInv ==
  /\ TypeOK
  /\ SetMatchesRing
  /\ NoDuplicateSlots
  /\ FillsInOrder
  /\ SizeMatchesRing

-------------------------------------------------------------------------------
LEMMA NextPosition ==
  ASSUME NEW p \in Slots
  PROVE  (p + 1) % MaxSize = IF p = MaxSize - 1 THEN 0 ELSE p + 1
<1>. USE MaxSizeAssumption DEF Slots
<1>1. CASE p = MaxSize - 1
  BY <1>1
<1>2. CASE p # MaxSize - 1
  <2>1. p + 1 \in 0 .. MaxSize - 1
    BY <1>2
  <2>. QED BY <2>1, <1>2
<1>. QED BY <1>1, <1>2

\* The cache is full exactly when no slot is empty.
LEMMA FullMeansFilled ==
  ASSUME IInv
  PROVE  /\ Size(ring) >= MaxSize <=> Filled(ring) = Slots
         /\ Filled(ring) # Slots => ring.keys[ring.position] = NoId /\ ring.position < MaxSize
<1>1. ring.position \in 0 .. MaxSize - 1
  BY DEF IInv, TypeOK, EventCaches, Slots
<1>2. Filled(ring) # Slots => ring.keys[ring.position] = NoId
  BY <1>1 DEF IInv, TypeOK, EventCaches, FillsInOrder, Filled, Slots
<1>3. Size(ring) = IF Filled(ring) = Slots THEN MaxSize ELSE ring.position
  BY DEF IInv, SizeMatchesRing
<1>4. MaxSize \in Nat /\ ring.position < MaxSize /\ ring.position \in Nat
  BY <1>1, MaxSizeAssumption
<1>. DEFINE size == Size(ring)
            position == ring.position
            filled == Filled(ring) = Slots
            empty == ring.keys[position] = NoId
<1>5. /\ position \in Nat /\ position < MaxSize /\ MaxSize \in Nat
      /\ size = IF filled THEN MaxSize ELSE position
      /\ ~filled => empty
  BY <1>2, <1>3, <1>4
<1>. HIDE DEF size, position, filled, empty
<1>6. /\ size >= MaxSize <=> filled
      /\ ~filled => empty /\ position < MaxSize
  BY <1>5
<1>. QED BY <1>6 DEF size, position, filled, empty

-------------------------------------------------------------------------------
LEMMA EmptyCache == ring = NewEventCache => IInv
<1>. SUFFICES ASSUME ring = NewEventCache PROVE IInv
  OBVIOUS
<1>. USE MaxSizeAssumption DEF NewEventCache
<1>1. TypeOK
  BY DEF TypeOK, EventCaches, Slots
<1>2. Filled(ring) = {} /\ Slots # {}
  <2>1. \A i \in Slots: ring.keys[i] = NoId
    OBVIOUS
  <2>2. 0 \in Slots
    BY DEF Slots
  <2>. QED BY <2>1, <2>2 DEF Filled
<1>3. SetMatchesRing /\ NoDuplicateSlots
  BY <1>2 DEF SetMatchesRing, NoDuplicateSlots
<1>4. FillsInOrder
  BY <1>2 DEF FillsInOrder
<1>5. SizeMatchesRing
  BY <1>2, FS_EmptySet DEF SizeMatchesRing, Size
<1>. QED BY <1>1, <1>3, <1>4, <1>5 DEF IInv

\* An id that is added while the cache has room goes to a slot never used.
LEMMA AddWithRoom ==
  ASSUME IInv, NEW id \in Ids, id \notin ring.cache, Filled(ring) # Slots, ring' = Add(ring, id)
  PROVE  IInv'
<1>. USE MaxSizeAssumption, NoIdAssumption
<1>1. ring \in EventCaches /\ ring.position \in 0 .. MaxSize - 1 /\ ring.position \in Slots
  BY DEF IInv, TypeOK, EventCaches, Slots
<1>2. ring.keys[ring.position] = NoId /\ ~ (Size(ring) >= MaxSize)
  BY FullMeansFilled
<1>3. ring' = [cache |-> ring.cache \union {id},
            keys |-> [ring.keys EXCEPT ![ring.position] = id],
            position |-> (ring.position + 1) % MaxSize]
  BY <1>2 DEF Add, Contains, Evicted
<1>4. /\ ring.position = MaxSize - 1 => ring'.position = 0
      /\ ring.position # MaxSize - 1 => ring'.position = ring.position + 1
      /\ ring'.position \in Slots
  BY <1>1, <1>3, NextPosition DEF Slots
<1>5. Filled(ring)' = Filled(ring) \union {ring.position} /\ ring.position \notin Filled(ring)
  BY <1>1, <1>2, <1>3 DEF Filled, EventCaches
<1>6. Filled(ring) = 0 .. ring.position - 1
  BY DEF IInv, FillsInOrder
<1>7. TypeOK'
  BY <1>1, <1>3, <1>4 DEF TypeOK, EventCaches
<1>8. SetMatchesRing'
  <2>1. \A i \in Filled(ring): ring'.keys[i] = ring.keys[i]
    BY <1>1, <1>3, <1>5 DEF EventCaches, Filled
  <2>2. ring'.keys[ring.position] = id
    BY <1>1, <1>3 DEF EventCaches
  <2>3. ring'.cache = {ring.keys[i] : i \in Filled(ring)} \union {id}
    BY <1>3 DEF IInv, SetMatchesRing
  <2>. QED BY <1>5, <2>1, <2>2, <2>3 DEF SetMatchesRing
<1>9. NoDuplicateSlots'
  <2>1. \A i \in Filled(ring): ring'.keys[i] = ring.keys[i] /\ ring'.keys[i] # id
    BY <1>1, <1>3, <1>5 DEF EventCaches, Filled, IInv, SetMatchesRing
  <2>2. ring'.keys[ring.position] = id
    BY <1>1, <1>3 DEF EventCaches
  <2>. QED BY <1>5, <2>1, <2>2 DEF IInv, NoDuplicateSlots
<1>10. FillsInOrder'
  <2>1. CASE ring.position = MaxSize - 1
    BY <2>1, <1>1, <1>5, <1>6 DEF FillsInOrder, Slots
  <2>2. CASE ring.position # MaxSize - 1
    BY <2>2, <1>1, <1>4, <1>5, <1>6 DEF FillsInOrder, Slots
  <2>. QED BY <2>1, <2>2
<1>11. SizeMatchesRing'
  <2>1. IsFiniteSet(ring'.cache) /\ Cardinality(ring'.cache) = ring.position + 1
    <3>1. IsFiniteSet(ring.cache) /\ Cardinality(ring.cache) = ring.position
      BY DEF IInv, SizeMatchesRing, Size
    <3>2. ring'.cache = ring.cache \union {id}
      BY <1>3
    <3>3. /\ IsFiniteSet(ring.cache \union {id})
          /\ Cardinality(ring.cache \union {id}) = Cardinality(ring.cache) + 1
      BY <3>1, FS_AddElement
    <3>. QED BY <3>1, <3>2, <3>3
  <2>2. CASE ring.position = MaxSize - 1
    <3>1. Filled(ring)' = Slots
      BY <2>2, <1>1, <1>5, <1>6 DEF Slots
    <3>. QED BY <3>1, <2>1, <2>2 DEF SizeMatchesRing, Size
  <2>3. CASE ring.position # MaxSize - 1
    <3>1. MaxSize - 1 \in Slots /\ MaxSize - 1 \notin Filled(ring)'
      BY <2>3, <1>1, <1>5, <1>6 DEF Slots
    <3>. QED BY <3>1, <2>1, <2>3, <1>4 DEF SizeMatchesRing, Size
  <2>. QED BY <2>2, <2>3
<1>. QED BY <1>7, <1>8, <1>9, <1>10, <1>11 DEF IInv

\* An id that is added to a full cache replaces the one in its slot.
LEMMA AddWhenFull ==
  ASSUME IInv, NEW id \in Ids, id \notin ring.cache, Filled(ring) = Slots, ring' = Add(ring, id)
  PROVE  IInv'
<1>. USE MaxSizeAssumption, NoIdAssumption
<1>. DEFINE old == ring.keys[ring.position]
<1>1. ring \in EventCaches /\ ring.position \in Slots
  BY DEF IInv, TypeOK, EventCaches
<1>2. Size(ring) >= MaxSize
  BY FullMeansFilled
<1>3. old # NoId /\ old \in ring.cache
  BY <1>1 DEF IInv, SetMatchesRing, Filled
<1>4. ring' = [cache |-> (ring.cache \ {old}) \union {id},
            keys |-> [ring.keys EXCEPT ![ring.position] = id],
            position |-> (ring.position + 1) % MaxSize]
  BY <1>2, <1>3 DEF Add, Contains, Evicted
<1>5. ring'.position \in Slots
  BY <1>1, <1>4, NextPosition DEF Slots
<1>6. /\ ring'.keys[ring.position] = id
      /\ \A i \in Slots \ {ring.position}: ring'.keys[i] = ring.keys[i]
  BY <1>1, <1>4 DEF EventCaches
<1>7. Filled(ring)' = Slots
  BY <1>1, <1>6 DEF Filled
<1>8. \A i \in Slots \ {ring.position}: ring.keys[i] # old /\ ring.keys[i] \in ring.cache
  BY <1>1 DEF IInv, NoDuplicateSlots, SetMatchesRing, Filled
<1>9. TypeOK'
  BY <1>1, <1>4, <1>5 DEF TypeOK, EventCaches
<1>10. SetMatchesRing'
  <2>1. ring.cache \ {old} = {ring.keys[i] : i \in Slots \ {ring.position}}
    BY <1>1, <1>8 DEF IInv, SetMatchesRing
  <2>2. ring.cache' = (ring.cache \ {old}) \union {id}
    BY <1>4
  <2>. QED BY <1>1, <1>6, <1>7, <2>1, <2>2 DEF SetMatchesRing
<1>11. NoDuplicateSlots'
  BY <1>1, <1>6, <1>7, <1>8 DEF IInv, NoDuplicateSlots
<1>12. FillsInOrder'
  BY <1>7 DEF FillsInOrder
<1>13. SizeMatchesRing'
  <2>1. IsFiniteSet(ring.cache) /\ Cardinality(ring.cache) = MaxSize
    BY DEF IInv, SizeMatchesRing, Size
  <2>2. IsFiniteSet(ring.cache \ {old}) /\ Cardinality(ring.cache \ {old}) = MaxSize - 1
    BY <1>3, <2>1, FS_RemoveElement
  <2>3. IsFiniteSet(ring'.cache) /\ Cardinality(ring'.cache) = MaxSize
    BY <1>4, <2>2, FS_AddElement
  <2>. QED BY <2>3, <1>7 DEF SizeMatchesRing, Size
<1>. QED BY <1>9, <1>10, <1>11, <1>12, <1>13 DEF IInv

-------------------------------------------------------------------------------
LEMMA Inductive == IInv /\ [Next]_ring => IInv'
<1>. SUFFICES ASSUME IInv, [Next]_ring PROVE IInv'
  OBVIOUS
<1>1. ASSUME NEW id \in Ids, AddId(id) PROVE IInv'
  <2>1. CASE id \in ring.cache
    <3>1. ring' = ring
      BY <1>1, <2>1 DEF AddId, Add, Contains
    <3>. QED BY <3>1 DEF IInv, TypeOK, SetMatchesRing, NoDuplicateSlots, FillsInOrder,
                         SizeMatchesRing, Filled, Size
  <2>2. CASE id \notin ring.cache /\ Filled(ring) # Slots
    BY <1>1, <2>2, AddWithRoom DEF AddId
  <2>3. CASE id \notin ring.cache /\ Filled(ring) = Slots
    BY <1>1, <2>3, AddWhenFull DEF AddId
  <2>. QED BY <2>1, <2>2, <2>3
<1>2. CASE ClearAll
  <2>1. (ring = NewEventCache)'
    BY <1>2 DEF ClearAll, Clear, NewEventCache, Slots
  <2>. QED BY <2>1, EmptyCache, PTL
<1>3. CASE UNCHANGED ring
  <2>1. TypeOK' /\ SetMatchesRing'
    BY <1>3 DEF IInv, TypeOK, SetMatchesRing, Filled
  <2>2. NoDuplicateSlots' /\ FillsInOrder'
    BY <1>3 DEF IInv, NoDuplicateSlots, FillsInOrder, Filled
  <2>3. SizeMatchesRing'
    BY <1>3 DEF IInv, SizeMatchesRing, Filled, Size
  <2>. QED BY <2>1, <2>2, <2>3 DEF IInv
<1>. QED BY <1>1, <1>2, <1>3 DEF Next

\* The ring and the lookup set agree after any sequence of Add and Clear: the
\* cache reports an id exactly while one of its slots holds it.
THEOREM RingMatchesSet == Spec => [](TypeOK /\ SetMatchesRing)
<1>1. Init => IInv
  BY EmptyCache DEF Init
<1>2. IInv => TypeOK /\ SetMatchesRing
  BY DEF IInv
<1>. QED BY <1>1, <1>2, Inductive, PTL DEF Spec

\* The cache never holds more ids than its capacity.
THEOREM NeverOverfull == Spec => []Bounded
<1>1. Init => IInv
  BY EmptyCache DEF Init
<1>2. IInv => Bounded
  BY FullMeansFilled, MaxSizeAssumption
     DEF IInv, TypeOK, EventCaches, SizeMatchesRing, Bounded, Slots
<1>. QED BY <1>1, <1>2, Inductive, PTL DEF Spec
-------------------------------------------------------------------------------
(* The ring, read from the oldest id to the newest, is the abstract window.  *)

LEMMA AroundOnce ==
  ASSUME NEW x \in 0 .. 2 * MaxSize - 1
  PROVE  x % MaxSize = IF x < MaxSize THEN x ELSE x - MaxSize
<1>. USE MaxSizeAssumption
<1>1. CASE x < MaxSize
  BY <1>1
<1>2. CASE x >= MaxSize
  <2>1. x - MaxSize \in 0 .. MaxSize - 1
    BY <1>2
  <2>2. x = MaxSize * 1 + (x - MaxSize)
    BY <2>1
  <2>3. x % MaxSize = x - MaxSize
    BY <2>1, <2>2
  <2>. QED BY <1>2, <2>3
<1>. QED BY <1>1, <1>2

\* The slot that holds the n-th oldest id of a full ring.
SlotOf(n) == IF ring.position + n - 1 < MaxSize THEN ring.position + n - 1
             ELSE ring.position + n - 1 - MaxSize

LEMMA FullWindow ==
  ASSUME IInv, Filled(ring) = Slots
  PROVE  /\ WindowOf(ring) = [n \in 1 .. MaxSize |-> ring.keys[SlotOf(n)]]
         /\ \A n \in 1 .. MaxSize: SlotOf(n) \in Slots
<1>. USE MaxSizeAssumption
<1>1. ring.position \in 0 .. MaxSize - 1
  BY DEF IInv, TypeOK, EventCaches, Slots
<1>2. ASSUME NEW n \in 1 .. MaxSize
      PROVE  (ring.position + n - 1) % MaxSize = SlotOf(n) /\ SlotOf(n) \in Slots
  <2>. DEFINE x == ring.position + n - 1
  <2>1. x \in 0 .. 2 * MaxSize - 1
    BY <1>1
  <2>2. SlotOf(n) = IF x < MaxSize THEN x ELSE x - MaxSize
    BY <1>1 DEF SlotOf
  <2>. HIDE DEF x
  <2>3. x % MaxSize = IF x < MaxSize THEN x ELSE x - MaxSize
    BY <2>1, AroundOnce
  <2>4. x % MaxSize = SlotOf(n) /\ SlotOf(n) \in Slots
    BY <2>1, <2>2, <2>3 DEF Slots
  <2>. QED BY <2>4 DEF x
<1>. QED BY <1>2 DEF WindowOf

LEMMA WindowHoldsCache ==
  ASSUME IInv
  PROVE  /\ WindowOf(ring) \in Seq(Ids)
         /\ Abstract!ToSet(WindowOf(ring)) = ring.cache
         /\ Len(WindowOf(ring)) = IF Filled(ring) = Slots THEN MaxSize ELSE ring.position
<1>. USE MaxSizeAssumption
<1>. DEFINE w == WindowOf(ring)
<1>1. ring.position \in 0 .. MaxSize - 1 /\ ring.keys \in [Slots -> Ids \union {NoId}]
  BY DEF IInv, TypeOK, EventCaches, Slots
<1>2. ring.cache = {ring.keys[i] : i \in Filled(ring)} /\ \A i \in Filled(ring): ring.keys[i] \in Ids
  BY <1>1 DEF IInv, SetMatchesRing, Filled
<1>3. CASE Filled(ring) = Slots
  <2>1. /\ w = [n \in 1 .. MaxSize |-> ring.keys[SlotOf(n)]]
        /\ \A n \in 1 .. MaxSize: SlotOf(n) \in Slots
    BY <1>3, FullWindow
  <2>. HIDE DEF w
  <2>2. w \in Seq(Ids) /\ Len(w) = MaxSize
    BY <1>2, <1>3, <2>1
  <2>3. \A i \in Slots: \E n \in 1 .. MaxSize: SlotOf(n) = i
    <3>. TAKE i \in Slots
    <3>. DEFINE n == IF i >= ring.position THEN i - ring.position + 1
                     ELSE i - ring.position + 1 + MaxSize
    <3>1. n \in 1 .. MaxSize /\ SlotOf(n) = i
      BY <1>1 DEF SlotOf, Slots
    <3>. QED BY <3>1
  <2>4. Abstract!ToSet(w) = {ring.keys[i] : i \in Slots}
    BY <2>1, <2>3 DEF Abstract!ToSet
  <2>. QED BY <1>2, <1>3, <2>2, <2>4 DEF w
<1>4. CASE Filled(ring) # Slots
  <2>1. w = [n \in 1 .. ring.position |-> ring.keys[n - 1]] /\ Filled(ring) = 0 .. ring.position - 1
    BY <1>4 DEF WindowOf, IInv, FillsInOrder
  <2>. HIDE DEF w
  <2>2. \A n \in 1 .. ring.position: n - 1 \in Filled(ring)
    BY <1>1, <2>1
  <2>3. w \in Seq(Ids) /\ Len(w) = ring.position
    BY <1>1, <1>2, <2>1, <2>2
  <2>4. \A i \in Filled(ring): i + 1 \in 1 .. ring.position /\ (i + 1) - 1 = i
    BY <1>1, <2>1
  <2>5. Abstract!ToSet(w) = {ring.keys[i] : i \in Filled(ring)}
    BY <2>1, <2>2, <2>4 DEF Abstract!ToSet
  <2>. QED BY <1>2, <1>4, <2>3, <2>5 DEF w
<1>. QED BY <1>3, <1>4

\* While a slot is free, an Add appends to the window.
LEMMA RoomyAddAppends ==
  ASSUME IInv, NEW id \in Ids, id \notin ring.cache, Filled(ring) # Slots, ring' = Add(ring, id)
  PROVE  WindowOf(ring)' = Append(WindowOf(ring), id)
<1>. USE MaxSizeAssumption, NoIdAssumption
<1>1. ring \in EventCaches /\ ring.position \in 0 .. MaxSize - 1 /\ ring.position \in Slots
  BY DEF IInv, TypeOK, EventCaches, Slots
<1>2. ring.keys[ring.position] = NoId /\ ~ (Size(ring) >= MaxSize)
  BY FullMeansFilled
<1>3. ring' = [cache |-> ring.cache \union {id},
            keys |-> [ring.keys EXCEPT ![ring.position] = id],
            position |-> (ring.position + 1) % MaxSize]
  BY <1>2 DEF Add, Contains, Evicted
<1>4. /\ ring.position = MaxSize - 1 => ring'.position = 0
      /\ ring.position # MaxSize - 1 => ring'.position = ring.position + 1
  BY <1>1, <1>3, NextPosition
<1>5. /\ \A i \in Slots: ring'.keys[i] = IF i = ring.position THEN id ELSE ring.keys[i]
      /\ Filled(ring)' = Filled(ring) \union {ring.position} /\ Filled(ring) = 0 .. ring.position - 1
  BY <1>1, <1>3 DEF Filled, EventCaches, IInv, FillsInOrder
<1>6. WindowOf(ring) = [n \in 1 .. ring.position |-> ring.keys[n - 1]]
  BY DEF WindowOf
<1>7. Append(WindowOf(ring), id)
        = [n \in 1 .. ring.position + 1 |-> IF n = ring.position + 1 THEN id ELSE ring.keys[n - 1]]
  BY <1>1, <1>6
<1>8. WindowOf(ring)' = [n \in 1 .. ring.position + 1 |-> ring'.keys[n - 1]]
  <2>1. CASE ring.position = MaxSize - 1
    <3>1. Filled(ring)' = Slots /\ ring'.position = 0
      BY <1>1, <1>4, <1>5, <2>1 DEF Slots
    <3>2. IInv'
      BY AddWithRoom
    <3>3. \A n \in 1 .. MaxSize: (0 + n - 1) % MaxSize = n - 1
      <4>. TAKE n \in 1 .. MaxSize
      <4>1. n - 1 \in 0 .. 2 * MaxSize - 1 /\ n - 1 < MaxSize /\ 0 + n - 1 = n - 1
        OBVIOUS
      <4>. QED BY <4>1, AroundOnce
    <3>4. WindowOf(ring)' = [n \in 1 .. MaxSize |-> ring'.keys[(0 + n - 1) % MaxSize]]
      BY <3>1 DEF WindowOf, Slots
    <3>5. ring.position + 1 = MaxSize
      BY <2>1
    <3>. QED BY <3>3, <3>4, <3>5
  <2>2. CASE ring.position # MaxSize - 1
    <3>1. MaxSize - 1 \in Slots /\ MaxSize - 1 \notin Filled(ring)'
      BY <1>1, <1>5, <2>2 DEF Slots
    <3>2. Filled(ring)' # Slots' /\ ring'.position = ring.position + 1
      BY <1>4, <2>2, <3>1 DEF Slots
    <3>. QED BY <3>2 DEF WindowOf
  <2>. QED BY <2>1, <2>2
<1>9. \A n \in 1 .. ring.position + 1: n - 1 \in Slots /\ (n = ring.position + 1 <=> n - 1 = ring.position)
  BY <1>1 DEF Slots
<1>. QED BY <1>5, <1>7, <1>8, <1>9

\* Once every slot is in use, it drops the oldest id.
LEMMA FullAddShifts ==
  ASSUME IInv, NEW id \in Ids, id \notin ring.cache, Filled(ring) = Slots, ring' = Add(ring, id)
  PROVE  WindowOf(ring)' = Append(Tail(WindowOf(ring)), id)
<1>. USE MaxSizeAssumption, NoIdAssumption
<1>. DEFINE old == ring.keys[ring.position]
<1>1. ring \in EventCaches /\ ring.position \in 0 .. MaxSize - 1 /\ ring.position \in Slots
  BY DEF IInv, TypeOK, EventCaches, Slots
<1>2. Size(ring) >= MaxSize
  BY FullMeansFilled
<1>3. old # NoId /\ old \in ring.cache
  BY <1>1 DEF IInv, SetMatchesRing, Filled
<1>4. ring' = [cache |-> (ring.cache \ {old}) \union {id},
            keys |-> [ring.keys EXCEPT ![ring.position] = id],
            position |-> (ring.position + 1) % MaxSize]
  BY <1>2, <1>3 DEF Add, Contains, Evicted
<1>5. ring'.position = IF ring.position = MaxSize - 1 THEN 0 ELSE ring.position + 1
  BY <1>1, <1>4, NextPosition
<1>6. \A i \in Slots: ring'.keys[i] = IF i = ring.position THEN id ELSE ring.keys[i]
  BY <1>1, <1>4 DEF EventCaches
<1>7. Filled(ring)' = Slots
  BY <1>1, <1>6 DEF Filled
<1>8. IInv'
  BY AddWhenFull
<1>9. /\ WindowOf(ring) = [n \in 1 .. MaxSize |-> ring.keys[SlotOf(n)]]
      /\ \A n \in 1 .. MaxSize: SlotOf(n) \in Slots
  BY FullWindow
<1>10. /\ WindowOf(ring)' = [n \in 1 .. MaxSize |-> ring'.keys[SlotOf(n)']]
       /\ \A n \in 1 .. MaxSize: SlotOf(n)' \in Slots
  <2>1. (IInv /\ Filled(ring) = Slots
           => /\ WindowOf(ring) = [n \in 1 .. MaxSize |-> ring.keys[SlotOf(n)]]
              /\ \A n \in 1 .. MaxSize: SlotOf(n) \in Slots)'
    BY FullWindow, PTL
  <2>. QED BY <1>7, <1>8, <2>1 DEF Slots
<1>11. \A n \in 1 .. MaxSize:
         /\ n < MaxSize => SlotOf(n)' = SlotOf(n + 1) /\ SlotOf(n + 1) # ring.position
         /\ n = MaxSize => SlotOf(n)' = ring.position
  BY <1>1, <1>5 DEF SlotOf
<1>12. Append(Tail(WindowOf(ring)), id)
         = [n \in 1 .. MaxSize |-> IF n = MaxSize THEN id ELSE ring.keys[SlotOf(n + 1)]]
  <2>. DEFINE f == [n \in 1 .. MaxSize |-> ring.keys[SlotOf(n)]]
  <2>1. \A n \in 1 .. MaxSize: ring.keys[SlotOf(n)] \in Ids \union {NoId}
    BY <1>1, <1>9 DEF EventCaches
  <2>2. f \in Seq(Ids \union {NoId}) /\ Len(f) = MaxSize
    BY <2>1
  <2>3. \A n \in 1 .. MaxSize - 1: n + 1 \in 1 .. MaxSize /\ f[n + 1] = ring.keys[SlotOf(n + 1)]
    OBVIOUS
  <2>. HIDE DEF f
  <2>4. /\ Tail(f) \in Seq(Ids \union {NoId}) /\ Len(Tail(f)) = MaxSize - 1
        /\ \A n \in 1 .. MaxSize - 1: Tail(f)[n] = f[n + 1]
    <3>1. f # << >>
      BY <2>2
    <3>. QED BY <2>2, <3>1, HeadTailProperties
  <2>5. Append(Tail(f), id) = [n \in 1 .. MaxSize |-> IF n = MaxSize THEN id ELSE f[n + 1]]
    <3>1. id \in Ids \union {NoId}
      OBVIOUS
    <3>. DEFINE g == Append(Tail(f), id)
    <3>2. /\ g \in Seq(Ids \union {NoId}) /\ Len(g) = MaxSize
          /\ \A n \in 1 .. MaxSize - 1: g[n] = Tail(f)[n]
          /\ g[MaxSize] = id
      BY <2>4, <3>1, AppendProperties
    <3>3. \A n \in 1 .. MaxSize: g[n] = IF n = MaxSize THEN id ELSE f[n + 1]
      BY <2>4, <3>2
    <3>. HIDE DEF g
    <3>4. g = [n \in 1 .. MaxSize |-> g[n]]
      BY <3>2
    <3>. QED BY <3>3, <3>4 DEF g
  <2>6. \A n \in 1 .. MaxSize: n # MaxSize => n \in 1 .. MaxSize - 1
    OBVIOUS
  <2>. QED BY <1>9, <2>3, <2>5, <2>6 DEF f
<1>13. \A n \in 1 .. MaxSize:
         ring'.keys[SlotOf(n)'] = IF n = MaxSize THEN id ELSE ring.keys[SlotOf(n + 1)]
  <2>. TAKE n \in 1 .. MaxSize
  <2>1. CASE n = MaxSize
    BY <1>1, <1>6, <1>11, <2>1
  <2>2. CASE n < MaxSize
    <3>1. n + 1 \in 1 .. MaxSize
      BY <2>2
    <3>. QED BY <1>6, <1>9, <1>11, <2>2, <3>1
  <2>. QED BY <2>1, <2>2
<1>. QED BY <1>10, <1>12, <1>13

LEMMA EmptyWindow == ring = NewEventCache => WindowOf(ring) = << >>
<1>. SUFFICES ASSUME ring = NewEventCache PROVE WindowOf(ring) = << >>
  OBVIOUS
<1>1. Filled(ring) = {} /\ Slots # {} /\ ring.position = 0
  <2>1. (\A i \in Slots: ring.keys[i] = NoId) /\ ring.position = 0
    BY DEF NewEventCache
  <2>2. 0 \in Slots
    BY MaxSizeAssumption DEF Slots
  <2>. QED BY <2>1, <2>2 DEF Filled
<1>2. WindowOf(ring) = [n \in 1 .. 0 |-> ring.keys[n - 1]]
  BY <1>1 DEF WindowOf
<1>. QED BY <1>2

LEMMA StepRefines == IInv /\ [Next]_ring => [Abstract!Next]_(WindowOf(ring))
<1>. SUFFICES ASSUME IInv, [Next]_ring PROVE [Abstract!Next]_(WindowOf(ring))
  OBVIOUS
<1>1. ASSUME NEW id \in Ids, AddId(id) PROVE [Abstract!Next]_(WindowOf(ring))
  <2>1. /\ Abstract!ToSet(WindowOf(ring)) = ring.cache
        /\ Len(WindowOf(ring)) = IF Filled(ring) = Slots THEN MaxSize ELSE ring.position
    BY WindowHoldsCache
  <2>2. CASE id \in ring.cache
    <3>1. ring' = ring
      BY <1>1, <2>2 DEF AddId, Add, Contains
    <3>. QED BY <3>1 DEF WindowOf, Filled
  <2>3. CASE id \notin ring.cache /\ Filled(ring) # Slots
    <3>1. WindowOf(ring)' = Append(WindowOf(ring), id)
      BY <1>1, <2>3, RoomyAddAppends DEF AddId
    <3>2. Len(WindowOf(ring)) # MaxSize
      BY <2>1, <2>3, MaxSizeAssumption DEF IInv, TypeOK, EventCaches, Slots
    <3>3. Abstract!Remember(id)
      BY <2>1, <2>3, <3>1, <3>2 DEF Abstract!Remember
    <3>. QED BY <3>3 DEF Abstract!Next
  <2>4. CASE id \notin ring.cache /\ Filled(ring) = Slots
    <3>1. WindowOf(ring)' = Append(Tail(WindowOf(ring)), id)
      BY <1>1, <2>4, FullAddShifts DEF AddId
    <3>2. Abstract!Remember(id)
      BY <2>1, <2>4, <3>1 DEF Abstract!Remember
    <3>. QED BY <3>2 DEF Abstract!Next
  <2>. QED BY <2>2, <2>3, <2>4
<1>2. CASE ClearAll
  <2>1. (ring = NewEventCache)'
    BY <1>2 DEF ClearAll, Clear, NewEventCache, Slots
  <2>2. (WindowOf(ring) = << >>)'
    BY <2>1, EmptyWindow, PTL
  <2>. QED BY <2>2 DEF Abstract!Next, Abstract!Forget
<1>3. CASE UNCHANGED ring
  BY <1>3 DEF WindowOf, Filled
<1>. QED BY <1>1, <1>2, <1>3 DEF Next

\* The ring implements the abstract window, for every capacity: the id that an Add
\* evicts is the one added longest ago, and one that is known is not moved
\* (Add and Clear, eventcache.go).
THEOREM RingImplementsWindow == Spec => ImplementsRecentWindow
<1>1. Init => IInv /\ Abstract!Init
  BY EmptyCache, EmptyWindow DEF Init, Abstract!Init
<1>. QED BY <1>1, Inductive, StepRefines, PTL DEF Spec, ImplementsRecentWindow, Abstract!Spec

-------------------------------------------------------------------------------
(* The cache.  A value in it may be shared with readers that found it:      *)
(* what they remember of it is still true, as long as its address says that *)
(* it is the same.                                                          *)

EntryType ==
  [address: Addresses, size: ValueSizes, accessed: 0 .. cacheTime, expires: Nat]

LookupType ==
  [key: CacheKeys, at: 0 .. cacheTime, touches: BOOLEAN, address: Addresses, expires: Nat]

CacheTyped ==
  /\ cacheTime \in 0 .. MaxCacheTime
  /\ entries \in [CacheKeys -> EntryType \union {Absent}]
  /\ lookups \in [Readers -> LookupType \union {NoLookup}]

SharedEntriesAgree ==
  \A r \in Readers: lookups[r] # NoLookup /\ lookups[r].address = entries[lookups[r].key].address
                      => lookups[r].expires = entries[lookups[r].key].expires

CInv == CacheTyped /\ SharedEntriesAgree

LEMMA AddressesPositive == /\ Addresses \in SUBSET Nat /\ 0 \notin Addresses
                           /\ IsFiniteSet(Addresses) /\ Cardinality(Readers) \in Nat
                           /\ Cardinality(Addresses) = Cardinality(Readers) + 2
<1>. DEFINE n == Cardinality(Readers)
<1>1. n \in Nat
  BY CacheAssumption, FS_CardinalityType
<1>2. Addresses = 1 .. n + 2
  BY DEF Addresses
<1>. HIDE DEF n
<1>. DEFINE m == n + 2
<1>4. IsFiniteSet(1 .. m) /\ Cardinality(1 .. m) = m
  <2>1. m \in Int /\ m >= 1 /\ 1 \in Int
    BY <1>1
  <2>. HIDE DEF m
  <2>. QED BY <2>1, FS_Interval
<1>5. Cardinality(1 .. n + 2) = n + 2
  BY <1>1, <1>4
<1>. QED BY <1>1, <1>2, <1>4, <1>5 DEF n

\* With two addresses more than there are readers one is always free.
LEMMA AddressIsFree ==
  ASSUME CacheTyped, NEW k
  PROVE  /\ FreeAddress(k) \in Addresses /\ FreeAddress(k) # entries[k].address
         /\ \A r \in Readers: lookups[r].key # k \/ lookups[r].address # FreeAddress(k)
<1>. DEFINE f == [r \in Readers |-> lookups[r].address]
            T == {f[r] : r \in Readers}
            U == T \union {entries[k].address}
            free == {a \in Addresses : /\ entries[k].address # a
                                       /\ \A r \in Readers : lookups[r].key # k \/ lookups[r].address # a}
<1>1. f \in Surjection(Readers, T)
  BY DEF Surjection
<1>2. IsFiniteSet(T) /\ Cardinality(T) \in Nat /\ Cardinality(T) <= Cardinality(Readers)
  <2>. HIDE DEF f, T
  <2>. QED BY <1>1, CacheAssumption, FS_Surjection, FS_CardinalityType
<1>3. IsFiniteSet(U) /\ Cardinality(U) \in Nat /\ Cardinality(U) <= Cardinality(Readers) + 1
  <2>1. IsFiniteSet(U) /\ (Cardinality(U) = Cardinality(T) \/ Cardinality(U) = Cardinality(T) + 1)
    <3>. HIDE DEF f, T
    <3>. QED BY <1>2, FS_AddElement
  <2>. HIDE DEF f, T, U
  <2>. QED BY <1>2, <2>1, AddressesPositive
<1>4. ASSUME Addresses \subseteq U PROVE FALSE
  <2>1. Cardinality(Addresses) <= Cardinality(U)
    <3>. HIDE DEF f, T, U
    <3>. QED BY <1>3, <1>4, FS_Subset
  <2>. HIDE DEF f, T, U
  <2>. QED BY <1>3, <2>1, AddressesPositive
<1>5. PICK a \in Addresses: a \notin U
  BY <1>4
<1>6. a \in free
  BY <1>5
<1>7. free \subseteq Nat /\ free # {}
  BY <1>6, AddressesPositive
<1>8. FreeAddress(k) = Min(free)
  BY DEF FreeAddress
<1>9. Min(free) \in free
  <2>. HIDE DEF free
  <2>. QED BY <1>7, LeastExists
<1>. QED BY <1>8, <1>9

Expiry(ttl) == cacheTime + IF ttl = 0 THEN DefaultTTL ELSE ttl

NewEntry(k, size, ttl) ==
  [address |-> FreeAddress(k), size |-> size, accessed |-> cacheTime, expires |-> Expiry(ttl)]

\* What Set does, with the values it evicts.
SetEvicting(k, size, ttl, out) ==
  /\ \A j \in CacheKeys: entries'[j] = IF j = k THEN NewEntry(k, size, ttl)
                                       ELSE IF j \in out THEN Absent ELSE entries[j]
  /\ DOMAIN entries' = CacheKeys /\ entries' \in [CacheKeys -> {entries'[j] : j \in CacheKeys}]
  /\ UNCHANGED <<cacheTime, lookups>>
  /\ \/ out = {} /\ (MaxCacheSize > 0 => TotalSize + size <= MaxCacheSize)
     \/ out \in Evictions(size) /\ MaxCacheSize > 0 /\ TotalSize + size > MaxCacheSize

LEMMA SetEvicts ==
  ASSUME NEW k, NEW size, NEW ttl, SetValue(k, size, ttl), 
         TotalSize \in Nat, size \in Nat
  PROVE  \E out: SetEvicting(k, size, ttl, out)
<1>1. PICK out \in IF MaxCacheSize > 0 /\ TotalSize + size > MaxCacheSize
                   THEN Evictions(size) ELSE {{}} :
       entries' = [j \in CacheKeys |->
         CASE j = k   -> NewEntry(k, size, ttl)
           [] j \in out \ {k} -> Absent
           [] OTHER   -> entries[j]]
  BY DEF SetValue, NewEntry, Expiry
<1>2. \A j \in CacheKeys: entries'[j] = IF j = k THEN NewEntry(k, size, ttl)
                                        ELSE IF j \in out THEN Absent ELSE entries[j]
  BY <1>1
<1>3. DOMAIN entries' = CacheKeys /\ entries' \in [CacheKeys -> {entries'[j] : j \in CacheKeys}]
  BY <1>1
<1>4. \/ out = {} /\ (MaxCacheSize > 0 => TotalSize + size <= MaxCacheSize)
      \/ out \in Evictions(size) /\ MaxCacheSize > 0 /\ TotalSize + size > MaxCacheSize
  BY <1>1, CacheAssumption
<1>5. UNCHANGED <<cacheTime, lookups>>
  BY DEF SetValue
<1>. QED BY <1>2, <1>3, <1>4, <1>5 DEF SetEvicting

LEMMA CachedEntries ==
  ASSUME CacheTyped
  PROVE  /\ IsFiniteSet(Cached) /\ Cached \in SUBSET CacheKeys
         /\ \A k \in Cached: /\ entries[k] \in EntryType
                             /\ entries[k].size \in Nat /\ entries[k].address # 0
         /\ \A k \in CacheKeys \ Cached: entries[k] = Absent
         /\ TotalSize \in Nat
<1>1. Cached \in SUBSET CacheKeys
  BY DEF Cached
<1>2. IsFiniteSet(Cached)
  BY <1>1, CacheAssumption, FS_Subset
<1>3. \A k \in Cached: /\ entries[k] \in EntryType
                       /\ entries[k].size \in Nat /\ entries[k].address # 0
  BY CacheAssumption, AddressesPositive DEF Cached, CacheTyped, EntryType
<1>4. \A k \in CacheKeys \ Cached: entries[k] = Absent
  BY DEF Cached
<1>5. TotalSize \in Nat
  <2>. DEFINE f == [k \in Cached |-> entries[k].size]
  <2>1. \A k \in Cached: f[k] \in Nat
    BY <1>3
  <2>. HIDE DEF f
  <2>2. SumFunctionOnSet(f, Cached) \in Nat
    BY <1>2, <2>1, SumType
  <2>. QED BY <2>2 DEF TotalSize, SizeOf, f
<1>. QED BY <1>1, <1>2, <1>3, <1>4, <1>5

LEMMA Later ==
  ASSUME CacheTyped, cacheTime' \in cacheTime .. MaxCacheTime
  PROVE  /\ cacheTime' \in 0 .. MaxCacheTime
         /\ EntryType \subseteq EntryType' /\ LookupType \subseteq LookupType'
BY CacheAssumption DEF CacheTyped, EntryType, LookupType, Addresses

\* Values leave and readers come to an end.
LEMMA ForgettingKeepsInv ==
  ASSUME CInv, UNCHANGED cacheTime,
         entries' \in [CacheKeys -> {entries'[k] : k \in CacheKeys}],
         \A k \in CacheKeys: entries'[k] \in {entries[k], Absent},
         lookups' \in [Readers -> {lookups'[r] : r \in Readers}],
         \A r \in Readers: lookups'[r] \in {lookups[r], NoLookup}
  PROVE  CInv'
<1>1. CacheTyped'
  BY DEF CInv, CacheTyped, EntryType, LookupType
<1>2. SharedEntriesAgree'
  <2>. SUFFICES ASSUME NEW r \in Readers, lookups'[r] # NoLookup,
                       lookups'[r].address = entries'[lookups'[r].key].address
                PROVE  lookups'[r].expires = entries'[lookups'[r].key].expires
    BY DEF SharedEntriesAgree
  <2>1. lookups'[r] = lookups[r] /\ lookups[r] \in LookupType
    BY DEF CInv, CacheTyped
  <2>2. lookups[r].key \in CacheKeys /\ lookups[r].address # 0
    BY <2>1, AddressesPositive DEF LookupType
  <2>3. entries'[lookups[r].key] = entries[lookups[r].key]
    BY <2>1, <2>2 DEF Absent
  <2>. QED BY <2>1, <2>3 DEF CInv, SharedEntriesAgree
<1>. QED BY <1>1, <1>2 DEF CInv

LEMMA LookupKeepsInv ==
  ASSUME CInv, NEW r \in Readers, NEW k \in CacheKeys, NEW touches \in BOOLEAN,
         Lookup(r, k, touches)
  PROVE  CInv'
<1>. DEFINE found == [key |-> k, at |-> cacheTime, touches |-> touches,
                      address |-> entries[k].address, expires |-> entries[k].expires]
<1>1. entries[k] \in EntryType
  BY DEF Lookup, CInv, CacheTyped
<1>2. found \in LookupType
  BY <1>1 DEF EntryType, LookupType, CInv, CacheTyped
<1>3. UNCHANGED <<cacheTime, entries>> /\ lookups' = [lookups EXCEPT ![r] = found]
  BY DEF Lookup
<1>. HIDE DEF found
<1>4. CacheTyped'
  BY <1>2, <1>3 DEF CInv, CacheTyped, EntryType, LookupType
<1>5. SharedEntriesAgree'
  <2>. SUFFICES ASSUME NEW q \in Readers, lookups'[q] # NoLookup,
                       lookups'[q].address = entries'[lookups'[q].key].address
                PROVE  lookups'[q].expires = entries'[lookups'[q].key].expires
    BY DEF SharedEntriesAgree
  <2>1. CASE q = r
    <3>1. lookups'[q] = found
      BY <1>3, <2>1 DEF CInv, CacheTyped
    <3>. QED BY <1>3, <3>1 DEF found
  <2>2. CASE q # r
    BY <1>3, <2>2 DEF CInv, CacheTyped, SharedEntriesAgree
  <2>. QED BY <2>1, <2>2
<1>. QED BY <1>4, <1>5 DEF CInv

LEMMA HitKeepsInv ==
  ASSUME CInv, NEW r \in Readers, Hit(r)
  PROVE  /\ CInv'
         /\ \A k \in CacheKeys: \/ entries'[k] = entries[k]
                                \/ /\ entries'[k] # Absent /\ entries[k] # Absent
                                   /\ entries'[k].size = entries[k].size
<1>. PICK found: found = lookups[r]
  OBVIOUS
<1>1. found \in LookupType /\ found.key \in CacheKeys /\ found.address # 0
  BY AddressesPositive DEF Hit, CInv, CacheTyped, LookupType
<1>2. /\ UNCHANGED cacheTime /\ lookups' = [lookups EXCEPT ![r] = NoLookup]
      /\ entries' = IF found.touches /\ entries[found.key].address = found.address
                    THEN [entries EXCEPT ![found.key].accessed = cacheTime]
                    ELSE entries
  BY DEF Hit
<1>3. CASE entries' = entries
  BY <1>2, <1>3, ForgettingKeepsInv DEF CInv, CacheTyped
<1>4. CASE /\ entries[found.key].address = found.address
           /\ entries' = [entries EXCEPT ![found.key].accessed = cacheTime]
  <2>1. entries[found.key] \in EntryType
    BY <1>1, <1>4 DEF CInv, CacheTyped, Absent
  <2>. DEFINE used == [entries[found.key] EXCEPT !.accessed = cacheTime]
  <2>2. /\ used \in EntryType /\ used.address = entries[found.key].address
        /\ used.expires = entries[found.key].expires
        /\ used.size = entries[found.key].size
    BY <2>1 DEF EntryType, CInv, CacheTyped
  <2>3. /\ entries' \in [CacheKeys -> EntryType \union {Absent}]
        /\ entries'[found.key] = used
        /\ \A k \in CacheKeys \ {found.key}: entries'[k] = entries[k]
    <3>1. entries' = [entries EXCEPT ![found.key] = used]
      BY <1>4
    <3>. HIDE DEF used
    <3>. QED BY <1>1, <2>2, <3>1 DEF CInv, CacheTyped
  <2>. HIDE DEF used
  <2>4. CacheTyped'
    BY <1>2, <2>3 DEF CInv, CacheTyped, EntryType, LookupType
  <2>5. SharedEntriesAgree'
    <3>. SUFFICES ASSUME NEW q \in Readers, lookups'[q] # NoLookup,
                         lookups'[q].address = entries'[lookups'[q].key].address
                  PROVE  lookups'[q].expires = entries'[lookups'[q].key].expires
      BY DEF SharedEntriesAgree
    <3>1. lookups'[q] = lookups[q] /\ lookups[q] \in LookupType /\ lookups[q].key \in CacheKeys
      BY <1>2 DEF CInv, CacheTyped, LookupType
    <3>. QED BY <2>2, <2>3, <3>1 DEF CInv, SharedEntriesAgree
  <2>6. used # Absent /\ entries[found.key] # Absent
    BY <2>1, <2>2, AddressesPositive DEF EntryType, Absent
  <2>. QED BY <2>2, <2>3, <2>4, <2>5, <2>6 DEF CInv
<1>. QED BY <1>2, <1>3, <1>4

LEMMA SetKeepsInv ==
  ASSUME CInv, NEW k \in CacheKeys, NEW size \in ValueSizes, NEW ttl \in Lifetimes,
         SetValue(k, size, ttl)
  PROVE  CInv'
<1>1. PICK out: SetEvicting(k, size, ttl, out)
  <2>1. TotalSize \in Nat /\ size \in Nat
    BY CachedEntries, CacheAssumption DEF CInv
  <2>. QED BY <2>1, SetEvicts
<1>. PICK new: new = NewEntry(k, size, ttl)
  OBVIOUS
<1>2. /\ FreeAddress(k) \in Addresses /\ new.address = FreeAddress(k)
      /\ \A r \in Readers: lookups[r].key # k \/ lookups[r].address # new.address
  BY AddressIsFree DEF CInv, NewEntry
<1>3. Expiry(ttl) \in Nat
  BY CacheAssumption DEF Expiry, CInv, CacheTyped
<1>4. new \in EntryType
  BY <1>2, <1>3 DEF NewEntry, EntryType, CInv, CacheTyped
<1>5. /\ \A j \in CacheKeys: entries'[j] = IF j = k THEN new
                                           ELSE IF j \in out THEN Absent ELSE entries[j]
      /\ entries' \in [CacheKeys -> {entries'[j] : j \in CacheKeys}]
      /\ UNCHANGED <<cacheTime, lookups>>
  BY <1>1 DEF SetEvicting
<1>6. CacheTyped'
  BY <1>4, <1>5 DEF CInv, CacheTyped, EntryType, LookupType
<1>7. SharedEntriesAgree'
  <2>. SUFFICES ASSUME NEW r \in Readers, lookups[r] # NoLookup,
                       lookups[r].address = entries'[lookups[r].key].address
                PROVE  lookups[r].expires = entries'[lookups[r].key].expires
    BY <1>5 DEF SharedEntriesAgree
  <2>1. lookups[r].key \in CacheKeys /\ lookups[r].address # 0 /\ lookups[r].key # k
    BY <1>2, <1>5, AddressesPositive DEF CInv, CacheTyped, LookupType
  <2>2. entries'[lookups[r].key] = entries[lookups[r].key]
    BY <1>5, <2>1 DEF Absent
  <2>. QED BY <2>2 DEF CInv, SharedEntriesAgree
<1>. QED BY <1>6, <1>7 DEF CInv

\* The steps that take values out of the cache, and only that.
Removal == Cleanup \/ \E i \in Removers: InvalidatePattern(i)

\* The steps that begin a call.
CallBegins ==
  \E i \in Removers:
    \/ ClearCache(i) \/ InvalidateSection(i, "notes")
    \/ \E k \in CacheKeys: Delete(i, k)
    \/ \E e \in Renderings: InvalidateEvent(i, e) \/ InvalidateProfile(i, e.pubkey)

LEMMA CallsOnlyBegin ==
  CallBegins => UNCHANGED <<cacheTime, entries, lookups>>
BY DEF CallBegins, ClearCache, InvalidateSection, Delete, InvalidateEvent, InvalidateProfile,
       StartRemoval

LEMMA RemovalRemoves ==
  ASSUME Removal
  PROVE  /\ UNCHANGED <<cacheTime, lookups>>
         /\ \E keys: entries' = [k \in CacheKeys |-> IF k \in keys THEN Absent ELSE entries[k]]
BY DEF Removal, Cleanup, InvalidatePattern, Drop

LEMMA Forgetting ==
  ASSUME CInv, Removal \/ \E r \in Readers: DropExpired(r)
  PROVE  CInv' /\ \A k \in CacheKeys: entries'[k] \in {entries[k], Absent}
<1>1. CASE Removal
  <2>1. PICK keys: entries' = [k \in CacheKeys |-> IF k \in keys THEN Absent ELSE entries[k]]
    BY <1>1, RemovalRemoves
  <2>2. UNCHANGED <<cacheTime, lookups>>
    BY <1>1, RemovalRemoves
  <2>3. /\ entries' \in [CacheKeys -> {entries'[k] : k \in CacheKeys}]
        /\ \A k \in CacheKeys: entries'[k] \in {entries[k], Absent}
    BY <2>1
  <2>. QED BY <2>2, <2>3, ForgettingKeepsInv DEF CInv, CacheTyped
<1>2. CASE \E r \in Readers: DropExpired(r)
  <2>1. PICK r \in Readers: DropExpired(r)
    BY <1>2
  <2>2. /\ entries' \in [CacheKeys -> {entries'[k] : k \in CacheKeys}]
        /\ \A k \in CacheKeys: entries'[k] \in {entries[k], Absent}
    BY <2>1 DEF DropExpired, CInv, CacheTyped
  <2>3. /\ lookups' \in [Readers -> {lookups'[q] : q \in Readers}]
        /\ \A q \in Readers: lookups'[q] \in {lookups[q], NoLookup}
        /\ UNCHANGED cacheTime
    BY <2>1 DEF DropExpired, CInv, CacheTyped
  <2>. QED BY <2>2, <2>3, ForgettingKeepsInv
<1>. QED BY <1>1, <1>2

LEMMA CInvInit == CacheInit => CInv
BY CacheAssumption DEF CacheInit, CInv, CacheTyped, SharedEntriesAgree, NoLookup, Absent

LEMMA CInvStep == CInv /\ [CacheNext]_cacheVars => CInv'
<1>. SUFFICES ASSUME CInv, [CacheNext]_cacheVars PROVE CInv'
  OBVIOUS
<1>1. CASE CacheTick
  <2>1. cacheTime' \in cacheTime .. MaxCacheTime /\ UNCHANGED <<entries, lookups>>
    BY <1>1, CacheAssumption DEF CacheTick, CInv, CacheTyped
  <2>. QED BY <2>1, Later DEF CInv, CacheTyped, SharedEntriesAgree
<1>2. CASE UNCHANGED <<cacheTime, entries, lookups>>
  BY <1>2, ForgettingKeepsInv DEF CInv, CacheTyped
<1>3. CASE CallBegins
  BY <1>2, <1>3, CallsOnlyBegin
<1>. QED
  BY <1>1, <1>2, <1>3, LookupKeepsInv, HitKeepsInv, SetKeepsInv, Forgetting
     DEF CacheNext, Removal, CallBegins, cacheVars

LEMMA CInvHolds == CacheSpec => []CInv
BY CInvInit, CInvStep, PTL DEF CacheSpec

-------------------------------------------------------------------------------
(* The calls under way: what is left of one matches only what it is about.   *)

PatternsAbout(patterns, names) ==
  /\ patterns # << >>
  /\ \E S: /\ patterns \in Seq(S)
           /\ \A p \in S, k \in CacheKeys: PatternMatches(p, k) => names = {} \/ k[2] \in names

RInv ==
  /\ removals \in [Removers -> {removals[i] : i \in Removers}]
  /\ \A i \in Removers: removals[i] # NoRemoval =>
       PatternsAbout(removals[i].patterns, removals[i].names)

\* The invalidation of an event takes nothing but what is kept for it or its author.
LEMMA EventPatterns ==
  ASSUME NEW e PROVE PatternsAbout(InvalidationPatterns(e), {e.id, e.pubkey})
<1>. DEFINE always == << Below(<<"event", e.id>>), Exactly(<<"aggregate", e.id>>) >>
            more == CASE e.kind = 0 -> << Exactly(<<"kind0", e.pubkey>>), Below(<<"profile", e.pubkey>>) >>
                      [] e.kind = 1 -> << Below(<<"section", "notes", "*", "p0">>) >>
                      [] e.kind = 3 -> << Exactly(<<"kind3", e.pubkey>>) >>
                      [] OTHER      -> << >>
            S == {Below(<<"event", e.id>>), Exactly(<<"aggregate", e.id>>),
                  Exactly(<<"kind0", e.pubkey>>), Below(<<"profile", e.pubkey>>),
                  Below(<<"section", "notes", "*", "p0">>), Exactly(<<"kind3", e.pubkey>>)}
<1>1. InvalidationPatterns(e) = always \o more
  BY DEF InvalidationPatterns
<1>2. always \in Seq(S) /\ always # << >>
  OBVIOUS
<1>3. more \in Seq(S)
  <2>1. CASE e.kind = 0
    <3>1. more = << Exactly(<<"kind0", e.pubkey>>), Below(<<"profile", e.pubkey>>) >>
      BY <2>1
    <3>2. << Exactly(<<"kind0", e.pubkey>>), Below(<<"profile", e.pubkey>>) >> \in Seq(S)
      OBVIOUS
    <3>. HIDE DEF more, S
    <3>. QED BY <3>1, <3>2
  <2>2. CASE e.kind = 1
    <3>1. more = << Below(<<"section", "notes", "*", "p0">>) >>
      BY <2>2
    <3>2. << Below(<<"section", "notes", "*", "p0">>) >> \in Seq(S)
      OBVIOUS
    <3>. HIDE DEF more, S
    <3>. QED BY <3>1, <3>2
  <2>3. CASE e.kind = 3
    <3>1. more = << Exactly(<<"kind3", e.pubkey>>) >>
      BY <2>3
    <3>2. << Exactly(<<"kind3", e.pubkey>>) >> \in Seq(S)
      OBVIOUS
    <3>. HIDE DEF more, S
    <3>. QED BY <3>1, <3>2
  <2>4. CASE e.kind \notin {0, 1, 3}
    <3>1. more = << >>
      BY <2>4
    <3>2. << >> \in Seq(S)
      OBVIOUS
    <3>. HIDE DEF more, S
    <3>. QED BY <3>1, <3>2
  <2>. QED BY <2>1, <2>2, <2>3, <2>4
<1>4. always \o more \in Seq(S) /\ always \o more # << >>
  <2>. HIDE DEF always, more, S
  <2>. QED BY <1>2, <1>3
<1>5. ASSUME NEW p \in S, NEW k \in CacheKeys, PatternMatches(p, k)
      PROVE  k[2] \in {e.id, e.pubkey}
  <2>1. CASE p = Below(<<"event", e.id>>)
    BY <1>5, <2>1 DEF Below, PatternMatches
  <2>2. CASE p = Exactly(<<"aggregate", e.id>>)
    BY <1>5, <2>2 DEF Exactly, PatternMatches
  <2>3. CASE p = Exactly(<<"kind0", e.pubkey>>)
    BY <1>5, <2>3 DEF Exactly, PatternMatches
  <2>4. CASE p = Below(<<"profile", e.pubkey>>)
    BY <1>5, <2>4 DEF Below, PatternMatches
  <2>5. CASE p = Below(<<"section", "notes", "*", "p0">>)
    <3>1. 3 \in DOMAIN k /\ k[3] = "*"
      BY <1>5, <2>5 DEF Below, PatternMatches
    <3>. QED BY <3>1, CacheAssumption
  <2>6. CASE p = Exactly(<<"kind3", e.pubkey>>)
    BY <1>5, <2>6 DEF Exactly, PatternMatches
  <2>. QED BY <2>1, <2>2, <2>3, <2>4, <2>5, <2>6
<1>. HIDE DEF S, always, more
<1>. QED BY <1>1, <1>4, <1>5 DEF PatternsAbout

LEMMA ProfilePatterns ==
  ASSUME NEW pubkey
  PROVE  PatternsAbout(<< Exactly(<<"kind0", pubkey>>), Below(<<"profile", pubkey>>) >>, {pubkey})
<1>. DEFINE patterns == << Exactly(<<"kind0", pubkey>>), Below(<<"profile", pubkey>>) >>
            S == {Exactly(<<"kind0", pubkey>>), Below(<<"profile", pubkey>>)}
<1>1. patterns \in Seq(S) /\ patterns # << >>
  OBVIOUS
<1>2. ASSUME NEW p \in S, NEW k \in CacheKeys, PatternMatches(p, k) PROVE k[2] \in {pubkey}
  BY <1>2 DEF Exactly, Below, PatternMatches
<1>. HIDE DEF S
<1>. QED BY <1>1, <1>2 DEF PatternsAbout

LEMMA SectionPatterns ==
  ASSUME NEW name
  PROVE  PatternsAbout(<< Exactly(<<"section", name, "gopher", "p0">>),
                          Exactly(<<"section", name, "gemini", "p0">>) >>, {name})
<1>. DEFINE patterns == << Exactly(<<"section", name, "gopher", "p0">>),
                           Exactly(<<"section", name, "gemini", "p0">>) >>
            S == {Exactly(<<"section", name, "gopher", "p0">>),
                  Exactly(<<"section", name, "gemini", "p0">>)}
<1>1. patterns \in Seq(S) /\ patterns # << >>
  OBVIOUS
<1>2. ASSUME NEW p \in S, NEW k \in CacheKeys, PatternMatches(p, k) PROVE k[2] \in {name}
  BY <1>2 DEF Exactly, PatternMatches
<1>. HIDE DEF S
<1>. QED BY <1>1, <1>2 DEF PatternsAbout

LEMMA KeyAndAllPatterns ==
  /\ \A k \in CacheKeys: PatternsAbout(<< Exactly(k) >>, {k[2]})
  /\ PatternsAbout(<< Below(<< >>) >>, {})
<1>1. ASSUME NEW k \in CacheKeys PROVE PatternsAbout(<< Exactly(k) >>, {k[2]})
  <2>. DEFINE S == {Exactly(k)}
  <2>1. << Exactly(k) >> \in Seq(S) /\ << Exactly(k) >> # << >>
    OBVIOUS
  <2>2. ASSUME NEW p \in S, NEW j \in CacheKeys, PatternMatches(p, j) PROVE j[2] \in {k[2]}
    BY <2>2 DEF Exactly, PatternMatches
  <2>. HIDE DEF S
  <2>. QED BY <2>1, <2>2 DEF PatternsAbout
<1>2. PatternsAbout(<< Below(<< >>) >>, {})
  <2>1. << Below(<< >>) >> \in Seq({Below(<< >>)}) /\ << Below(<< >>) >> # << >>
    OBVIOUS
  <2>. QED BY <2>1 DEF PatternsAbout
<1>. QED BY <1>1, <1>2

LEMMA BeginningKeepsRInv ==
  ASSUME RInv, NEW i \in Removers, NEW names, NEW patterns, StartRemoval(i, names, patterns),
         PatternsAbout(patterns, names)
  PROVE  RInv'
<1>. DEFINE asked == [names |-> names, patterns |-> patterns]
<1>1. removals' = [removals EXCEPT ![i] = asked]
  BY DEF StartRemoval
<1>2. asked.names = names /\ asked.patterns = patterns
  OBVIOUS
<1>. HIDE DEF asked
<1>. QED BY <1>1, <1>2 DEF RInv

LEMMA PatternKeepsRInv ==
  ASSUME RInv, NEW i \in Removers, InvalidatePattern(i)
  PROVE  RInv'
<1>. PICK asked: asked = removals[i]
  OBVIOUS
<1>. PICK left: left = asked.patterns
  OBVIOUS
<1>1. PatternsAbout(left, asked.names) /\ asked # NoRemoval
  BY DEF RInv, InvalidatePattern
<1>2. CASE Len(left) = 1
  <2>1. removals' = [removals EXCEPT ![i] = NoRemoval]
    BY <1>2 DEF InvalidatePattern
  <2>. QED BY <2>1 DEF RInv
<1>3. CASE Len(left) # 1
  <2>. DEFINE rest == [names |-> asked.names, patterns |-> Tail(left)]
  <2>1. removals' = [removals EXCEPT ![i] = rest]
    BY <1>3 DEF InvalidatePattern
  <2>2. PICK S: /\ left \in Seq(S)
                /\ \A p \in S, k \in CacheKeys:
                     PatternMatches(p, k) => asked.names = {} \/ k[2] \in asked.names
    BY <1>1 DEF PatternsAbout
  <2>3. Tail(left) \in Seq(S) /\ Tail(left) # << >>
    <3>1. left \in Seq(S) /\ left # << >> /\ Len(left) # 0
      BY <1>1, <2>2 DEF PatternsAbout
    <3>2. Tail(left) \in Seq(S) /\ Len(Tail(left)) # 0
      BY <1>3, <3>1
    <3>. QED BY <3>2
  <2>4. PatternsAbout(rest.patterns, rest.names)
    BY <2>2, <2>3 DEF PatternsAbout
  <2>. HIDE DEF rest
  <2>. QED BY <2>1, <2>4 DEF RInv
<1>. QED BY <1>2, <1>3

LEMMA RInvInit == CacheInit => RInv
BY DEF CacheInit, RInv

LEMMA RInvStep == RInv /\ [CacheNext]_cacheVars => RInv'
<1>. SUFFICES ASSUME RInv, [CacheNext]_cacheVars PROVE RInv'
  OBVIOUS
<1>1. CASE UNCHANGED removals
  BY <1>1 DEF RInv
<1>2. ASSUME NEW i \in Removers,
             \/ ClearCache(i) \/ InvalidateSection(i, "notes")
             \/ \E k \in CacheKeys: Delete(i, k)
             \/ \E e \in Renderings: InvalidateEvent(i, e) \/ InvalidateProfile(i, e.pubkey)
      PROVE  RInv'
  BY <1>2, BeginningKeepsRInv, EventPatterns, ProfilePatterns, SectionPatterns, KeyAndAllPatterns
     DEF ClearCache, InvalidateSection, Delete, InvalidateEvent, InvalidateProfile
<1>3. CASE CacheTick \/ Cleanup \/ UNCHANGED cacheVars
  BY <1>1, <1>3 DEF CacheTick, Cleanup, cacheVars
<1>4. ASSUME NEW r \in Readers,
             \/ \E k \in CacheKeys, touches \in BOOLEAN: Lookup(r, k, touches)
             \/ DropExpired(r) \/ Hit(r)
      PROVE  RInv'
  BY <1>1, <1>4 DEF Lookup, DropExpired, Hit
<1>5. ASSUME NEW k \in CacheKeys, NEW size \in ValueSizes, NEW ttl \in Lifetimes,
             SetValue(k, size, ttl)
      PROVE  RInv'
  BY <1>1, <1>5 DEF SetValue
<1>. QED BY <1>2, <1>3, <1>4, <1>5, PatternKeepsRInv DEF CacheNext

LEMMA RInvHolds == CacheSpec => []RInv
BY RInvInit, RInvStep, PTL DEF CacheSpec

\* Whatever is in the cache was stored with one of the sizes and was last used no
\* later than now, and a reader judges an entry by a time that has passed (Get, Set
\* and the removals of memory.go).
THEOREM CacheTypes == CacheSpec => []CacheTypeOK
<1>1. CInv /\ RInv => CacheTypeOK
  <2>. SUFFICES ASSUME CInv, RInv PROVE CacheTypeOK
    OBVIOUS
  <2>1. ASSUME NEW k \in Cached PROVE entries[k] \in EntryType
    BY <2>1 DEF Cached, CInv, CacheTyped
  <2>2. ASSUME NEW r \in Readers, lookups[r] # NoLookup PROVE lookups[r] \in LookupType
    BY <2>2 DEF CInv, CacheTyped
  <2>3. \A i \in Removers: removals[i] # NoRemoval => removals[i].patterns # << >>
    BY DEF RInv, PatternsAbout
  <2>. QED BY <2>1, <2>2, <2>3 DEF CacheTypeOK, CInv, CacheTyped, EntryType, LookupType
<1>. QED BY <1>1, CInvHolds, RInvHolds, PTL

-------------------------------------------------------------------------------
(* The size. *)

\* Where nothing new comes in the sizes stay within their bound.
LEMMA SizeShrinks ==
  ASSUME CInv, CInv', SizeStaysBounded,
         \A k \in CacheKeys: \/ entries'[k] = Absent
                             \/ /\ entries[k] # Absent
                                /\ entries'[k].size = entries[k].size
  PROVE  SizeStaysBounded'
<1>. SUFFICES ASSUME MaxCacheSize > 0 PROVE SizeStaysBounded'
  BY DEF SizeStaysBounded
<1>. DEFINE now == [k \in Cached |-> entries[k].size]
<1>1. PICK f: f = [k \in Cached |-> entries[k].size]
  OBVIOUS
<1>2. PICK g: g = [k \in Cached' |-> entries'[k].size]
  OBVIOUS
<1>3. PICK T \in SUBSET Cached: T = Cached'
  <2>1. Cached' \in SUBSET Cached
    BY DEF Cached
  <2>. QED BY <2>1
<1>4. /\ IsFiniteSet(Cached) /\ IsFiniteSet(T)
      /\ \A k \in Cached: f[k] \in Nat
      /\ \A k \in T: g[k] = f[k] /\ entries'[k].size = entries[k].size
  BY <1>1, <1>2, <1>3, CachedEntries, FS_Subset DEF CInv, Cached
<1>5. TotalSize = SumFunctionOnSet(f, Cached) /\ TotalSize' = SumFunctionOnSet(g, T)
  BY <1>1, <1>2, <1>3 DEF TotalSize, SizeOf
<1>6. CASE TotalSize <= MaxCacheSize
  <2>1. SumFunctionOnSet(g, T) \in Nat /\ SumFunctionOnSet(g, T) <= SumFunctionOnSet(f, Cached)
    BY <1>3, <1>4, SumOfPart
  <2>2. TotalSize' <= MaxCacheSize
    BY <1>5, <1>6, <2>1, CachedEntries, CacheAssumption DEF CInv
  <2>. QED BY <2>2 DEF SizeStaysBounded
<1>7. ASSUME NEW k \in Cached, \A j \in Cached \ {k}: entries[j].size = 0
      PROVE  SizeStaysBounded'
  <2>1. CASE k \in T
    <3>1. \A j \in T \ {k}: entries'[j].size = 0
      BY <1>3, <1>4, <1>7
    <3>. QED BY <1>3, <2>1, <3>1 DEF SizeStaysBounded
  <2>2. CASE k \notin T
    <3>1. \A j \in T: g[j] = 0
      BY <1>1, <1>3, <1>4, <1>7, <2>2
    <3>2. TotalSize' = 0
      BY <1>4, <1>5, <3>1, SumOfZeros
    <3>. QED BY <3>2, CacheAssumption DEF SizeStaysBounded
  <2>. QED BY <2>1, <2>2
<1>. QED BY <1>6, <1>7 DEF SizeStaysBounded

\* A Set that evicts frees at least the room the new value takes, or everything.
LEMMA SetStaysBounded ==
  ASSUME CInv, CInv', SizeStaysBounded, MaxCacheSize > 0,
         NEW k \in CacheKeys, NEW size \in ValueSizes, NEW ttl \in Lifetimes,
         SetValue(k, size, ttl)
  PROVE  SizeStaysBounded'
<1>1. TotalSize \in Nat /\ size \in Nat /\ MaxCacheSize \in Nat
  BY CachedEntries, CacheAssumption DEF CInv
<1>2. PICK out: SetEvicting(k, size, ttl, out)
  BY <1>1, SetEvicts
<1>3. PICK f: f = [j \in Cached |-> entries[j].size]
  OBVIOUS
<1>4. PICK g: g = [j \in Cached' |-> entries'[j].size]
  OBVIOUS
<1>5. PICK kept \in SUBSET Cached: kept = Cached \ (out \union {k})
  OBVIOUS
<1>6. /\ Cached' = kept \union {k} /\ k \notin kept
      /\ entries'[k].size = size
      /\ \A j \in kept: entries'[j] = entries[j]
  <2>1. NewEntry(k, size, ttl) # Absent /\ NewEntry(k, size, ttl).size = size
    <3>1. FreeAddress(k) # 0
      BY AddressIsFree, AddressesPositive DEF CInv
    <3>. QED BY <3>1 DEF NewEntry, Absent
  <2>2. \A j \in CacheKeys: entries'[j] = IF j = k THEN NewEntry(k, size, ttl)
                                          ELSE IF j \in out THEN Absent ELSE entries[j]
    BY <1>2 DEF SetEvicting
  <2>. QED BY <1>5, <2>1, <2>2 DEF Cached
<1>7. /\ IsFiniteSet(Cached) /\ IsFiniteSet(kept)
      /\ \A j \in Cached: f[j] \in Nat /\ f[j] = entries[j].size
      /\ \A j \in kept: g[j] = f[j]
      /\ g[k] = size
  BY <1>3, <1>4, <1>5, <1>6, CachedEntries, FS_Subset DEF CInv
<1>8. TotalSize = SumFunctionOnSet(f, Cached) /\ TotalSize' = SumFunctionOnSet(g, kept \union {k})
  BY <1>3, <1>4, <1>6 DEF TotalSize, SizeOf
<1>9. /\ TotalSize' = size + SumFunctionOnSet(f, kept)
      /\ SumFunctionOnSet(f, kept) \in Nat
  <2>1. \A j \in kept \union {k}: g[j] \in Nat
    BY <1>1, <1>7
  <2>2. SumFunctionOnSet(g, kept \union {k}) = g[k] + SumFunctionOnSet(g, kept)
    BY <1>6, <1>7, <2>1, SumWith
  <2>3. SumFunctionOnSet(g, kept) = SumFunctionOnSet(f, kept)
    BY <1>7, SumSame
  <2>4. SumFunctionOnSet(f, kept) \in Nat
    BY <1>7, SumType
  <2>. QED BY <1>7, <1>8, <2>2, <2>3, <2>4
<1>10. ASSUME out \in SUBSET Cached, size <= SumFunctionOnSet(f, out)
       PROVE  TotalSize' <= TotalSize
  <2>. DEFINE rest == Cached \ out
  <2>1. /\ SumFunctionOnSet(f, Cached) = SumFunctionOnSet(f, out) + SumFunctionOnSet(f, rest)
        /\ SumFunctionOnSet(f, out) \in Nat /\ SumFunctionOnSet(f, rest) \in Nat
    BY <1>7, <1>10, SumSplits
  <2>2. SumFunctionOnSet(f, kept) <= SumFunctionOnSet(f, rest)
    <3>1. kept \in SUBSET rest /\ IsFiniteSet(rest) /\ \A j \in rest: f[j] \in Nat
      BY <1>5, <1>7, FS_Subset
    <3>. HIDE DEF rest
    <3>. QED BY <3>1, SumOfPart
  <2>. HIDE DEF rest
  <2>. QED BY <1>1, <1>8, <1>9, <1>10, <2>1, <2>2
<1>11. CASE TotalSize + size <= MaxCacheSize
  <2>1. SumFunctionOnSet(f, kept) <= SumFunctionOnSet(f, Cached)
    BY <1>5, <1>7, SumOfPart
  <2>2. TotalSize' <= MaxCacheSize
    BY <1>1, <1>8, <1>9, <1>11, <2>1
  <2>. QED BY <2>2 DEF SizeStaysBounded
<1>12. CASE out = Cached
  <2>1. k \in Cached' /\ \A j \in Cached' \ {k}: entries'[j].size = 0
    BY <1>5, <1>6, <1>12
  <2>. QED BY <2>1 DEF SizeStaysBounded
<1>13. CASE out \in SUBSET Cached /\ size <= SumFunctionOnSet(f, out)
  <2>1. CASE TotalSize <= MaxCacheSize
    <3>1. TotalSize' <= MaxCacheSize
      BY <1>1, <1>9, <1>10, <1>13, <2>1
    <3>. QED BY <3>1 DEF SizeStaysBounded
  <2>2. ASSUME NEW b \in Cached, \A j \in Cached \ {b}: entries[j].size = 0
        PROVE  SizeStaysBounded'
    <3>1. CASE b \notin kept
      <4>1. k \in Cached' /\ \A j \in Cached' \ {k}: entries'[j].size = 0
        BY <1>5, <1>6, <2>2, <3>1
      <4>. QED BY <4>1 DEF SizeStaysBounded
    <3>2. CASE b \in kept
      <4>1. IsFiniteSet(out) /\ \A j \in out: f[j] = 0
        BY <1>5, <1>7, <1>13, <2>2, <3>2, FS_Subset
      <4>2. size = 0
        BY <1>1, <1>13, <4>1, SumOfZeros
      <4>3. b \in Cached' /\ \A j \in Cached' \ {b}: entries'[j].size = 0
        BY <1>5, <1>6, <2>2, <3>2, <4>2
      <4>. QED BY <4>3 DEF SizeStaysBounded
    <3>. QED BY <3>1, <3>2
  <2>. QED BY <2>1, <2>2 DEF SizeStaysBounded
<1>14. \/ TotalSize + size <= MaxCacheSize
       \/ out = Cached
       \/ out \in SUBSET Cached /\ size <= SumFunctionOnSet(f, out)
  BY <1>1, <1>2, <1>3 DEF SetEvicting, Evictions, SizeOf
<1>. QED BY <1>11, <1>12, <1>13, <1>14

\* Whatever is set, read, expires or is invalidated, and however many readers are
\* between their two critical sections: the values fit the configured size, or all
\* but one of them are empty (Set and evictLRUWithoutLock, memory.go:71-103, 204-240).
THEOREM SizeIsBounded == CacheSpec => []SizeStaysBounded
<1>1. CacheInit => SizeStaysBounded
  <2>. SUFFICES ASSUME CacheInit PROVE SizeStaysBounded
    OBVIOUS
  <2>1. Cached = {}
    BY DEF CacheInit, Cached
  <2>2. TotalSize = 0
    BY <2>1, SumOfNothing DEF TotalSize, SizeOf
  <2>. QED BY <2>2, CacheAssumption DEF SizeStaysBounded
<1>2. CInv /\ CInv' /\ SizeStaysBounded /\ [CacheNext]_cacheVars => SizeStaysBounded'
  <2>. SUFFICES ASSUME CInv, CInv', SizeStaysBounded, MaxCacheSize > 0, [CacheNext]_cacheVars
                PROVE  SizeStaysBounded'
    BY DEF SizeStaysBounded
  <2>1. CASE entries' = entries
    BY <2>1, SizeShrinks
  <2>2. CASE Removal \/ \E r \in Readers: DropExpired(r)
    BY <2>2, Forgetting, SizeShrinks
  <2>3. ASSUME NEW r \in Readers, Hit(r) PROVE SizeStaysBounded'
    BY <2>3, HitKeepsInv, SizeShrinks
  <2>4. CASE CallBegins
    BY <2>1, <2>4, CallsOnlyBegin
  <2>. QED BY <2>1, <2>2, <2>3, <2>4, SetStaysBounded
           DEF CacheNext, Removal, CallBegins, CacheTick, Lookup, cacheVars
<1>. QED BY <1>1, <1>2, CInvHolds, PTL DEF CacheSpec

-------------------------------------------------------------------------------
(* Fresh values. *)

\* A value that has not expired leaves the cache only because a Set lacks room and keeps
\* nothing older, because a call names it, or because a reader that met its expired
\* predecessor deletes what is there now (memory.go:44-68, 123-151; invalidator.go:25-166).
THEOREM OnlyTheseDropFreshValues == CacheSpec => FreshEntriesStay
<1>. DEFINE Excused(k) ==
       \/ \E new \in CacheKeys : EvictedBy(k, new)
       \/ \E i \in Removers : RemovedBy(i, k)
       \/ \E r \in Readers : /\ lookups[r] # NoLookup /\ lookups'[r] = NoLookup
                             /\ lookups[r].key = k /\ lookups[r].address # entries[k].address
<1>1. CInv /\ RInv /\ [CacheNext]_cacheVars =>
        [\A k \in CacheKeys : LeavesUnasked(k) => Excused(k)]_cacheVars
  <2>. SUFFICES ASSUME CInv, RInv, [CacheNext]_cacheVars, NEW k \in CacheKeys, LeavesUnasked(k)
                PROVE  Excused(k)
    OBVIOUS
  <2>1. /\ k \in Cached /\ cacheTime <= entries[k].expires
        /\ entries[k] # Absent /\ entries'[k] = Absent
        /\ entries[k] \in EntryType /\ cacheTime \in Nat
    BY CachedEntries DEF LeavesUnasked, Live, Cached, CInv, CacheTyped
  <2>2. ASSUME NEW r \in Readers, DropExpired(r) PROVE Excused(k)
    <3>1. lookups[r] # NoLookup /\ cacheTime > lookups[r].expires /\ lookups[r].key = k
      BY <2>1, <2>2 DEF DropExpired, CInv, CacheTyped
    <3>2. lookups'[r] = NoLookup
      BY <2>2 DEF DropExpired, CInv, CacheTyped
    <3>3. lookups[r].address # entries[k].address
      BY <2>1, <3>1 DEF CInv, CacheTyped, SharedEntriesAgree, EntryType, LookupType
    <3>. QED BY <3>1, <3>2, <3>3
  <2>3. ASSUME NEW new \in CacheKeys, NEW size \in ValueSizes, NEW ttl \in Lifetimes,
               SetValue(new, size, ttl)
        PROVE  Excused(k)
    <3>1. TotalSize \in Nat /\ size \in Nat
      BY CachedEntries, CacheAssumption DEF CInv
    <3>2. PICK out: SetEvicting(new, size, ttl, out)
      BY <2>3, <3>1, SetEvicts
    <3>3. \A j \in CacheKeys: entries'[j] = IF j = new THEN NewEntry(new, size, ttl)
                                            ELSE IF j \in out THEN Absent ELSE entries[j]
      BY <3>2 DEF SetEvicting
    <3>4. /\ NewEntry(new, size, ttl) # Absent /\ NewEntry(new, size, ttl).size = size
          /\ NewEntry(new, size, ttl).accessed = cacheTime
      <4>1. FreeAddress(new) # 0
        BY AddressIsFree, AddressesPositive DEF CInv
      <4>. QED BY <4>1 DEF NewEntry, Absent
    <3>5. k # new /\ k \in out
      BY <2>1, <3>3, <3>4
    <3>6. TotalSize + size > MaxCacheSize /\ LeastRecent(out)
      BY <3>2, <3>5 DEF SetEvicting, Evictions
    <3>7. \A kept \in CacheKeys \ {new}: entries'[kept] # Absent =>
            kept \in Cached \ out /\ entries'[kept] = entries[kept]
      BY <3>3 DEF Cached
    <3>8. NewEntry(new, size, ttl).address # entries[new].address
      BY AddressIsFree DEF CInv, NewEntry
    <3>9. EvictedBy(k, new)
      BY <3>3, <3>4, <3>5, <3>6, <3>7, <3>8 DEF EvictedBy, LeastRecent
    <3>. QED BY <3>9
  <2>4. CASE Cleanup
    <3>1. cacheTime > entries[k].expires
      BY <2>1, <2>4 DEF Cleanup, Drop
    <3>. QED BY <2>1, <3>1 DEF EntryType
  <2>5. ASSUME NEW i \in Removers, InvalidatePattern(i) PROVE Excused(k)
    <3>. PICK asked: asked = removals[i]
      OBVIOUS
    <3>. PICK left: left = asked.patterns
      OBVIOUS
    <3>1. asked # NoRemoval /\ PatternsAbout(left, asked.names)
      BY <2>5 DEF InvalidatePattern, RInv
    <3>2. PatternMatches(Head(left), k)
      BY <2>1, <2>5 DEF InvalidatePattern, Drop
    <3>3. PICK S: /\ left \in Seq(S)
                  /\ \A p \in S, j \in CacheKeys:
                       PatternMatches(p, j) => asked.names = {} \/ j[2] \in asked.names
      BY <3>1 DEF PatternsAbout
    <3>4. Head(left) \in S
      BY <3>1, <3>3 DEF PatternsAbout
    <3>5. asked.names # {} => k[2] \in asked.names
      BY <3>2, <3>3, <3>4
    <3>6. removals'[i] # asked
      <4>1. CASE Len(left) = 1
        BY <2>5, <3>1, <4>1 DEF InvalidatePattern, RInv
      <4>2. CASE Len(left) # 1
        <5>1. removals'[i].patterns = Tail(left)
          BY <2>5, <4>2 DEF InvalidatePattern, RInv
        <5>2. Tail(left) # left
          <6>1. Len(Tail(left)) # Len(left)
            BY <3>1, <3>3 DEF PatternsAbout
          <6>. QED BY <6>1
        <5>. QED BY <5>1, <5>2
      <4>. QED BY <4>1, <4>2
    <3>. QED BY <3>1, <3>2, <3>5, <3>6 DEF RemovedBy
  <2>6. ASSUME NEW r \in Readers, Hit(r) PROVE FALSE
    BY <2>1, <2>6, HitKeepsInv
  <2>7. CASE UNCHANGED entries
    BY <2>1, <2>7
  <2>8. CASE CallBegins
    BY <2>7, <2>8, CallsOnlyBegin
  <2>. HIDE DEF Excused
  <2>. QED
    BY <2>2, <2>3, <2>4, <2>5, <2>6, <2>7, <2>8
       DEF CacheNext, CallBegins, CacheTick, Lookup, cacheVars
<1>. QED BY <1>1, CInvHolds, RInvHolds, PTL DEF CacheSpec, FreshEntriesStay

-------------------------------------------------------------------------------
(* The limiter: its types and its balance. *)

Calls ==
  {Resting} \union [pc: {"create", "take"}, client: Clients, bucket: Nat]

Bucket == [tokens: Nat, lastRefill: Nat]

HeapOK ==
  /\ heap \in Seq(Bucket)
  /\ \A n \in 1 .. Len(heap): heap[n].tokens <= Rate /\ heap[n].lastRefill <= limiterTime

CallersOK ==
  /\ callers \in [Callers -> Calls]
  /\ \A t \in Callers: callers[t].pc = "take" => callers[t].bucket \in 1 .. Len(heap)

Typed ==
  /\ limiterTime \in Nat
  /\ HeapOK /\ CallersOK
  /\ buckets \in [Clients -> Nat] /\ \A c \in Clients: buckets[c] <= Len(heap)
  /\ granted \in [Clients -> Nat] /\ extra \in [Clients -> Nat] /\ swept \in [Clients -> Nat]

\* The callers about to take a token from a bucket that has left the table.
Late(c) == {t \in Callers: /\ callers[t].pc = "take" /\ callers[t].client = c
                           /\ callers[t].bucket # buckets[c]}

C == Cardinality(Callers)

\* What a client was given besides its first bucket and the time.
Bonus(c) == extra[c] * (Rate + C) + swept[c] * Stragglers

\* What is left in a bucket, with the time since its last refill put against it.
Credit(b) == Window * b.tokens - Rate * b.lastRefill

Balanced(c) ==
  LET spent == Window * granted[c] + Window * Cardinality(Late(c))
  IN  /\ buckets[c] = 0 => spent <= Rate * limiterTime + Window * Bonus(c)
      /\ buckets[c] # 0 => spent + Credit(heap[buckets[c]]) <= Window * Rate + Window * Bonus(c)

LInv == Typed /\ \A c \in Clients: Balanced(c)

-------------------------------------------------------------------------------
(* The limiter: arithmetic. *)

LEMMA TimesType == \A m, n \in Nat: m * n \in Nat
OBVIOUS

LEMMA TimesMonotonic ==
  ASSUME NEW k \in Nat, NEW m \in Int, NEW n \in Int, m <= n
  PROVE  k * m <= k * n /\ k * m \in Int /\ k * n \in Int
OBVIOUS

LEMMA Distributes ==
  ASSUME NEW k \in Nat, NEW m \in Int, NEW n \in Int
  PROVE  k * (m + n) = k * m + k * n /\ k * (m - n) = k * m - k * n
OBVIOUS

LEMMA QuotientBelow ==
  ASSUME NEW k \in Nat, NEW n \in Nat \ {0}
  PROVE  k \div n \in Nat /\ n * (k \div n) <= k
OBVIOUS

LEMMA StragglersType ==
  /\ C \in Nat /\ Stragglers \in Nat /\ C <= Rate + Stragglers
BY LimiterAssumption, FS_CardinalityType DEF Stragglers, C

LEMMA RefillCredits ==
  ASSUME limiterTime \in Nat,
         NEW b \in Bucket, b.tokens <= Rate, b.lastRefill <= limiterTime
  PROVE  /\ Refill(b) \in Bucket
         /\ Refill(b).tokens <= Rate /\ Refill(b).lastRefill <= limiterTime
         /\ Credit(Refill(b)) <= Credit(b)
<1>. USE LimiterAssumption
<1>. DEFINE elapsed == limiterTime - b.lastRefill
            added == (Rate * elapsed) \div Window
            sum == b.tokens + added
            most == IF sum > Rate THEN Rate ELSE sum
            last == IF added > 0 THEN limiterTime ELSE b.lastRefill
<1>1. b.tokens \in Nat /\ b.lastRefill \in Nat
  BY DEF Bucket
<1>2. elapsed \in Nat /\ Rate * elapsed \in Nat
  BY <1>1, TimesType
<1>3. Rate * elapsed = Rate * limiterTime - Rate * b.lastRefill
  BY <1>1, Distributes
<1>4. added \in Nat /\ Window * added <= Rate * elapsed
  BY <1>2, QuotientBelow
<1>5. CASE elapsed >= Window
  <2>1. Refill(b) = [tokens |-> Rate, lastRefill |-> limiterTime]
    BY <1>5 DEF Refill
  <2>2. Rate * Window <= Rate * elapsed
    BY <1>2, <1>5, TimesMonotonic
  <2>3. Rate * Window = Window * Rate /\ Window * b.tokens \in Nat
    BY <1>1, TimesType
  <2>4. Credit(Refill(b)) = Window * Rate - Rate * limiterTime
    BY <2>1 DEF Credit
  <2>5. Credit(Refill(b)) <= Credit(b)
    <3>. HIDE DEF elapsed, added, sum, most, last
    <3>1. /\ Window * Rate \in Int /\ Rate * limiterTime \in Int /\ Rate * b.lastRefill \in Int
          /\ Rate * elapsed \in Int
      BY <1>1, <1>2, TimesType
    <3>. QED BY <1>3, <2>2, <2>3, <2>4, <3>1 DEF Credit
  <2>. QED BY <1>1, <2>1, <2>5 DEF Bucket
<1>6. CASE ~(elapsed >= Window)
  <2>1. Refill(b) = [tokens |-> most, lastRefill |-> last]
    BY <1>6 DEF Refill
  <2>2. sum \in Nat /\ most \in Nat /\ most <= Rate /\ last \in Nat /\ last <= limiterTime
    BY <1>1, <1>4
  <2>3. most <= sum /\ Window * most <= Window * sum /\ Window * sum = Window * b.tokens + Window * added
    <3>1. most <= sum
      BY <2>2
    <3>. HIDE DEF most, added
    <3>. QED BY <1>1, <1>4, <2>2, <3>1, TimesMonotonic, Distributes
  <2>4. Rate * last \in Int /\ Window * most \in Int /\ Window * b.tokens \in Int
        /\ Rate * limiterTime \in Int /\ Rate * b.lastRefill \in Int /\ Window * added \in Int
        /\ Window * sum \in Int
    BY <1>1, <1>4, <2>2, TimesType
  <2>5. CASE added > 0
    <3>1. last = limiterTime
      BY <2>5
    <3>2. Window * most - Rate * last <= Window * b.tokens - Rate * b.lastRefill
      <4>. HIDE DEF elapsed, added, sum, most, last
      <4>. QED BY <1>2, <1>3, <1>4, <2>3, <2>4, <3>1
    <3>. QED BY <2>1, <2>2, <3>2 DEF Bucket, Credit
  <2>6. CASE ~(added > 0)
    <3>1. last = b.lastRefill /\ most = b.tokens
      BY <1>1, <1>4, <2>6
    <3>. QED BY <2>1, <2>2, <3>1 DEF Bucket, Credit
  <2>. QED BY <2>5, <2>6
<1>. QED BY <1>5, <1>6

-------------------------------------------------------------------------------
(* The parts of the balance. *)

LEMMA LateType ==
  ASSUME NEW c \in Clients
  PROVE  IsFiniteSet(Late(c)) /\ Cardinality(Late(c)) \in Nat /\ Cardinality(Late(c)) <= C
<1>1. Late(c) \subseteq Callers
  BY DEF Late
<1>2. IsFiniteSet(Callers) /\ IsFiniteSet(Late(c)) /\ Cardinality(Late(c)) <= Cardinality(Callers)
  BY <1>1, LimiterAssumption, FS_Subset
<1>. QED BY <1>2, FS_CardinalityType DEF C

\* The numbers a balance is made of.
LEMMA PartsTyped ==
  ASSUME Typed, NEW c \in Clients
  PROVE  /\ granted[c] \in Nat /\ extra[c] \in Nat /\ swept[c] \in Nat /\ buckets[c] \in Nat
         /\ Cardinality(Late(c)) \in Nat /\ Bonus(c) \in Nat
         /\ Window * granted[c] \in Nat /\ Window * Cardinality(Late(c)) \in Nat
         /\ Window * Bonus(c) \in Nat /\ Rate * limiterTime \in Nat /\ Window * Rate \in Nat
<1>1. granted[c] \in Nat /\ extra[c] \in Nat /\ swept[c] \in Nat /\ buckets[c] \in Nat
      /\ limiterTime \in Nat
  BY DEF Typed
<1>2. Cardinality(Late(c)) \in Nat
  BY LateType
<1>3. Bonus(c) \in Nat
  <2>1. Rate + C \in Nat /\ Stragglers \in Nat
    BY StragglersType, LimiterAssumption
  <2>2. extra[c] * (Rate + C) \in Nat /\ swept[c] * Stragglers \in Nat
    BY <1>1, <2>1, TimesType
  <2>. QED BY <2>2 DEF Bonus
<1>. QED BY <1>1, <1>2, <1>3, TimesType, LimiterAssumption

PartsAreNumbers ==
  \A c \in Clients: Window * Cardinality(Late(c)) \in Nat /\ Window * Bonus(c) \in Nat

LEMMA PartsNumbered == Typed => PartsAreNumbers
BY PartsTyped DEF PartsAreNumbers

LEMMA BucketTyped ==
  ASSUME Typed, NEW n \in 1 .. Len(heap)
  PROVE  /\ heap[n] \in Bucket /\ heap[n].tokens <= Rate /\ heap[n].lastRefill <= limiterTime
         /\ heap[n].tokens \in Nat /\ heap[n].lastRefill \in Nat
         /\ Window * heap[n].tokens \in Nat /\ Rate * heap[n].lastRefill \in Nat
         /\ Rate * heap[n].lastRefill <= Rate * limiterTime
         /\ Credit(heap[n]) \in Int
<1>1. heap[n] \in Bucket /\ heap[n].tokens <= Rate /\ heap[n].lastRefill <= limiterTime
      /\ limiterTime \in Nat
  BY DEF Typed, HeapOK
<1>2. heap[n].tokens \in Nat /\ heap[n].lastRefill \in Nat
  BY <1>1 DEF Bucket
<1>3. Window * heap[n].tokens \in Nat /\ Rate * heap[n].lastRefill \in Nat
  BY <1>2, TimesType, LimiterAssumption
<1>4. Rate * heap[n].lastRefill <= Rate * limiterTime
  BY <1>1, <1>2, TimesMonotonic, LimiterAssumption
<1>. QED BY <1>1, <1>2, <1>3, <1>4 DEF Credit

LEMMA InTable ==
  ASSUME Typed, NEW c \in Clients, buckets[c] # 0
  PROVE  buckets[c] \in 1 .. Len(heap)
<1>1. buckets[c] \in Nat /\ buckets[c] <= Len(heap) /\ Len(heap) \in Nat
  BY DEF Typed, HeapOK
<1>. QED BY <1>1

\* Whatever a client may still get, it never got more than its allowance.
LEMMA BalanceBounds ==
  ASSUME LInv, NEW c \in Clients
  PROVE  Window * granted[c] + Window * Cardinality(Late(c))
           <= Window * Rate + Window * Bonus(c) + Rate * limiterTime
<1>1. Typed /\ Balanced(c)
  BY DEF LInv
<1>. DEFINE g == Window * granted[c]
            h == Window * Cardinality(Late(c))
            k == Window * Bonus(c)
            r == Rate * limiterTime
            f == Window * Rate
            b == heap[buckets[c]]
<1>2. g \in Nat /\ h \in Nat /\ k \in Nat /\ r \in Nat /\ f \in Nat
  BY <1>1, PartsTyped
<1>3. buckets[c] = 0 => g + h <= r + k
  BY <1>1 DEF Balanced
<1>4. buckets[c] # 0 => g + h + Credit(b) <= f + k
  BY <1>1 DEF Balanced
<1>5. buckets[c] # 0 => /\ Window * b.tokens \in Nat /\ Rate * b.lastRefill \in Nat
                        /\ Rate * b.lastRefill <= r
  BY <1>1, InTable, BucketTyped
<1>6. Credit(b) = Window * b.tokens - Rate * b.lastRefill
  BY DEF Credit
<1>. HIDE DEF g, h, k, r, f, b
<1>7. g + h <= f + k + r
  BY <1>2, <1>3, <1>4, <1>5, <1>6
<1>. QED BY <1>7 DEF g, h, k, r, f

\* A step that spends nothing and gives nothing.
LEMMA BalanceKept ==
  ASSUME LInv, Typed', NEW c \in Clients,
         limiterTime <= limiterTime', buckets'[c] = buckets[c],
         granted'[c] = granted[c], extra'[c] = extra[c], swept'[c] = swept[c],
         Late(c)' \subseteq Late(c),
         buckets[c] # 0 => Credit(heap'[buckets[c]]) <= Credit(heap[buckets[c]])
  PROVE  Balanced(c)'
<1>. DEFINE g == Window * granted[c]
            h == Window * Cardinality(Late(c))
            k == Window * Bonus(c)
            r == Rate * limiterTime
            f == Window * Rate
            n == buckets[c]
            b == heap[n]
            d == heap'[n]
            hNew == Window * Cardinality(Late(c)')
            rNew == Rate * limiterTime'
<1>1. Typed /\ Balanced(c) /\ limiterTime \in Nat /\ limiterTime' \in Nat
  BY DEF LInv, Typed
<1>2. g \in Nat /\ h \in Nat /\ k \in Nat /\ r \in Nat /\ f \in Nat
  BY <1>1, PartsTyped
<1>3. hNew <= h /\ hNew \in Nat
  <2>1. IsFiniteSet(Late(c)) /\ Cardinality(Late(c)) \in Nat
    BY LateType
  <2>2. IsFiniteSet(Late(c)') /\ Cardinality(Late(c)') <= Cardinality(Late(c))
        /\ Cardinality(Late(c)') \in Nat
    BY <2>1, FS_Subset, FS_CardinalityType
  <2>. QED BY <2>1, <2>2, TimesMonotonic, TimesType, LimiterAssumption
<1>4. r <= rNew /\ rNew \in Nat
  <2>1. limiterTime \in Int /\ limiterTime' \in Int /\ limiterTime <= limiterTime' /\ Rate \in Nat
    BY <1>1, LimiterAssumption
  <2>2. rNew \in Nat
    BY <1>1, <2>1, TimesType
  <2>. QED BY <2>1, <2>2, TimesMonotonic
<1>5. n = 0 => g + h <= r + k
  BY <1>1 DEF Balanced
<1>6. n # 0 => g + h + Credit(b) <= f + k
  BY <1>1 DEF Balanced
<1>7. Bonus(c)' = Bonus(c)
  BY DEF Bonus
<1>8. n # 0 => Credit(b) \in Int /\ Credit(d) \in Int
  <2>1. ASSUME n # 0 PROVE Credit(b) \in Int
    BY <1>1, <2>1, InTable, BucketTyped
  <2>2. ASSUME n # 0 PROVE Credit(d) \in Int
    <3>1. d \in Bucket
      BY <2>2 DEF Typed, HeapOK
    <3>2. Window * d.tokens \in Nat /\ Rate * d.lastRefill \in Nat
      BY <3>1, TimesType, LimiterAssumption DEF Bucket
    <3>. QED BY <3>2 DEF Credit
  <2>. QED BY <2>1, <2>2
<1>9. n # 0 => Credit(d) <= Credit(b)
  OBVIOUS
<1>10. Balanced(c)' <=> /\ n = 0 => g + hNew <= rNew + k
                        /\ n # 0 => g + hNew + Credit(d) <= f + k
  BY <1>7 DEF Balanced, Credit
<1>. HIDE DEF g, h, k, r, f, n, b, d, hNew, rNew
<1>11. n = 0 => g + hNew <= rNew + k
  BY <1>2, <1>3, <1>4, <1>5
<1>12. n # 0 => g + hNew + Credit(d) <= f + k
  BY <1>2, <1>3, <1>6, <1>8, <1>9
<1>. QED BY <1>10, <1>11, <1>12

LEMMA CallTyped ==
  ASSUME CallersOK, NEW t \in Callers
  PROVE  /\ callers[t].pc = "resting" <=> callers[t] = Resting
         /\ callers[t].pc \in {"resting", "create", "take"}
         /\ callers[t].pc # "resting" =>
              callers[t] \in [pc: {"create", "take"}, client: Clients, bucket: Nat]
BY DEF CallersOK, Calls, Resting

-------------------------------------------------------------------------------
(* The steps. *)

LEMMA TickInv == ASSUME LInv, LimiterTick PROVE LInv'
<1>1. limiterTime \in Nat /\ limiterTime' = limiterTime + 1
      /\ UNCHANGED <<heap, buckets, callers, granted, extra, swept>>
  BY DEF LInv, Typed, LimiterTick
<1>2. Typed'
  <2>1. \A n \in 1 .. Len(heap): heap[n].lastRefill \in Nat
    BY BucketTyped DEF LInv
  <2>2. HeapOK'
    BY <1>1, <2>1 DEF LInv, Typed, HeapOK
  <2>. QED BY <1>1, <2>2 DEF LInv, Typed, CallersOK
<1>3. ASSUME NEW c \in Clients PROVE Balanced(c)'
  <2>1. Late(c)' = Late(c)
    BY <1>1 DEF Late
  <2>2. buckets[c] # 0 => Credit(heap'[buckets[c]]) <= Credit(heap[buckets[c]])
    BY <1>1, InTable, BucketTyped DEF LInv
  <2>. QED BY <1>1, <1>2, <2>1, <2>2, BalanceKept
<1>. QED BY <1>2, <1>3 DEF LInv

LEMMA FindBucketInv ==
  ASSUME LInv, NEW t \in Callers, NEW c \in Clients, FindBucket(t, c)
  PROVE  LInv'
<1>. DEFINE call == [pc |-> IF buckets[c] = 0 THEN "create" ELSE "take",
                     client |-> c, bucket |-> buckets[c]]
<1>1. /\ callers[t] = Resting /\ callers' = [callers EXCEPT ![t] = call]
      /\ UNCHANGED <<limiterTime, heap, buckets, granted, extra, swept>>
  BY DEF FindBucket
<1>2. CallersOK /\ buckets[c] \in Nat /\ limiterTime \in Nat
  BY DEF LInv, Typed
<1>3. /\ call \in Calls /\ call.client = c /\ call.bucket = buckets[c]
      /\ call.pc = "take" => buckets[c] # 0
  BY <1>2 DEF Calls
<1>. HIDE DEF call
<1>4. \A s \in Callers: callers'[s] = IF s = t THEN call ELSE callers[s]
  BY <1>1, <1>2 DEF CallersOK
<1>5. CallersOK'
  <2>1. callers' \in [Callers -> Calls]
    BY <1>1, <1>2, <1>3 DEF CallersOK
  <2>2. call.pc = "take" => call.bucket \in 1 .. Len(heap)
    BY <1>3, InTable DEF LInv
  <2>. QED BY <1>1, <1>2, <1>4, <2>1, <2>2 DEF CallersOK
<1>6. Typed'
  BY <1>1, <1>5 DEF LInv, Typed, HeapOK
<1>7. ASSUME NEW d \in Clients PROVE Balanced(d)'
  <2>1. Late(d)' \subseteq Late(d)
    BY <1>1, <1>3, <1>4 DEF Late
  <2>2. buckets[d] # 0 => Credit(heap'[buckets[d]]) <= Credit(heap[buckets[d]])
    BY <1>1, InTable, BucketTyped DEF LInv
  <2>. QED BY <1>1, <1>2, <1>6, <2>1, <2>2, BalanceKept
<1>. QED BY <1>6, <1>7 DEF LInv

LEMMA TakeTokenInv ==
  ASSUME LInv, NEW t \in Callers, TakeToken(t)
  PROVE  LInv'
<1>0. PICK c, n: c = callers[t].client /\ n = callers[t].bucket
  OBVIOUS
<1>. DEFINE b == Refill(heap[n])
            allowed == IF b.tokens > 0 THEN 1 ELSE 0
            left == [b EXCEPT !.tokens = @ - allowed]
<1>1. /\ heap' = [heap EXCEPT ![n] = left]
      /\ granted' = [granted EXCEPT ![c] = @ + allowed]
      /\ callers' = [callers EXCEPT ![t] = Resting]
      /\ UNCHANGED <<limiterTime, buckets, extra, swept>>
      /\ callers[t].pc = "take"
  BY <1>0 DEF TakeToken
<1>2. Typed /\ CallersOK /\ limiterTime \in Nat
  BY DEF LInv, Typed
<1>3. n \in 1 .. Len(heap) /\ c \in Clients
  BY <1>0, <1>1, <1>2, CallTyped DEF CallersOK
<1>4. /\ heap[n] \in Bucket /\ heap[n].tokens <= Rate /\ heap[n].lastRefill <= limiterTime
      /\ Credit(heap[n]) \in Int
  BY <1>2, <1>3, BucketTyped
<1>5. /\ b \in Bucket /\ b.tokens <= Rate /\ b.lastRefill <= limiterTime
      /\ Credit(b) <= Credit(heap[n])
  BY <1>2, <1>4, RefillCredits
<1>. HIDE DEF b
<1>6. /\ allowed \in {0, 1} /\ left \in Bucket /\ left.tokens = b.tokens - allowed
      /\ left.lastRefill = b.lastRefill /\ b.tokens \in Nat /\ b.lastRefill \in Nat
      /\ left.tokens <= Rate
  BY <1>5, LimiterAssumption DEF Bucket
<1>. HIDE DEF left, allowed
<1>7. /\ Credit(left) + Window * allowed = Credit(b)
      /\ Credit(left) \in Int /\ Credit(b) \in Int /\ Window * allowed \in Nat
  <2>1. Window * left.tokens = Window * b.tokens - Window * allowed
    BY <1>6, Distributes, LimiterAssumption
  <2>2. Window * allowed \in Nat /\ Window * b.tokens \in Nat /\ Rate * b.lastRefill \in Nat
    BY <1>6, TimesType, LimiterAssumption
  <2>. QED BY <1>6, <2>1, <2>2 DEF Credit
<1>8. Credit(left) <= Credit(heap[n])
  BY <1>4, <1>5, <1>7
<1>9. /\ heap' \in Seq(Bucket) /\ Len(heap') = Len(heap)
      /\ \A m \in 1 .. Len(heap): heap'[m] = IF m = n THEN left ELSE heap[m]
  BY <1>1, <1>2, <1>3, <1>6 DEF Typed, HeapOK
<1>10. \A s \in Callers: callers'[s] = IF s = t THEN Resting ELSE callers[s]
  BY <1>1, <1>2 DEF CallersOK
<1>11. Typed'
  <2>1. HeapOK'
    BY <1>1, <1>2, <1>5, <1>6, <1>9 DEF Typed, HeapOK
  <2>2. CallersOK'
    <3>1. callers' \in [Callers -> Calls]
      BY <1>1, <1>2 DEF CallersOK, Calls
    <3>2. Resting.pc # "take"
      BY DEF Resting
    <3>. QED BY <1>2, <1>9, <1>10, <3>1, <3>2 DEF CallersOK
  <2>3. granted' \in [Clients -> Nat]
    BY <1>1, <1>2, <1>3, <1>6 DEF Typed
  <2>. QED BY <1>1, <1>2, <1>9, <2>1, <2>2, <2>3 DEF Typed
<1>12. \A d \in Clients: Late(d)' = Late(d) \ {t}
  BY <1>1, <1>10 DEF Late, Resting
<1>13. \A m \in 1 .. Len(heap): Credit(heap'[m]) <= Credit(heap[m])
  <2>. TAKE m \in 1 .. Len(heap)
  <2>1. Credit(heap[m]) \in Int
    BY <1>2, BucketTyped
  <2>. QED BY <1>8, <1>9, <2>1
<1>14. ASSUME NEW d \in Clients, d # c PROVE Balanced(d)'
  <2>1. granted'[d] = granted[d]
    BY <1>1, <1>2, <1>14 DEF Typed
  <2>2. Late(d)' \subseteq Late(d)
    BY <1>12
  <2>3. buckets[d] # 0 => Credit(heap'[buckets[d]]) <= Credit(heap[buckets[d]])
    BY <1>2, <1>13, InTable
  <2>. QED BY <1>1, <1>2, <1>11, <2>1, <2>2, <2>3, BalanceKept
<1>15. Balanced(c)'
  <2>. DEFINE g == Window * granted[c]
              h == Window * Cardinality(Late(c))
              k == Window * Bonus(c)
              r == Rate * limiterTime
              f == Window * Rate
              m == buckets[c]
              a == Window * allowed
              gNew == Window * granted'[c]
              hNew == Window * Cardinality(Late(c)')
  <2>1. g \in Nat /\ h \in Nat /\ k \in Nat /\ r \in Nat /\ f \in Nat /\ a \in Nat
    BY <1>2, <1>3, <1>7, PartsTyped
  <2>2. gNew = g + a
    <3>1. granted[c] \in Nat /\ granted'[c] = granted[c] + allowed
      BY <1>1, <1>2, <1>3 DEF Typed
    <3>. QED BY <1>6, <3>1, Distributes, LimiterAssumption
  <2>3. Bonus(c)' = Bonus(c) /\ m' = m /\ r' = r
    BY <1>1 DEF Bonus
  <2>4. Balanced(c)' <=> /\ m = 0 => gNew + hNew <= r + k
                         /\ m # 0 => gNew + hNew + Credit(heap'[m]) <= f + k
    BY <2>3 DEF Balanced, Credit
  <2>5. /\ m = 0 => g + h <= r + k
        /\ m # 0 => g + h + Credit(heap[m]) <= f + k
    BY <1>3 DEF LInv, Balanced
  <2>6. CASE n = m
    <3>1. t \notin Late(c)
      BY <1>0, <2>6 DEF Late
    <3>2. hNew = h
      BY <1>3, <1>12, <3>1
    <3>3. m # 0 /\ Credit(heap'[m]) = Credit(left) /\ Credit(left) + a <= Credit(heap[m])
          /\ Credit(heap[m]) \in Int
      BY <1>3, <1>4, <1>5, <1>7, <1>9, <2>6
    <3>. HIDE DEF g, h, k, r, f, m, a, gNew, hNew
    <3>4. gNew + hNew + Credit(heap'[m]) <= f + k
      BY <1>7, <2>1, <2>2, <2>5, <3>2, <3>3
    <3>. QED BY <2>4, <3>3, <3>4
  <2>7. CASE n # m
    <3>1. t \in Late(c)
      BY <1>0, <1>1, <2>7 DEF Late
    <3>2. /\ Cardinality(Late(c)') = Cardinality(Late(c)) - 1
          /\ Cardinality(Late(c)) \in Nat
      BY <1>3, <1>12, <3>1, LateType, FS_RemoveElement
    <3>3. hNew = h - Window
      BY <3>2, Distributes, LimiterAssumption
    <3>4. a <= Window
      BY <1>6, LimiterAssumption
    <3>5. m # 0 => /\ Credit(heap'[m]) <= Credit(heap[m])
                   /\ Credit(heap'[m]) \in Int /\ Credit(heap[m]) \in Int
      <4>1. m # 0 => m \in 1 .. Len(heap)
        BY <1>2, <1>3, InTable
      <4>2. m # 0 => heap'[m] = heap[m]
        BY <1>9, <2>7, <4>1
      <4>. QED BY <1>2, <4>1, <4>2, BucketTyped
    <3>6. Window \in Nat
      BY LimiterAssumption
    <3>. HIDE DEF g, h, k, r, f, m, a, gNew, hNew
    <3>7. m = 0 => gNew + hNew <= r + k
      BY <2>1, <2>2, <2>5, <3>3, <3>4, <3>6
    <3>8. m # 0 => gNew + hNew + Credit(heap'[m]) <= f + k
      BY <2>1, <2>2, <2>5, <3>3, <3>4, <3>5, <3>6
    <3>. QED BY <2>4, <3>7, <3>8
  <2>. QED BY <2>6, <2>7
<1>. QED BY <1>11, <1>14, <1>15 DEF LInv

\* A bucket that leaves the table, replaced or reset, is paid for by a full one and
\* a request of every caller; what its client may still get then has no bucket.
LEMMA Reimbursed ==
  ASSUME LInv, NEW c \in Clients, buckets[c] # 0, Late(c)' \subseteq Callers,
         granted'[c] = granted[c], extra'[c] = extra[c] + 1, swept'[c] = swept[c]
  PROVE  Window * granted'[c] + Window * Cardinality(Late(c)')
           <= Rate * limiterTime + Window * Bonus(c)'
<1>. DEFINE g == Window * granted[c]
            h == Window * Cardinality(Late(c))
            k == Window * Bonus(c)
            r == Rate * limiterTime
            f == Window * Rate
            hNew == Window * Cardinality(Late(c)')
            kNew == Window * Bonus(c)'
            w == Window * C
<1>1. Typed
  BY DEF LInv
<1>2. g \in Nat /\ h \in Nat /\ k \in Nat /\ r \in Nat /\ f \in Nat
  BY <1>1, PartsTyped
<1>3. g + h <= f + k + r
  BY BalanceBounds
<1>4. hNew <= w /\ hNew \in Nat /\ w \in Nat
  <2>1. IsFiniteSet(Late(c)') /\ Cardinality(Late(c)') <= C /\ Cardinality(Late(c)') \in Nat
        /\ C \in Nat
    BY LimiterAssumption, StragglersType, FS_Subset, FS_CardinalityType DEF C
  <2>. QED BY <2>1, TimesMonotonic, TimesType, LimiterAssumption
<1>5. kNew = k + f + w
  <2>1. /\ extra[c] \in Nat /\ swept[c] \in Nat /\ Rate \in Nat /\ C \in Nat
        /\ Rate + C \in Nat /\ Stragglers \in Nat /\ Window \in Nat
    BY <1>1, StragglersType, LimiterAssumption DEF Typed
  <2>. DEFINE x == extra[c] * (Rate + C)
              y == swept[c] * Stragglers
  <2>2. x \in Nat /\ y \in Nat
    BY <2>1, TimesType
  <2>3. (extra[c] + 1) * (Rate + C) = x + (Rate + C)
    <3>1. (Rate + C) * (extra[c] + 1) = (Rate + C) * extra[c] + (Rate + C) * 1
      BY <2>1, Distributes
    <3>. QED BY <2>1, <3>1
  <2>4. Bonus(c)' = (x + (Rate + C)) + y /\ Bonus(c) = x + y
    BY <2>3 DEF Bonus
  <2>. HIDE DEF x, y
  <2>5. Bonus(c)' = Bonus(c) + (Rate + C) /\ Bonus(c) \in Nat
    BY <2>1, <2>2, <2>4
  <2>6. kNew = k + Window * (Rate + C)
    BY <2>1, <2>5, Distributes
  <2>7. Window * (Rate + C) = f + w
    BY <2>1, Distributes
  <2>. QED BY <1>2, <1>4, <2>6, <2>7
<1>. HIDE DEF g, h, k, r, f, hNew, kNew, w
<1>6. g + hNew <= r + kNew
  BY <1>2, <1>3, <1>4, <1>5
<1>. QED BY <1>6 DEF g, r, hNew, kNew

LEMMA StoreBucketInv ==
  ASSUME LInv, NEW t \in Callers, StoreBucket(t)
  PROVE  LInv'
<1>0. PICK c: c = callers[t].client
  OBVIOUS
<1>. DEFINE new == Len(heap) + 1
            bucket == [tokens |-> Rate, lastRefill |-> limiterTime]
            call == [callers[t] EXCEPT !.pc = "take", !.bucket = new]
            was == buckets[c]
<1>1. /\ callers[t].pc = "create"
      /\ heap' = Append(heap, bucket)
      /\ buckets' = [buckets EXCEPT ![c] = new]
      /\ extra' = [extra EXCEPT ![c] = @ + IF buckets[c] = 0 THEN 0 ELSE 1]
      /\ callers' = [callers EXCEPT ![t] = call]
      /\ UNCHANGED <<limiterTime, granted, swept>>
  BY <1>0 DEF StoreBucket
<1>2. Typed /\ CallersOK /\ limiterTime \in Nat /\ heap \in Seq(Bucket) /\ Len(heap) \in Nat
  BY DEF LInv, Typed, HeapOK
<1>3. callers[t] \in [pc: {"create", "take"}, client: Clients, bucket: Nat]
  BY <1>1, <1>2, CallTyped
<1>4. /\ c \in Clients /\ call \in Calls
      /\ call.pc = "take" /\ call.client = c /\ call.bucket = new
  <2>. DEFINE old == callers[t]
  <2>1. old \in [pc: {"create", "take"}, client: Clients, bucket: Nat] /\ new \in Nat /\ c = old.client
    BY <1>0, <1>2, <1>3
  <2>. HIDE DEF old, new
  <2>. DEFINE moved == [old EXCEPT !.pc = "take"]
  <2>2. moved = [pc |-> "take", client |-> c, bucket |-> old.bucket]
    BY <2>1
  <2>. HIDE DEF moved
  <2>3. [moved EXCEPT !.bucket = new] = [pc |-> "take", client |-> c, bucket |-> new]
    BY <2>2
  <2>4. [old EXCEPT !.pc = "take", !.bucket = new] = [pc |-> "take", client |-> c, bucket |-> new]
    BY <2>3 DEF moved
  <2>5. call = [pc |-> "take", client |-> c, bucket |-> new]
    BY <2>4 DEF old
  <2>. HIDE DEF call
  <2>. QED BY <2>1, <2>5 DEF Calls
<1>. HIDE DEF call
<1>5. bucket \in Bucket /\ bucket.tokens = Rate /\ bucket.lastRefill = limiterTime
  BY <1>2, LimiterAssumption DEF Bucket
<1>. HIDE DEF bucket
<1>6. /\ heap' \in Seq(Bucket) /\ Len(heap') = new
      /\ \A m \in 1 .. new: heap'[m] = IF m = new THEN bucket ELSE heap[m]
  BY <1>1, <1>2, <1>5
<1>7. \A s \in Callers: callers'[s] = IF s = t THEN call ELSE callers[s]
  BY <1>1, <1>2 DEF CallersOK
<1>8. \A d \in Clients: buckets'[d] = IF d = c THEN new ELSE buckets[d]
  BY <1>1, <1>2 DEF Typed
<1>9. Typed'
  <2>1. HeapOK'
    <3>1. \A m \in 1 .. new: m # new => m \in 1 .. Len(heap)
      BY <1>2
    <3>. QED BY <1>1, <1>2, <1>5, <1>6, <3>1, LimiterAssumption DEF Typed, HeapOK
  <2>2. CallersOK'
    <3>1. callers' \in [Callers -> Calls]
      BY <1>1, <1>2, <1>4 DEF CallersOK
    <3>2. new \in 1 .. new /\ 1 .. Len(heap) \subseteq 1 .. new
      BY <1>2
    <3>. QED BY <1>2, <1>4, <1>6, <1>7, <3>1, <3>2 DEF CallersOK
  <2>3. buckets' \in [Clients -> Nat] /\ \A d \in Clients: buckets'[d] <= Len(heap')
    BY <1>1, <1>2, <1>4, <1>6, <1>8 DEF Typed
  <2>4. extra' \in [Clients -> Nat]
    BY <1>1, <1>2, <1>4 DEF Typed
  <2>. QED BY <1>1, <1>2, <2>1, <2>2, <2>3, <2>4 DEF Typed
<1>10. ASSUME NEW d \in Clients, d # c PROVE Balanced(d)'
  <2>1. buckets'[d] = buckets[d] /\ extra'[d] = extra[d]
    BY <1>1, <1>2, <1>8, <1>10 DEF Typed
  <2>2. Late(d)' \subseteq Late(d)
    BY <1>4, <1>7, <1>10, <2>1 DEF Late
  <2>3. buckets[d] # 0 => Credit(heap'[buckets[d]]) <= Credit(heap[buckets[d]])
    <3>. SUFFICES ASSUME buckets[d] # 0
                  PROVE  Credit(heap'[buckets[d]]) <= Credit(heap[buckets[d]])
      OBVIOUS
    <3>1. buckets[d] \in 1 .. Len(heap)
      BY <1>2, InTable
    <3>2. heap'[buckets[d]] = heap[buckets[d]]
      BY <1>2, <1>6, <3>1
    <3>. QED BY <1>2, <3>1, <3>2, BucketTyped
  <2>4. granted'[d] = granted[d] /\ swept'[d] = swept[d] /\ limiterTime <= limiterTime'
    BY <1>1, <1>2
  <2>. QED BY <1>9, <2>1, <2>2, <2>3, <2>4, BalanceKept
<1>11. Balanced(c)'
  <2>. DEFINE g == Window * granted[c]
              hNew == Window * Cardinality(Late(c)')
              kNew == Window * Bonus(c)'
              r == Rate * limiterTime
              f == Window * Rate
  <2>1. g \in Nat /\ r \in Nat /\ f \in Nat
    BY <1>2, <1>4, PartsTyped
  <2>2. hNew \in Nat /\ kNew \in Nat
    <3>1. (Typed => PartsAreNumbers)'
      BY PartsNumbered, PTL
    <3>. QED BY <1>4, <1>9, <3>1 DEF PartsAreNumbers
  <2>3. Balanced(c)' <=> g + hNew + (f - r) <= f + kNew
    <3>1. buckets'[c] = new /\ new # 0 /\ heap'[new] = bucket
      BY <1>2, <1>4, <1>6, <1>8
    <3>2. Credit(bucket) = f - r
      BY <1>5 DEF Credit
    <3>. QED BY <1>1, <3>1, <3>2 DEF Balanced, Credit
  <2>4. g + hNew <= r + kNew
    <3>1. CASE buckets[c] = 0
      <4>1. Late(c)' \subseteq Late(c)
        <5>1. \A s \in Callers: callers[s].pc = "take" => callers[s].bucket # 0
          BY <1>2 DEF CallersOK
        <5>. QED BY <1>4, <1>7, <1>8, <3>1, <5>1 DEF Late
      <4>2. extra'[c] = extra[c]
        BY <1>1, <1>2, <1>4, <3>1 DEF Typed
      <4>3. Bonus(c)' = Bonus(c)
        BY <1>1, <4>2 DEF Bonus
      <4>4. g + Window * Cardinality(Late(c)) <= r + Window * Bonus(c)
        BY <1>4, <3>1 DEF LInv, Balanced
      <4>5. hNew <= Window * Cardinality(Late(c)) /\ Window * Cardinality(Late(c)) \in Nat
        <5>1. IsFiniteSet(Late(c)) /\ Cardinality(Late(c)) \in Nat
          BY <1>4, LateType
        <5>2. Cardinality(Late(c)') <= Cardinality(Late(c)) /\ Cardinality(Late(c)') \in Nat
          BY <4>1, <5>1, FS_Subset, FS_CardinalityType
        <5>. QED BY <5>1, <5>2, TimesMonotonic, TimesType, LimiterAssumption
      <4>. DEFINE h == Window * Cardinality(Late(c))
      <4>6. g + h <= r + kNew /\ hNew <= h /\ h \in Nat
        BY <4>3, <4>4, <4>5
      <4>. HIDE DEF h, g, hNew, kNew, r
      <4>. QED BY <2>1, <2>2, <4>6
    <3>2. CASE buckets[c] # 0
      <4>1. extra'[c] = extra[c] + 1 /\ granted'[c] = granted[c] /\ swept'[c] = swept[c]
        BY <1>1, <1>2, <1>4, <3>2 DEF Typed
      <4>2. Late(c)' \subseteq Callers
        BY DEF Late
      <4>. QED BY <1>4, <3>2, <4>1, <4>2, Reimbursed
    <3>. QED BY <3>1, <3>2
  <2>. HIDE DEF g, hNew, kNew, r, f
  <2>. QED BY <2>1, <2>2, <2>3, <2>4
<1>. QED BY <1>9, <1>10, <1>11 DEF LInv

LEMMA ResetClientInv ==
  ASSUME LInv, NEW c \in Clients, ResetClient(c)
  PROVE  LInv'
<1>1. /\ buckets[c] # 0
      /\ buckets' = [buckets EXCEPT ![c] = 0]
      /\ extra' = [extra EXCEPT ![c] = @ + 1]
      /\ UNCHANGED <<limiterTime, heap, callers, granted, swept>>
  BY DEF ResetClient
<1>2. Typed /\ limiterTime \in Nat /\ Len(heap) \in Nat
  BY DEF LInv, Typed, HeapOK
<1>3. \A d \in Clients: /\ buckets'[d] = IF d = c THEN 0 ELSE buckets[d]
                        /\ extra'[d] = IF d = c THEN extra[d] + 1 ELSE extra[d]
  BY <1>1, <1>2 DEF Typed
<1>4. Typed'
  BY <1>1, <1>2, <1>3 DEF Typed, HeapOK, CallersOK
<1>5. ASSUME NEW d \in Clients, d # c PROVE Balanced(d)'
  <2>1. Late(d)' \subseteq Late(d)
    BY <1>1, <1>3, <1>5 DEF Late
  <2>2. buckets[d] # 0 => Credit(heap'[buckets[d]]) <= Credit(heap[buckets[d]])
    BY <1>1, <1>2, InTable, BucketTyped
  <2>. QED BY <1>1, <1>2, <1>3, <1>4, <1>5, <2>1, <2>2, BalanceKept
<1>6. Balanced(c)'
  <2>1. Late(c)' \subseteq Callers
    BY DEF Late
  <2>2. granted'[c] = granted[c] /\ extra'[c] = extra[c] + 1 /\ swept'[c] = swept[c]
        /\ buckets'[c] = 0
    BY <1>1, <1>3
  <2>3. Window * granted'[c] + Window * Cardinality(Late(c)')
          <= Rate * limiterTime + Window * Bonus(c)'
    BY <1>1, <2>1, <2>2, Reimbursed
  <2>. QED BY <1>1, <2>2, <2>3 DEF Balanced
<1>. QED BY <1>4, <1>5, <1>6 DEF LInv

LEMMA CleanupInv == ASSUME LInv, CleanupBuckets PROVE LInv'
<1>1. /\ \A c \in Clients: /\ buckets'[c] = IF Sweepable(c) THEN 0 ELSE buckets[c]
                           /\ swept'[c] = IF Sweepable(c) THEN swept[c] + 1 ELSE swept[c]
      /\ buckets' = [c \in Clients |-> buckets'[c]] /\ swept' = [c \in Clients |-> swept'[c]]
      /\ UNCHANGED <<limiterTime, heap, callers, granted, extra>>
  BY DEF CleanupBuckets
<1>2. Typed /\ limiterTime \in Nat /\ Len(heap) \in Nat
  <2>1. Typed /\ limiterTime \in Nat /\ heap \in Seq(Bucket)
    BY DEF LInv, Typed, HeapOK
  <2>. QED BY <2>1
<1>3. Typed'
  <2>1. \A c \in Clients: buckets'[c] \in Nat /\ buckets'[c] <= Len(heap) /\ swept'[c] \in Nat
    BY <1>1, <1>2 DEF Typed
  <2>2. buckets' \in [Clients -> Nat] /\ swept' \in [Clients -> Nat]
    BY <1>1, <2>1
  <2>3. HeapOK' /\ CallersOK'
    BY <1>1, <1>2 DEF Typed, HeapOK, CallersOK
  <2>. QED BY <1>1, <1>2, <2>1, <2>2, <2>3 DEF Typed
<1>4. ASSUME NEW c \in Clients, ~Sweepable(c) PROVE Balanced(c)'
  <2>1. Late(c)' \subseteq Late(c)
    BY <1>1, <1>4 DEF Late
  <2>2. buckets[c] # 0 => Credit(heap'[buckets[c]]) <= Credit(heap[buckets[c]])
    BY <1>1, <1>2, InTable, BucketTyped
  <2>. QED BY <1>1, <1>2, <1>3, <1>4, <2>1, <2>2, BalanceKept
<1>5. ASSUME NEW c \in Clients, Sweepable(c) PROVE Balanced(c)'
  <2>. DEFINE g == Window * granted[c]
              h == Window * Cardinality(Late(c))
              k == Window * Bonus(c)
              r == Rate * limiterTime
              f == Window * Rate
              b == heap[buckets[c]]
              hNew == Window * Cardinality(Late(c)')
              kNew == Window * Bonus(c)'
              w == Window * C
              v == Window * Stragglers
              q == Rate * b.lastRefill
              p == Window * b.tokens
  <2>1. g \in Nat /\ h \in Nat /\ k \in Nat /\ r \in Nat /\ f \in Nat
    BY <1>2, PartsTyped
  <2>2. buckets[c] # 0 /\ b.lastRefill < limiterTime - 2 * Window
    BY <1>5 DEF Sweepable, Idle
  <2>3. b.lastRefill \in Nat /\ q \in Nat /\ p \in Nat
    BY <1>2, <2>2, InTable, BucketTyped
  <2>4. g + h + (p - q) <= f + k
    BY <2>2 DEF LInv, Balanced, Credit
  <2>5. q <= r - 2 * f
    <3>1. Window \in Nat /\ Rate \in Nat /\ b.lastRefill <= limiterTime - 2 * Window
          /\ 2 * Window \in Nat /\ limiterTime - 2 * Window \in Int
      BY <1>2, <2>2, <2>3, LimiterAssumption
    <3>2. q <= Rate * (limiterTime - 2 * Window)
      <4>. DEFINE x == limiterTime - 2 * Window
                  y == b.lastRefill
      <4>1. x \in Int /\ y \in Int /\ y <= x
        BY <2>3, <3>1
      <4>. HIDE DEF x, y
      <4>2. Rate * y <= Rate * x
        BY <3>1, <4>1, TimesMonotonic
      <4>. QED BY <4>2 DEF x, y
    <3>3. Rate * (limiterTime - 2 * Window) = r - Rate * (2 * Window)
      BY <1>2, <3>1, Distributes
    <3>4. Rate * (2 * Window) = 2 * f
      BY <3>1
    <3>. QED BY <3>2, <3>3, <3>4
  <2>6. hNew <= w /\ hNew \in Nat /\ w \in Nat
    <3>1. Late(c)' \subseteq Callers
      BY DEF Late
    <3>2. /\ Cardinality(Late(c)') <= C /\ Cardinality(Late(c)') \in Nat /\ C \in Nat
      BY <3>1, LimiterAssumption, StragglersType, FS_Subset, FS_CardinalityType DEF C
    <3>. QED BY <3>2, TimesMonotonic, TimesType, LimiterAssumption
  <2>7. w <= f + v /\ v \in Nat
    <3>1. C \in Nat /\ Stragglers \in Nat /\ C <= Rate + Stragglers /\ Rate \in Nat
          /\ Window \in Nat
      BY StragglersType, LimiterAssumption
    <3>2. w <= Window * (Rate + Stragglers) /\ Window * (Rate + Stragglers) = f + v
      BY <3>1, TimesMonotonic, Distributes
    <3>. QED BY <3>1, <3>2, TimesType
  <2>8. kNew = k + v
    <3>1. /\ extra[c] \in Nat /\ swept[c] \in Nat /\ Rate + C \in Nat /\ Stragglers \in Nat
          /\ Window \in Nat
      BY <1>2, StragglersType, LimiterAssumption DEF Typed
    <3>. DEFINE x == extra[c] * (Rate + C)
                y == swept[c] * Stragglers
    <3>2. x \in Nat /\ y \in Nat
      BY <3>1, TimesType
    <3>3. (swept[c] + 1) * Stragglers = y + Stragglers
      <4>1. Stragglers * (swept[c] + 1) = Stragglers * swept[c] + Stragglers * 1
        BY <3>1, Distributes
      <4>. QED BY <3>1, <4>1
    <3>4. Bonus(c)' = x + (y + Stragglers) /\ Bonus(c) = x + y
      BY <1>1, <1>5, <3>3 DEF Bonus
    <3>. HIDE DEF x, y
    <3>5. Bonus(c)' = Bonus(c) + Stragglers /\ Bonus(c) \in Nat
      BY <3>1, <3>2, <3>4
    <3>. QED BY <3>1, <3>5, Distributes
  <2>9. Balanced(c)' <=> g + hNew <= r + kNew
    BY <1>1, <1>5 DEF Balanced
  <2>. HIDE DEF g, h, k, r, f, hNew, kNew, w, v, q, p
  <2>10. g + hNew <= r + kNew
    BY <2>1, <2>3, <2>4, <2>5, <2>6, <2>7, <2>8
  <2>. QED BY <2>9, <2>10
<1>. QED BY <1>3, <1>4, <1>5 DEF LInv

-------------------------------------------------------------------------------
LEMMA LimiterInitInv == LimiterInit => LInv
<1>. SUFFICES ASSUME LimiterInit PROVE LInv
  OBVIOUS
<1>1. Typed
  BY DEF LimiterInit, Typed, HeapOK, CallersOK, Calls, Resting
<1>2. ASSUME NEW c \in Clients PROVE Balanced(c)
  <2>1. granted[c] = 0 /\ extra[c] = 0 /\ swept[c] = 0 /\ buckets[c] = 0
    BY DEF LimiterInit
  <2>2. Late(c) = {}
    BY DEF LimiterInit, Late, Resting
  <2>3. Cardinality(Late(c)) = 0
    BY <2>2, FS_EmptySet
  <2>4. Window * 0 = 0 /\ Rate * limiterTime \in Nat /\ Window * Bonus(c) \in Nat
    BY <1>1, PartsTyped, LimiterAssumption
  <2>. QED BY <2>1, <2>3, <2>4 DEF Balanced
<1>. QED BY <1>1, <1>2 DEF LInv

LEMMA LimiterStepInv == LInv /\ [LimiterNext]_limiterVars => LInv'
<1>. SUFFICES ASSUME LInv, [LimiterNext]_limiterVars PROVE LInv'
  OBVIOUS
<1>1. CASE UNCHANGED limiterVars
  BY <1>1 DEF limiterVars, LInv, Typed, HeapOK, CallersOK, Balanced, Late, Bonus, Credit
<1>. QED BY <1>1, TickInv, FindBucketInv, StoreBucketInv, TakeTokenInv, ResetClientInv, CleanupInv
        DEF LimiterNext

\* No client is ever granted more than its allowance, for any rate, window and
\* number of callers between the lookup, the creation and the taking of a token
\* (Allow, Reset and cleanup, ratelimit.go:37-146).
THEOREM AllowanceIsKept == LimiterSpec => []AllowanceBounded
<1>1. LInv => AllowanceBounded
  <2>. SUFFICES ASSUME LInv, NEW c \in Clients
                PROVE  Window * granted[c] <=
                         Window * (Rate + extra[c] * (Rate + Cardinality(Callers))
                                        + swept[c] * Stragglers) + Rate * limiterTime
    BY DEF AllowanceBounded
  <2>. DEFINE x == extra[c] * (Rate + C)
              y == swept[c] * Stragglers
              g == Window * granted[c]
              h == Window * Cardinality(Late(c))
              k == Window * Bonus(c)
              f == Window * Rate
              r == Rate * limiterTime
  <2>1. g + h <= f + k + r /\ g \in Nat /\ h \in Nat /\ f \in Nat /\ k \in Nat /\ r \in Nat
    BY BalanceBounds, PartsTyped DEF LInv
  <2>2. x \in Nat /\ y \in Nat
    <3>1. extra[c] \in Nat /\ swept[c] \in Nat /\ Rate + C \in Nat /\ Stragglers \in Nat
      BY StragglersType, LimiterAssumption DEF LInv, Typed
    <3>. QED BY <3>1, TimesType
  <2>3. Window * (Rate + x + y) = f + k
    <3>1. Bonus(c) = x + y
      BY DEF Bonus
    <3>. HIDE DEF x, y
    <3>2. Rate + x + y = Rate + Bonus(c) /\ Bonus(c) \in Nat /\ Rate \in Nat /\ Window \in Nat
      BY <2>2, <3>1, LimiterAssumption
    <3>. QED BY <3>2, Distributes
  <2>4. g <= (f + k) + r
    <3>. HIDE DEF g, h, f, k, r
    <3>. QED BY <2>1
  <2>. QED BY <2>3, <2>4 DEF C
<1>. QED BY <1>1, LimiterInitInv, LimiterStepInv, PTL DEF LimiterSpec

\* A bucket never holds more than the rate nor was it refilled in the future, and the
\* table only names buckets that were made, whoever was between two steps of Allow
\* when it was replaced, reset or swept (ratelimit.go:37-146).
THEOREM LimiterTypes == LimiterSpec => []LimiterTypeOK
<1>. DEFINE OnTime == limiterTime <= MaxLimiterTime
<1>1. LimiterInit => LInv /\ OnTime
  BY LimiterInitInv, LimiterAssumption DEF LimiterInit
<1>2. (LInv /\ OnTime) /\ [LimiterNext]_limiterVars => (LInv /\ OnTime)'
  <2>. SUFFICES ASSUME LInv, OnTime, [LimiterNext]_limiterVars PROVE OnTime'
    BY LimiterStepInv
  <2>1. limiterTime \in Nat
    BY DEF LInv, Typed
  <2>2. CASE LimiterTick
    BY <2>1, <2>2, LimiterAssumption DEF LimiterTick
  <2>3. CASE UNCHANGED limiterTime
    BY <2>3
  <2>. QED
    BY <2>2, <2>3 DEF LimiterNext, limiterVars, FindBucket, StoreBucket, TakeToken, ResetClient,
                      CleanupBuckets
<1>3. LInv /\ OnTime => LimiterTypeOK
  <2>. SUFFICES ASSUME LInv, OnTime PROVE LimiterTypeOK
    OBVIOUS
  <2>1. limiterTime \in 0 .. MaxLimiterTime /\ Len(heap) \in Nat
    BY LimiterAssumption DEF LInv, Typed, HeapOK
  <2>2. ASSUME NEW n \in DOMAIN heap
        PROVE  heap[n].tokens \in 0 .. Rate /\ heap[n].lastRefill \in 0 .. limiterTime
    <3>1. n \in 1 .. Len(heap) /\ heap[n] \in Bucket
      BY DEF LInv, Typed, HeapOK
    <3>2. heap[n].tokens <= Rate /\ heap[n].lastRefill <= limiterTime
      BY <3>1 DEF LInv, Typed, HeapOK
    <3>. QED BY <3>1, <3>2, <2>1, LimiterAssumption DEF Bucket
  <2>3. buckets \in [Clients -> 0 .. Len(heap)]
    BY <2>1 DEF LInv, Typed
  <2>. QED BY <2>1, <2>2, <2>3 DEF LimiterTypeOK, LInv, Typed
<1>. QED BY <1>1, <1>2, <1>3, PTL DEF LimiterSpec
===============================================================================
