----------------------------- MODULE ResponseCache ----------------------------
(***************************************************************************)
(* The in-memory response cache (internal/cache: memory.go, invalidator.go *)
(* and keys.go).  A key is the sequence of its parts, which the code joins *)
(* with ":".  Set, Delete, Clear and the cleanup hold the lock for their   *)
(* whole body and are one step.  Get and Has are two: the entry is looked  *)
(* up under the read lock, judged after the lock was given up, and then    *)
(* deleted or touched under the write lock.  An invalidation takes the     *)
(* lock once for each of its patterns, and anything may come between.      *)
(*                                                                         *)
(* An entry is shared by pointer: "address" tells the entry a reader found *)
(* from one that replaced it under the same key.                           *)
(***************************************************************************)
EXTENDS Integers, FiniteSets, Sequences, Functions, FiniteSetsExt

CONSTANTS
  CacheKeys,    \* the keys in use
  ValueSizes,   \* sizes of the values stored
  Lifetimes,    \* ttl arguments of Set; 0 asks for the default
  DefaultTTL,
  MaxCacheSize, \* Config.MaxSize, 0 for none
  Readers,      \* goroutines in Get or Has
  Removers,     \* goroutines that delete, clear or invalidate
  Renderings,   \* events whose ingestion invalidates: [id, kind, pubkey]
  MaxCacheTime  \* bound: the clock stops there

\* No section, event or person is named "*" (keys.go): the keys hold protocols there.
ASSUME CacheAssumption ==
  /\ IsFiniteSet(CacheKeys) /\ IsFiniteSet(Readers)
  /\ \A k \in CacheKeys : DOMAIN k = 1 .. Len(k) /\ Len(k) \in Nat /\ (Len(k) >= 3 => k[3] # "*")
  /\ ValueSizes \subseteq Nat /\ Lifetimes \subseteq Nat
  /\ MaxCacheSize \in Nat /\ DefaultTTL \in Nat /\ MaxCacheTime \in Nat

VARIABLES
  cacheTime,
  entries,      \* [CacheKeys -> an entry or Absent]
  lookups,      \* [Readers -> what a Get or Has found, or NoLookup]
  removals      \* [Removers -> the patterns still to remove, and whom the call named]

cacheVars == <<cacheTime, entries, lookups, removals>>

Absent == [address |-> 0]
NoLookup == [key |-> << >>]
NoRemoval == [names |-> {}, patterns |-> << >>]

Cached == {k \in CacheKeys : entries[k] # Absent}

CacheInit ==
  /\ cacheTime = 0
  /\ entries = [k \in CacheKeys |-> Absent]
  /\ lookups = [r \in Readers |-> NoLookup]
  /\ removals = [i \in Removers |-> NoRemoval]

CacheTick ==
  /\ cacheTime < MaxCacheTime
  /\ cacheTime' = cacheTime + 1
  /\ UNCHANGED <<entries, lookups, removals>>

-------------------------------------------------------------------------------
(* Get and Has. *)

\* A miss changes nothing but statistics.
Lookup(r, k, touches) ==
  /\ lookups[r] = NoLookup
  /\ entries[k] # Absent
  /\ lookups' = [lookups EXCEPT ![r] = [key |-> k, at |-> cacheTime, touches |-> touches,
                                        address |-> entries[k].address,
                                        expires |-> entries[k].expires]]
  /\ UNCHANGED <<cacheTime, entries, removals>>

\* The entry found has expired: whatever is under the key now is deleted.
DropExpired(r) ==
  /\ lookups[r] # NoLookup
  /\ cacheTime > lookups[r].expires
  /\ entries' = [entries EXCEPT ![lookups[r].key] = Absent]
  /\ lookups' = [lookups EXCEPT ![r] = NoLookup]
  /\ UNCHANGED <<cacheTime, removals>>

\* It had not expired when it was judged: a Get marks it as used, which no
\* longer matters if it has left the table.
Hit(r) ==
  /\ lookups[r] # NoLookup
  /\ lookups[r].at <= lookups[r].expires
  /\ LET found == lookups[r]
     IN  entries' = IF found.touches /\ entries[found.key].address = found.address
                    THEN [entries EXCEPT ![found.key].accessed = cacheTime]
                    ELSE entries
  /\ lookups' = [lookups EXCEPT ![r] = NoLookup]
  /\ UNCHANGED <<cacheTime, removals>>

-------------------------------------------------------------------------------
(* Set. *)

SizeOf(keys) == SumFunctionOnSet([k \in Cached |-> entries[k].size], keys)

TotalSize == SizeOf(Cached)

LeastRecent(out) == \A k \in out, kept \in Cached \ out : entries[k].accessed <= entries[kept].accessed

\* Variant of Evictions: it stops one entry too early.
EvictionsShort(needed) ==
  {out \in SUBSET Cached :
     /\ LeastRecent(out)
     /\ SizeOf(out) < needed
     /\ \E next \in Cached \ out : SizeOf(out \cup {next}) >= needed \/ out \cup {next} = Cached}

\* evictLRU takes the entries in order of their last use, equal ones in any
\* order, until it has freed as much as is needed or nothing is left.
Evictions(needed) ==
  {out \in SUBSET Cached :
     /\ LeastRecent(out)
     /\ SizeOf(out) >= needed \/ out = Cached
     /\ out # {} => \E last \in out : LeastRecent(out \ {last}) /\ SizeOf(out \ {last}) < needed}

Addresses == 1 .. Cardinality(Readers) + 2

\* An address that neither the table nor a reader holds for this key.
FreeAddress(k) ==
  Min({a \in Addresses : /\ entries[k].address # a
                         /\ \A r \in Readers : lookups[r].key # k \/ lookups[r].address # a})

\* The room an entry of the same key takes is counted although it is replaced.
SetValue(k, size, ttl) ==
  /\ \E out \in IF MaxCacheSize > 0 /\ TotalSize + size > MaxCacheSize
                THEN Evictions(size) ELSE {{}} :
       entries' = [j \in CacheKeys |->
         CASE j = k   -> [address |-> FreeAddress(k), size |-> size, accessed |-> cacheTime,
                          expires |-> cacheTime + IF ttl = 0 THEN DefaultTTL ELSE ttl]
           [] j \in out \ {k} -> Absent
           [] OTHER   -> entries[j]]
  /\ UNCHANGED <<cacheTime, lookups, removals>>

-------------------------------------------------------------------------------
(* Removal. *)

Drop(keys) == entries' = [k \in CacheKeys |-> IF k \in keys THEN Absent ELSE entries[k]]

\* Variant of Cleanup: an entry goes when its time comes, not after it.
CleanupEarly ==
  /\ Drop({k \in Cached : cacheTime >= entries[k].expires})
  /\ UNCHANGED <<cacheTime, lookups, removals>>

Cleanup ==
  /\ Drop({k \in Cached : cacheTime > entries[k].expires})
  /\ UNCHANGED <<cacheTime, lookups, removals>>

\* A pattern is a key, or a prefix that ended in "*".
Exactly(key) == [parts |-> key, prefix |-> FALSE]
Below(parts) == [parts |-> parts, prefix |-> TRUE]

PatternMatches(pattern, key) ==
  IF pattern.prefix
  THEN \A i \in DOMAIN pattern.parts : i \in DOMAIN key /\ key[i] = pattern.parts[i]
  ELSE key = pattern.parts

\* A note asks for "section:notes:*:p0".  Only a "*" at the end is taken off,
\* so this one is a prefix with a part "*" that no key has.
InvalidationPatterns(e) ==
  << Below(<<"event", e.id>>), Exactly(<<"aggregate", e.id>>) >> \o
  CASE e.kind = 0 -> << Exactly(<<"kind0", e.pubkey>>), Below(<<"profile", e.pubkey>>) >>
    [] e.kind = 1 -> << Below(<<"section", "notes", "*", "p0">>) >>
    [] e.kind = 3 -> << Exactly(<<"kind3", e.pubkey>>) >>
    [] OTHER      -> << >>

\* A call of the cache or of the invalidator, with the ids, pubkeys or sections it
\* is about; {} for all of them.
StartRemoval(i, names, patterns) ==
  /\ removals[i] = NoRemoval
  /\ removals' = [removals EXCEPT ![i] = [names |-> names, patterns |-> patterns]]
  /\ UNCHANGED <<cacheTime, entries, lookups>>

Delete(i, k) == StartRemoval(i, {k[2]}, << Exactly(k) >>)

ClearCache(i) == StartRemoval(i, {}, << Below(<< >>) >>)

InvalidateEvent(i, e) == StartRemoval(i, {e.id, e.pubkey}, InvalidationPatterns(e))

InvalidateProfile(i, pubkey) ==
  StartRemoval(i, {pubkey}, << Exactly(<<"kind0", pubkey>>), Below(<<"profile", pubkey>>) >>)

InvalidateSection(i, name) ==
  StartRemoval(i, {name}, << Exactly(<<"section", name, "gopher", "p0">>),
                       Exactly(<<"section", name, "gemini", "p0">>) >>)

\* The next pattern, under the lock; a key is removed if it is there now.
InvalidatePattern(i) ==
  LET asked == removals[i]
  IN  /\ asked # NoRemoval
      /\ Drop({k \in CacheKeys : PatternMatches(Head(asked.patterns), k)})
      /\ removals' = [removals EXCEPT ![i] =
                        IF Len(asked.patterns) = 1 THEN NoRemoval
                        ELSE [names |-> asked.names, patterns |-> Tail(asked.patterns)]]
      /\ UNCHANGED <<cacheTime, lookups>>

-------------------------------------------------------------------------------
CacheNext ==
  \/ CacheTick \/ Cleanup
  \/ \E r \in Readers : \/ \E k \in CacheKeys, touches \in BOOLEAN : Lookup(r, k, touches)
                        \/ DropExpired(r) \/ Hit(r)
  \/ \E k \in CacheKeys, size \in ValueSizes, ttl \in Lifetimes : SetValue(k, size, ttl)
  \/ \E i \in Removers :
       \/ InvalidatePattern(i) \/ ClearCache(i) \/ InvalidateSection(i, "notes")
       \/ \E k \in CacheKeys : Delete(i, k)
       \/ \E e \in Renderings : InvalidateEvent(i, e) \/ InvalidateProfile(i, e.pubkey)

CacheSpec == CacheInit /\ [][CacheNext]_cacheVars

CacheTypeOK ==
  /\ cacheTime \in 0 .. MaxCacheTime
  /\ \A i \in Removers : removals[i] # NoRemoval => removals[i].patterns # << >>
  /\ \A k \in Cached :
       /\ entries[k].address \in Addresses /\ entries[k].size \in ValueSizes
       /\ entries[k].accessed \in 0 .. cacheTime /\ entries[k].expires \in Nat
  /\ \A r \in Readers : lookups[r] # NoLookup =>
       lookups[r].key \in CacheKeys /\ lookups[r].at \in 0 .. cacheTime

\* The values never take more room than configured, except for one value that
\* is larger than the whole cache and shares it with empty values only: evictLRU
\* frees no more than the new value needs, and Set counts a value it is about to
\* replace (memory.go:96-99, 204-235).
SizeStaysBounded ==
  MaxCacheSize > 0 => \/ TotalSize <= MaxCacheSize
                      \/ \E k \in Cached : \A j \in Cached \ {k} : entries[j].size = 0

Live(k) == k \in Cached /\ cacheTime <= entries[k].expires

LeavesUnasked(k) == Live(k) /\ entries'[k] = Absent

\* A Set stores a new value and finds no room; what it keeps was used later.
EvictedBy(k, new) ==
  /\ entries'[new] # Absent /\ entries'[new].address # entries[new].address
  /\ TotalSize + entries'[new].size > MaxCacheSize
  /\ \A kept \in CacheKeys \ {new} :
       entries'[kept] # Absent => entries[k].accessed <= entries'[kept].accessed

\* A call takes a pattern from its list that matches the key and is about it.
RemovedBy(i, k) ==
  LET asked == removals[i]
  IN  /\ asked # NoRemoval /\ removals'[i] # asked
      /\ PatternMatches(Head(asked.patterns), k)
      /\ asked.names # {} => k[2] \in asked.names

\* Who may take a value out of the cache before its time: a Set that lacks room,
\* and then nothing used later than what it keeps; a call under way that names the
\* key, or its event, author or section; and a reader that met an expired value
\* under the key, before another goroutine replaced it (memory.go:52-55).  The
\* cleanup never does, and an invalidation only what it is about, whatever was
\* stored since it began.
FreshEntriesStay ==
  [][\A k \in CacheKeys : LeavesUnasked(k) =>
       \/ \E new \in CacheKeys : EvictedBy(k, new)
       \/ \E i \in Removers : RemovedBy(i, k)
       \/ \E r \in Readers : /\ lookups[r] # NoLookup /\ lookups'[r] = NoLookup
                             /\ lookups[r].key = k /\ lookups[r].address # entries[k].address
    ]_cacheVars
===============================================================================
