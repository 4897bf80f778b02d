------------------------------ MODULE MCDirectory ------------------------------
(***************************************************************************)
(* The instance of Directory that TLC checks.  The owner follows alice and, *)
(* as some clients have it, themselves.  alice follows a stranger to the    *)
(* owner, and follows back by npub: nothing validates a p tag, and a tag    *)
(* that holds the npub is the only one ComputeMutuals recognises.           *)
(*                                                                         *)
(* The response cache shares nothing with it and is checked in the same run:*)
(* a behaviour is one of either, "machine", while the other does not start. *)
(***************************************************************************)
EXTENDS Directory, ResponseCache

CONSTANTS alice, stranger, near, far, seed, w1, w2

MCPubkeyOrder == <<alice, Npub, Owner, stranger>>

CONSTANTS ownersContacts, alicesContacts, oldRelays, newRelays, strangersRelays

MCContactLists == {ownersContacts, alicesContacts}
MCRelayLists == {oldRelays, newRelays, strangersRelays}

MCPubKey ==
  [e \in Events |-> CASE e = alicesContacts -> alice
                      [] e = strangersRelays -> stranger
                      [] OTHER -> Owner]

MCCreatedAt == [e \in Events |-> IF e \in {newRelays, alicesContacts} THEN 2 ELSE 1]

MCContacts ==
  [e \in ContactLists |-> IF e = ownersContacts THEN <<alice, Owner>> ELSE <<Npub, stranger>>]

Tag(relay, marker) == [relay |-> relay, marker |-> marker]

MCTags ==
  [e \in RelayLists |-> CASE e = oldRelays -> <<Tag(near, "read")>>
                          [] e = newRelays -> <<Tag(near, "write")>>
                          [] e = strangersRelays -> <<Tag(far, "both")>>]

MCRelays == {near, far, seed}
MCSeeds == {seed}
MCWorkers == {w1, w2}
MCSymmetry == Permutations(MCWorkers)

-------------------------------------------------------------------------------
MCCacheKeys ==
  {<<"event", "e1", "gopher">>, <<"profile", "p1", "gemini">>, <<"section", "notes", "gopher", "p0">>}

MCRenderings == {[id |-> "e1", kind |-> 0, pubkey |-> "p1"], [id |-> "e2", kind |-> 1, pubkey |-> "p1"]}

-------------------------------------------------------------------------------
VARIABLE machine

MCInit == machine \in {"directory", "response cache"} /\ Init /\ CacheInit

MCNext ==
  /\ UNCHANGED machine
  /\ \/ machine = "directory" /\ Next /\ UNCHANGED cacheVars
     \/ machine = "response cache" /\ CacheNext /\ UNCHANGED vars

MCSpec == MCInit /\ [][MCNext]_<<vars, cacheVars, machine>>

TablesTypeOK == TypeOK /\ CacheTypeOK
===============================================================================
