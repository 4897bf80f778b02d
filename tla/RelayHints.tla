------------------------------ MODULE RelayHints ------------------------------
(***************************************************************************)
(* The relay_hints table (internal/storage/relay_hints.go), the parsing of  *)
(* relay lists (internal/nostr/relay_hints.go) and the choice of relays     *)
(* (internal/nostr/discovery.go, getActiveRelays): a function of a pubkey   *)
(* and a relay.                                                            *)
(***************************************************************************)
EXTENDS Naturals, Sequences

CONSTANTS
  Pubkeys,    \* authors of relay lists
  Relays,
  Seeds       \* relays.seeds

Markers == {"both", "read", "write"}
RelayTags == [relay: Relays, marker: Markers]

\* A row to save keeps at least one of the marks.
HintRows ==
  {row \in [pubkey: Pubkeys, relay: Relays, can_read: BOOLEAN, can_write: BOOLEAN,
            freshness: Nat]:
     row.can_read \/ row.can_write}

NoHint == [can_read |-> FALSE, can_write |-> FALSE, freshness |-> 0]
Hints == [can_read: BOOLEAN, can_write: BOOLEAN, freshness: Nat]

HintOf(row) ==
  [can_read |-> row.can_read, can_write |-> row.can_write, freshness |-> row.freshness]

\* One row for each r tag, in the order of the tags.
ParseRelayHints(pubkey, createdAt, tags) ==
  [i \in DOMAIN tags |->
     [pubkey |-> pubkey, relay |-> tags[i].relay,
      can_read |-> tags[i].marker # "write", can_write |-> tags[i].marker # "read",
      freshness |-> createdAt]]

\* Variant of SaveRelayHint: the upsert without its WHERE clause.
OverwriteRelayHint(hints, row) == [hints EXCEPT ![<<row.pubkey, row.relay>>] = HintOf(row)]

\* INSERT ... ON CONFLICT DO UPDATE ... WHERE excluded.freshness > freshness
SaveRelayHint(hints, row) ==
  [hints EXCEPT ![<<row.pubkey, row.relay>>] =
     IF @ = NoHint \/ row.freshness > @.freshness THEN HintOf(row) ELSE @]

GetWriteRelays(hints, pubkey) == {r \in Relays: hints[<<pubkey, r>>].can_write}
GetReadRelays(hints, pubkey) == {r \in Relays: hints[<<pubkey, r>>].can_read}

\* Where a pubkey publishes, or else where it reads.
GetOutboxRelays(hints, pubkey) ==
  IF GetWriteRelays(hints, pubkey) # {}
  THEN GetWriteRelays(hints, pubkey)
  ELSE GetReadRelays(hints, pubkey)

GetInboxRelays(hints, pubkey) ==
  IF GetReadRelays(hints, pubkey) # {}
  THEN GetReadRelays(hints, pubkey)
  ELSE GetWriteRelays(hints, pubkey)

\* Variant of GetActiveRelays: every relay the table knows.
AllHintedRelays(hints, authors) ==
  Seeds \union UNION {GetOutboxRelays(hints, p): p \in Pubkeys}

GetActiveRelays(hints, authors) ==
  Seeds \union UNION {GetOutboxRelays(hints, a): a \in authors}
===============================================================================
