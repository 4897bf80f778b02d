------------------------------ MODULE SocialGraph ------------------------------
(***************************************************************************)
(* The graph_nodes table and what is read from it                          *)
(* (internal/storage/graph_nodes.go, internal/sync/graph.go): a function of *)
(* the owner's name and a pubkey.  The owner goes by two names: bootstrap   *)
(* and the sync loop pass the hex pubkey as root, processEvent passes the   *)
(* npub of the configuration.                                              *)
(***************************************************************************)
EXTENDS Naturals, Sequences, SequencesExt, FiniteSets

CONSTANTS
  PubkeyOrder,  \* the strings p tags hold, in the order of ORDER BY pubkey
  Owner,        \* the owner in hex
  Npub,         \* the owner in bech32, config.Identity.Npub
  Mode,         \* sync.scope.mode
  Depth,        \* sync.scope.depth
  Allowlist,
  Denylist,
  MaxAuthors    \* 0 for no cap

Names == ToSet(PubkeyOrder)
Roots == {Owner, Npub}

ASSUME GraphAssumption ==
  /\ Roots \subseteq Names /\ Owner # Npub
  /\ Allowlist \subseteq Names /\ Denylist \subseteq Names
  /\ Depth \in Nat /\ MaxAuthors \in Nat

Nodes == [depth: Nat \ {0}, mutual: BOOLEAN, last_seen: Nat]
NoNode == [depth |-> 0, mutual |-> FALSE, last_seen |-> 0]

Graphs == [Roots \X Names -> Nodes \union {NoNode}]

\* The depth no graph grows beyond: maxDepth of ProcessContactList's query.
AllDepths == 999

GetGraphNodes(graph, root, maxDepth) ==
  {p \in Names: graph[<<root, p>>] # NoNode /\ graph[<<root, p>>].depth <= maxDepth}

GetFollowingPubkeys(graph, root) ==
  {p \in Names: graph[<<root, p>>].depth = 1}

GetMutualPubkeys(graph, root) ==
  {p \in GetFollowingPubkeys(graph, root): graph[<<root, p>>].mutual}

\* Variant of DepthOfContacts: the contacts are nearer than the author.
DepthTowardsRoot(graph, root, author) ==
  IF author # root /\ author \in GetGraphNodes(graph, root, AllDepths)
  THEN graph[<<root, author>>].depth - 1
  ELSE 1

\* An author nobody knows counts like the root.
DepthOfContacts(graph, root, author) ==
  IF author # root /\ author \in GetGraphNodes(graph, root, AllDepths)
  THEN graph[<<root, author>>].depth + 1
  ELSE 1

\* The upsert replaces the whole row, whatever was there.
SaveGraphNode(graph, root, pubkey, node) == [graph EXCEPT ![<<root, pubkey>>] = node]

-------------------------------------------------------------------------------
(* GetAuthorsInScope *)

\* Deny wins over allow.
Passes(author) == author \notin Denylist /\ (Allowlist = {} \/ author \in Allowlist)

\* Those of the pubkeys that ORDER BY pubkey puts before p.
Ahead(pubkeys, p) ==
  {q \in pubkeys: \E i, j \in DOMAIN PubkeyOrder:
     i < j /\ PubkeyOrder[i] = q /\ PubkeyOrder[j] = p}

\* Who is left of the root and, behind it, the others in order.  The cap takes
\* whoever comes first; a root that follows itself takes two places.
ApplyLimits(root, others) ==
  LET first   == {p \in {root}: Passes(p)}
      passing == {p \in others: Passes(p)}
  IN  first \union
        {p \in passing: MaxAuthors > 0 =>
           Cardinality(first) + Cardinality(Ahead(passing, p)) < MaxAuthors}

\* Who may be left of a list in any order.
ApplyLimitsUnordered(pubkeys) ==
  LET passing == {p \in pubkeys: Passes(p)}
  IN  IF MaxAuthors > 0 /\ Cardinality(passing) > MaxAuthors
      THEN {chosen \in SUBSET passing: Cardinality(chosen) = MaxAuthors}
      ELSE {passing}

FoafDepth == IF Depth = 0 THEN 2 ELSE Depth

\* The authors it may return: in foaf mode they come out of a map in any order.
GetAuthorsInScope(graph, root) ==
  CASE Mode = "following" -> {ApplyLimits(root, GetFollowingPubkeys(graph, root))}
    [] Mode = "mutual" -> {ApplyLimits(root, GetMutualPubkeys(graph, root))}
    [] Mode = "foaf" ->
         ApplyLimitsUnordered({root} \union GetGraphNodes(graph, root, FoafDepth))
    [] OTHER -> {{root}}
===============================================================================
