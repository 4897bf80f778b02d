---------------------------- MODULE Directory_proofs ----------------------------
(***************************************************************************)
(* For any number of workers, people, contact lists, relay lists, failures  *)
(* and crashes: the scope rows of the graph are the owner's direct follows, *)
(* the freshest relay hint wins, the graph that the workers build comes     *)
(* from stored contact lists, and only relays are asked that somebody in    *)
(* the scope has listed.                                                   *)
(***************************************************************************)
EXTENDS Directory, SequenceTheorems, TLAPS

\* The rows for which a relay list of their person has a tag.
ListedRows ==
  {row \in Table!HintRows: \E e \in RelayLists:
     PubKey[e] = row.pubkey /\ \E i \in DOMAIN Tags[e]: Tags[e][i].relay = row.relay}

\* The type of a job, whose rows all come from relay lists.
JobType(j) ==
  j \in [pc: Places, event: Events \union {NoEvent}, depth: Nat \ {0},
         names: Seq(Names), rows: Seq(ListedRows), todo: SUBSET Names,
         follow: Names, node: Nodes \union {NoNode}]

\* Bootstrap handles contact lists of the owner and computes no mutuals.
OwnersJob(j) ==
  /\ j.pc \notin {"checking", "reading", "marking"}
  /\ j.depth = 1
  /\ \A i \in DOMAIN j.names: j.names[i] \in FollowedByOwner
  /\ j.names # << >> => j.event \in ContactLists
  /\ j.pc = "contacts" => j.event \in ContactLists /\ PubKey[j.event] = Owner

StoredContacts == ContactLists \intersect store

\* A worker handles stored contact lists, and whom it is about to mark follows
\* the npub and has a row that a stored list wrote.
StoredJob(j) ==
  /\ j.pc \in {"contacts", "saving"} => j.event \in StoredContacts
  /\ j.pc = "saving" => \A i \in DOMAIN j.names: j.names[i] \in ToSet(Contacts[j.event])
  /\ j.pc \in {"reading", "marking"} =>
       \E e \in StoredContacts: PubKey[e] = j.follow /\ Npub \in ToSet(Contacts[e])
  /\ j.pc = "marking" =>
       \E e \in StoredContacts:
         j.follow \in ToSet(Contacts[e]) /\ j.node.last_seen = CreatedAt[e]

JobOK(p, j) ==
  /\ JobType(j)
  /\ p = Bootstrap => OwnersJob(j)
  /\ p # Bootstrap => StoredJob(j)

JobsOK ==
  /\ jobs = [p \in Processors |-> jobs[p]]
  /\ \A p \in Processors: JobOK(p, jobs[p])

TablesTyped ==
  /\ graph \in Graphs
  /\ hints \in [Names \X Relays -> Table!Hints]
  /\ store \subseteq Events
  /\ saved \subseteq ListedRows
  /\ restarts \in Nat

GraphOK == ScopeRowsAreOwnersFollows /\ GraphComesFromStore /\ MutualsFollowBack

IInv == TablesTyped /\ JobsOK /\ GraphOK /\ NewestRelayListWins

-------------------------------------------------------------------------------
(* Values that are written. *)

LEMMA IdleOK ==
  ASSUME NEW where \in {"idle", "seeds", "failed"}, NEW p \in Processors
  PROVE  JobOK(p, [Idle EXCEPT !.pc = where])
<1>. DEFINE T == [pc: Places, event: Events \union {NoEvent}, depth: Nat \ {0},
                  names: Seq(Names), rows: Seq(ListedRows), todo: SUBSET Names,
                  follow: Names, node: Nodes \union {NoNode}]
            j == [Idle EXCEPT !.pc = where]
<1>1. Owner \in Names
  BY GraphAssumption DEF Roots
<1>2. Idle \in T
  <2>1. << >> \in Seq(Names) /\ << >> \in Seq(ListedRows)
    BY EmptySeq
  <2>. QED BY <1>1, <2>1 DEF Idle, Places
<1>3. j \in T /\ j.pc = where /\ j.depth = Idle.depth /\ j.names = Idle.names
  BY <1>2 DEF Places
<1>4. Idle.depth = 1 /\ Idle.names = << >>
  BY DEF Idle
<1>5. JobType(j)
  BY <1>3 DEF JobType
<1>. HIDE DEF j
<1>6. OwnersJob(j) /\ StoredJob(j)
  BY <1>3, <1>4 DEF OwnersJob, StoredJob
<1>. QED BY <1>5, <1>6 DEF JobOK, j

LEMMA ParsedType ==
  ASSUME NEW e \in RelayLists
  PROVE  Parsed(e) \in Seq(ListedRows)
<1>1. Tags[e] \in Seq(Table!RelayTags) /\ PubKey[e] \in Names /\ CreatedAt[e] \in Nat
  BY DirectoryAssumption DEF Events
<1>. DEFINE n == Len(Tags[e])
<1>2. \A i \in 1 .. n: Tags[e][i] \in Table!RelayTags
  BY <1>1
<1>3. /\ n \in Nat /\ DOMAIN Parsed(e) = 1 .. n
      /\ Parsed(e) = [i \in 1 .. n |-> Parsed(e)[i]]
  BY <1>1 DEF Parsed, Table!ParseRelayHints
<1>4. \A i \in 1 .. n: Parsed(e)[i] \in ListedRows
  <2>. SUFFICES ASSUME NEW i \in 1 .. n PROVE Parsed(e)[i] \in ListedRows
    OBVIOUS
  <2>. DEFINE tag == Tags[e][i]
              row == [pubkey |-> PubKey[e], relay |-> tag.relay,
                      can_read |-> tag.marker # "write", can_write |-> tag.marker # "read",
                      freshness |-> CreatedAt[e]]
  <2>1. Parsed(e)[i] = row
    BY <1>1 DEF Parsed, Table!ParseRelayHints
  <2>2. tag.relay \in Relays
    BY <1>2 DEF Table!RelayTags
  <2>3. row.can_read \/ row.can_write
    OBVIOUS
  <2>4. row \in [pubkey: Names, relay: Relays, can_read: BOOLEAN, can_write: BOOLEAN,
                 freshness: Nat]
    BY <1>1, <2>2
  <2>5. row \in Table!HintRows /\ row.pubkey = PubKey[e] /\ row.relay = tag.relay
    BY <2>3, <2>4 DEF Table!HintRows
  <2>6. i \in DOMAIN Tags[e]
    BY <1>1
  <2>. HIDE DEF row
  <2>. QED BY <2>1, <2>5, <2>6 DEF ListedRows
<1>. QED BY <1>3, <1>4

LEMMA DepthType ==
  ASSUME graph \in Graphs, NEW root \in Roots, NEW author \in Names
  PROVE  DepthOfContacts(graph, root, author) \in Nat \ {0}
<1>1. graph[<<root, author>>] \in Nodes \union {NoNode}
  BY DEF Graphs
<1>. QED BY <1>1 DEF DepthOfContacts, GetGraphNodes, Nodes

LEMMA RootType == ASSUME NEW p \in Processors PROVE Root(p) \in Roots
BY DEF Root, Roots

LEMMA IdleJob == ASSUME NEW p \in Processors PROVE JobOK(p, Idle)
<1>1. Idle = [Idle EXCEPT !.pc = "idle"]
  BY DEF Idle
<1>. QED BY <1>1, IdleOK

-------------------------------------------------------------------------------
(* What a step has to show. *)

LEMMA StoreGrows ==
  ASSUME store \subseteq store', NEW p \in Processors, NEW j, JobOK(p, j)
  PROVE  JobOK(p, j)'
<1>1. StoredContacts \subseteq StoredContacts'
  BY DEF StoredContacts
<1>. QED BY <1>1 DEF JobOK, JobType, OwnersJob, StoredJob

LEMMA JobMoves ==
  ASSUME JobsOK, store \subseteq store', NEW p \in Processors, NEW j,
         jobs' = [jobs EXCEPT ![p] = j], JobOK(p, j)'
  PROVE  JobsOK'
<1>1. jobs' = [q \in Processors |-> IF q = p THEN j ELSE jobs[q]]
  BY DEF JobsOK
<1>2. ASSUME NEW q \in Processors PROVE JobOK(q, jobs[q])' 
  <2>1. CASE q = p
    BY <1>1, <2>1 DEF JobOK, JobType, OwnersJob, StoredJob
  <2>2. CASE q # p
    <3>1. jobs'[q] = jobs[q]
      BY <1>1, <2>2
    <3>2. \A k: JobOK(q, k) => JobOK(q, k)'
      BY StoreGrows
    <3>. QED BY <3>1, <3>2 DEF JobsOK
  <2>. QED BY <2>1, <2>2
<1>. QED BY <1>1, <1>2 DEF JobsOK

LEMMA GraphUnchanged ==
  ASSUME GraphOK, store \subseteq store', graph' = graph
  PROVE  GraphOK'
BY DEF GraphOK, ScopeRowsAreOwnersFollows, GraphComesFromStore, MutualsFollowBack

LEMMA HintsUnchanged ==
  ASSUME NewestRelayListWins, UNCHANGED <<hints, saved>>
  PROVE  NewestRelayListWins'
BY DEF NewestRelayListWins

\* A step that changes nothing but the job of p.
LEMMA JobStep ==
  ASSUME IInv, NEW p \in Processors, NEW j, JobOK(p, j),
         jobs' = [jobs EXCEPT ![p] = j], UNCHANGED <<graph, hints, store, historyVars>>
  PROVE  IInv'
<1>1. JobOK(p, j)'
  BY StoreGrows
<1>2. JobsOK' /\ GraphOK' /\ NewestRelayListWins'
  BY <1>1, JobMoves, GraphUnchanged, HintsUnchanged DEF IInv, historyVars
<1>. QED BY <1>2 DEF IInv, TablesTyped, historyVars

-------------------------------------------------------------------------------
(* The steps that only move one job along. *)

LEMMA JobTypeOf ==
  ASSUME IInv, NEW p \in Processors
  PROVE  JobOK(p, jobs[p]) /\ JobType(jobs[p])
BY DEF IInv, JobsOK, JobOK

LEMMA ReadDepthInv ==
  ASSUME IInv, NEW p \in Processors, ReadDepth(p)
  PROVE  IInv'
<1>. DEFINE list == jobs[p].event
            depth == DepthOfContacts(graph, Root(p), PubKey[list])
            j == [jobs[p] EXCEPT !.pc = "saving", !.depth = depth, !.names = Contacts[list]]
<1>1. JobOK(p, jobs[p]) /\ JobType(jobs[p]) /\ jobs[p].pc = "contacts"
  BY JobTypeOf DEF ReadDepth, At
<1>2. list \in ContactLists
  BY <1>1 DEF JobOK, OwnersJob, StoredJob, StoredContacts
<1>3. PubKey[list] \in Names /\ Contacts[list] \in Seq(Names)
  BY <1>2, DirectoryAssumption DEF Events
<1>4. depth \in Nat \ {0}
  BY <1>3, DepthType, RootType DEF IInv, TablesTyped
<1>. HIDE DEF depth
<1>5. JobType(j) /\ j.pc = "saving" /\ j.depth = depth /\ j.names = Contacts[list]
      /\ j.event = list
  BY <1>1, <1>3, <1>4 DEF JobType, Places
<1>6. jobs' = [jobs EXCEPT ![p] = j]
  BY DEF ReadDepth, depth
<1>. HIDE DEF j
<1>7. CASE p = Bootstrap
  <2>1. PubKey[list] = Owner
    BY <1>1, <1>7 DEF JobOK, OwnersJob
  <2>2. depth = 1
    BY <1>7, <2>1 DEF depth, DepthOfContacts, Root
  <2>3. \A i \in DOMAIN j.names: j.names[i] \in FollowedByOwner
    BY <1>2, <1>3, <1>5, <2>1 DEF FollowedByOwner, ToSet
  <2>4. OwnersJob(j)
    BY <1>2, <1>5, <2>2, <2>3 DEF OwnersJob
  <2>. QED BY <1>5, <1>6, <1>7, <2>4, JobStep DEF JobOK, ReadDepth
<1>8. CASE p # Bootstrap
  <2>1. list \in StoredContacts
    BY <1>1, <1>8 DEF JobOK, StoredJob
  <2>2. StoredJob(j)
    BY <1>5, <2>1 DEF StoredJob, ToSet
  <2>. QED BY <1>5, <1>6, <1>8, <2>2, JobStep DEF JobOK, ReadDepth
<1>. QED BY <1>7, <1>8

\* Where nothing is claimed of a job but its type.
FreePlaces == Places \ {"contacts", "saving", "reading", "marking"}

LEMMA MovedWorker ==
  ASSUME IInv, NEW p \in Processors, p # Bootstrap, NEW j, JobType(j), j.pc \in FreePlaces,
         jobs' = [jobs EXCEPT ![p] = j], UNCHANGED <<graph, hints, store, historyVars>>
  PROVE  IInv'
<1>1. StoredJob(j)
  BY DEF FreePlaces, StoredJob
<1>. QED BY <1>1, JobStep DEF JobOK

\* Bootstrap moves on with the same contact list, depth and names.
LEMMA MovedBootstrap ==
  ASSUME IInv, NEW j, JobType(j),
         j.pc \in Places \ {"contacts", "checking", "reading", "marking"},
         j.event = jobs[Bootstrap].event,
         j.depth = jobs[Bootstrap].depth, j.names = jobs[Bootstrap].names,
         jobs' = [jobs EXCEPT ![Bootstrap] = j],
         UNCHANGED <<graph, hints, store, historyVars>>
  PROVE  IInv'
<1>1. Bootstrap \in Processors
  BY DEF Processors
<1>2. OwnersJob(j)
  BY <1>1, JobTypeOf DEF JobOK, OwnersJob
<1>. QED BY <1>1, <1>2, JobStep DEF JobOK

LEMMA NoMutualsAtBootstrap ==
  ASSUME IInv, NEW p \in Processors, jobs[p].pc \in {"checking", "reading", "marking"}
  PROVE  p # Bootstrap /\ Root(p) = Npub /\ StoredJob(jobs[p])
BY JobTypeOf DEF JobOK, OwnersJob, Root

LEMMA ListDirectFollowsInv ==
  ASSUME IInv, NEW p \in Processors, ListDirectFollows(p)
  PROVE  IInv'
<1>. DEFINE j == [jobs[p] EXCEPT !.pc = "checking", !.todo = GetFollowingPubkeys(graph, Root(p))]
<1>1. jobs' = [jobs EXCEPT ![p] = j] /\ UNCHANGED <<graph, hints, store, historyVars>>
  BY DEF ListDirectFollows
<1>2. JobType(j) /\ j.pc \in FreePlaces
  BY JobTypeOf DEF JobType, Places, FreePlaces, GetFollowingPubkeys
<1>3. p # Bootstrap
  BY DirectoryAssumption DEF ListDirectFollows
<1>. QED BY <1>1, <1>2, <1>3, MovedWorker

LEMMA CheckedInv ==
  ASSUME IInv, NEW p \in Processors, NEW pubkey, p # Bootstrap, Checked(p, pubkey),
         UNCHANGED <<graph, hints, store, historyVars>>
  PROVE  IInv'
<1>. DEFINE j == [jobs[p] EXCEPT !.pc = "checking", !.todo = @ \ {pubkey},
                                 !.follow = Owner, !.node = NoNode]
<1>1. jobs' = [jobs EXCEPT ![p] = j]
  BY DEF Checked
<1>2. JobType(j) /\ j.pc \in FreePlaces
  BY JobTypeOf, GraphAssumption DEF JobType, Places, FreePlaces, Roots
<1>. QED BY <1>1, <1>2, MovedWorker

LEMMA CheckFollowInv ==
  ASSUME IInv, NEW p \in Processors, NEW pubkey \in Names, CheckFollow(p, pubkey)
  PROVE  IInv'
<1>1. p # Bootstrap /\ Root(p) = Npub
  BY NoMutualsAtBootstrap DEF CheckFollow, At
<1>2. UNCHANGED <<graph, hints, store, historyVars>>
  BY DEF CheckFollow
<1>3. PICK isMutual \in FollowsBack(pubkey, Npub):
        IF isMutual
        THEN jobs' = [jobs EXCEPT ![p].pc = "reading", ![p].follow = pubkey]
        ELSE Checked(p, pubkey)
  BY <1>1 DEF CheckFollow
<1>4. CASE ~isMutual
  BY <1>1, <1>2, <1>3, <1>4, CheckedInv
<1>5. CASE isMutual
  <2>. DEFINE j == [jobs[p] EXCEPT !.pc = "reading", !.follow = pubkey]
  <2>1. jobs' = [jobs EXCEPT ![p] = j]
    BY <1>3, <1>5
  <2>2. JobType(j) /\ j.pc = "reading" /\ j.follow = pubkey
    BY JobTypeOf DEF JobType, Places
  <2>3. PICK e \in NewestStoredLists(pubkey): Npub \in ToSet(Contacts[e])
    BY <1>5 DEF FollowsBack
  <2>4. e \in StoredContacts /\ PubKey[e] = pubkey
    BY DEF NewestStoredLists, StoredContacts
  <2>5. StoredJob(j)
    BY <2>2, <2>3, <2>4 DEF StoredJob
  <2>. QED BY <1>1, <1>2, <2>1, <2>2, <2>5, JobStep DEF JobOK
<1>. QED BY <1>4, <1>5

LEMMA SkipFollowInv ==
  ASSUME IInv, NEW p \in Processors, NEW pubkey \in Names, SkipFollow(p, pubkey)
  PROVE  IInv'
<1>1. p # Bootstrap
  BY NoMutualsAtBootstrap DEF SkipFollow, At
<1>. QED BY <1>1, CheckedInv DEF SkipFollow

LEMMA ReadNodeInv ==
  ASSUME IInv, NEW p \in Processors, ReadNode(p)
  PROVE  IInv'
<1>. DEFINE who == jobs[p].follow
            row == graph[<<Root(p), who>>]
            j == [jobs[p] EXCEPT !.pc = "marking", !.node = [row EXCEPT !.mutual = TRUE]]
<1>1. /\ p # Bootstrap /\ Root(p) = Npub /\ StoredJob(jobs[p])
      /\ jobs[p].pc = "reading" /\ JobType(jobs[p])
  BY NoMutualsAtBootstrap, JobTypeOf DEF ReadNode, At
<1>2. who \in Names /\ row # NoNode
  BY DEF ReadNode, GetGraphNodes
<1>3. row \in Nodes
  BY <1>1, <1>2 DEF IInv, TablesTyped, Graphs, Roots
<1>. HIDE DEF row
<1>4. [row EXCEPT !.mutual = TRUE] \in Nodes /\ [row EXCEPT !.mutual = TRUE].last_seen = row.last_seen
  BY <1>3 DEF Nodes
<1>5. jobs' = [jobs EXCEPT ![p] = j] /\ UNCHANGED <<graph, hints, store, historyVars>>
  BY DEF ReadNode, row
<1>6. /\ JobType(j) /\ j.pc = "marking" /\ j.follow = who
      /\ j.node.last_seen = row.last_seen
  BY <1>1, <1>4 DEF JobType, Places
<1>7. \E e \in StoredContacts: who \in ToSet(Contacts[e]) /\ row.last_seen = CreatedAt[e]
  BY <1>1, <1>2 DEF IInv, GraphOK, GraphComesFromStore, StoredContacts, row
<1>. HIDE DEF j
<1>8. StoredJob(j)
  BY <1>1, <1>6, <1>7 DEF StoredJob
<1>. QED BY <1>1, <1>5, <1>6, <1>8, JobStep DEF JobOK

LEMMA MutualsComputedInv ==
  ASSUME IInv, NEW p \in Processors, MutualsComputed(p)
  PROVE  IInv'
BY IdleJob, JobStep DEF MutualsComputed

-------------------------------------------------------------------------------
(* The steps that write to the graph. *)

LEMMA SaveGraphNodeInv ==
  ASSUME IInv, NEW p \in Processors, NEW j, JobOK(p, j), jobs' = [jobs EXCEPT ![p] = j],
         UNCHANGED <<hints, store, historyVars>>,
         NEW root \in Roots, NEW pubkey \in Names, NEW node \in Nodes \union {NoNode},
         graph' = SaveGraphNode(graph, root, pubkey, node),
         root = Owner => pubkey \in FollowedByOwner /\ node.depth = 1,
         root = Npub => \E e \in StoredContacts:
                          pubkey \in ToSet(Contacts[e]) /\ node.last_seen = CreatedAt[e],
         node.mutual => \E e \in StoredContacts:
                          PubKey[e] = pubkey /\ root \in ToSet(Contacts[e])
  PROVE  IInv'
<1>1. /\ graph' \in Graphs
      /\ \A r \in Roots, n \in Names:
           graph'[<<r, n>>] = IF r = root /\ n = pubkey THEN node ELSE graph[<<r, n>>]
  BY DEF IInv, TablesTyped, Graphs, SaveGraphNode
<1>2. Owner \in Roots /\ Npub \in Roots
  BY DEF Roots
<1>3. ScopeRowsAreOwnersFollows'
  BY <1>1, <1>2 DEF IInv, GraphOK, ScopeRowsAreOwnersFollows
<1>4. GraphComesFromStore'
  BY <1>1, <1>2 DEF IInv, GraphOK, GraphComesFromStore, StoredContacts
<1>5. MutualsFollowBack'
  BY <1>1 DEF IInv, GraphOK, MutualsFollowBack, StoredContacts
<1>6. JobOK(p, j)'
  BY StoreGrows
<1>7. JobsOK' /\ NewestRelayListWins'
  BY <1>6, JobMoves, HintsUnchanged DEF IInv, historyVars
<1>. QED BY <1>1, <1>3, <1>4, <1>5, <1>7 DEF IInv, GraphOK, TablesTyped, historyVars

LEMMA MarkMutualInv ==
  ASSUME IInv, NEW p \in Processors, MarkMutual(p)
  PROVE  IInv'
<1>. DEFINE j == [jobs[p] EXCEPT !.pc = "checking", !.todo = @ \ {jobs[p].follow},
                                 !.follow = Owner, !.node = NoNode]
            who == jobs[p].follow
            node == jobs[p].node
<1>1. /\ p # Bootstrap /\ Root(p) = Npub /\ StoredJob(jobs[p])
      /\ jobs[p].pc = "marking" /\ JobType(jobs[p])
  BY NoMutualsAtBootstrap, JobTypeOf DEF MarkMutual, At
<1>2. JobType(j) /\ j.pc = "checking"
  BY <1>1, GraphAssumption DEF JobType, Places, Roots
<1>3. /\ jobs' = [jobs EXCEPT ![p] = j] /\ UNCHANGED <<hints, store, historyVars>>
      /\ graph' = SaveGraphNode(graph, Npub, who, node)
  BY <1>1 DEF MarkMutual, Checked
<1>. HIDE DEF j
<1>4. JobOK(p, j)
  BY <1>1, <1>2 DEF JobOK, StoredJob
<1>5. who \in Names /\ node \in Nodes \union {NoNode} /\ Npub \in Roots /\ Npub # Owner
  BY <1>1, GraphAssumption DEF JobType, Roots
<1>6. /\ \E e \in StoredContacts: who \in ToSet(Contacts[e]) /\ node.last_seen = CreatedAt[e]
      /\ \E e \in StoredContacts: PubKey[e] = who /\ Npub \in ToSet(Contacts[e])
  BY <1>1 DEF StoredJob
<1>. HIDE DEF who, node
<1>. QED BY <1>3, <1>4, <1>5, <1>6, SaveGraphNodeInv

LEMMA SaveContactInv ==
  ASSUME IInv, NEW p \in Processors, SaveContact(p)
  PROVE  IInv'
<1>. DEFINE job == jobs[p]
            j == [jobs[p] EXCEPT !.names = Tail(@)]
            node == [depth |-> job.depth, mutual |-> FALSE, last_seen |-> CreatedAt[job.event]]
<1>1. JobOK(p, job) /\ JobType(job) /\ job.pc = "saving" /\ job.names # << >>
  BY JobTypeOf DEF SaveContact, At
<1>. DEFINE names == job.names
<1>2. names \in Seq(Names)
  BY <1>1 DEF JobType
<1>3. /\ Head(names) \in Names /\ Tail(names) \in Seq(Names)
      /\ 1 \in DOMAIN names /\ Head(names) = names[1]
      /\ \A i \in DOMAIN Tail(names): i + 1 \in DOMAIN names /\ Tail(names)[i] = names[i + 1]
  BY <1>1, <1>2
<1>4. /\ JobType(j) /\ j.pc = "saving" /\ j.names = Tail(names)
      /\ j.depth = job.depth /\ j.event = job.event
  BY <1>1, <1>3 DEF JobType
<1>5. /\ jobs' = [jobs EXCEPT ![p] = j] /\ UNCHANGED <<hints, store, historyVars>>
      /\ graph' = SaveGraphNode(graph, Root(p), Head(names), node)
  BY DEF SaveContact
<1>. HIDE DEF j
<1>6. job.event \in ContactLists
  BY <1>1 DEF JobOK, OwnersJob, StoredJob, StoredContacts
<1>7. node \in Nodes /\ node.depth = job.depth /\ ~node.mutual
      /\ node.last_seen = CreatedAt[job.event]
  BY <1>1, <1>6, DirectoryAssumption DEF Nodes, JobType, Events
<1>. HIDE DEF node
<1>8. CASE p = Bootstrap
  <2>1. job.depth = 1 /\ \A i \in DOMAIN names: names[i] \in FollowedByOwner
    BY <1>1, <1>8 DEF JobOK, OwnersJob
  <2>2. JobOK(p, j)
    BY <1>3, <1>4, <1>6, <1>8, <2>1 DEF JobOK, OwnersJob
  <2>3. Root(p) = Owner /\ Owner \in Roots /\ Owner # Npub
    BY <1>8, GraphAssumption DEF Root, Roots
  <2>4. graph' = SaveGraphNode(graph, Owner, Head(names), node)
    BY <1>5, <2>3
  <2>. QED BY <1>3, <1>5, <1>7, <2>1, <2>2, <2>3, <2>4, SaveGraphNodeInv
<1>9. CASE p # Bootstrap
  <2>1. /\ job.event \in StoredContacts
        /\ \A i \in DOMAIN names: names[i] \in ToSet(Contacts[job.event])
    BY <1>1, <1>9 DEF JobOK, StoredJob
  <2>2. JobOK(p, j)
    BY <1>3, <1>4, <1>9, <2>1 DEF JobOK, StoredJob
  <2>3. Root(p) = Npub /\ Npub \in Roots /\ Owner # Npub
    BY <1>9, GraphAssumption DEF Root, Roots
  <2>4. graph' = SaveGraphNode(graph, Npub, Head(names), node)
    BY <1>5, <2>3
  <2>5. \E e \in StoredContacts: Head(names) \in ToSet(Contacts[e]) /\ node.last_seen = CreatedAt[e]
    BY <1>3, <1>7, <2>1
  <2>. HIDE DEF JobOK
  <2>. QED BY <1>3, <1>5, <1>7, <2>2, <2>3, <2>4, <2>5, SaveGraphNodeInv
<1>. QED BY <1>8, <1>9

-------------------------------------------------------------------------------
(* Relay hints. *)

LEMMA HintType ==
  ASSUME NEW row \in Table!HintRows
  PROVE  /\ Table!HintOf(row) \in Table!Hints
         /\ Table!HintOf(row).freshness = row.freshness
         /\ Table!HintOf(row).can_read = row.can_read
         /\ Table!HintOf(row).can_write = row.can_write
BY DEF Table!HintRows, Table!HintOf, Table!Hints

LEMMA SaveHintInv ==
  ASSUME IInv, NEW p \in Processors, SaveHint(p)
  PROVE  IInv'
<1>. DEFINE job == jobs[p]
            row == Head(job.rows)
            new == Table!HintOf(row)
            old == hints[<<row.pubkey, row.relay>>]
            j == [jobs[p] EXCEPT !.rows = Tail(@)]
<1>1. JobOK(p, job) /\ JobType(job) /\ job.pc \in SavingHints /\ job.rows # << >>
  BY JobTypeOf DEF SaveHint
<1>2. job.rows \in Seq(ListedRows)
  BY <1>1 DEF JobType
<1>3. row \in ListedRows /\ row \in Table!HintRows /\ Tail(job.rows) \in Seq(ListedRows)
  BY <1>1, <1>2 DEF ListedRows
<1>4. /\ JobType(j) /\ j.pc = job.pc /\ j.names = job.names
      /\ j.depth = job.depth /\ j.event = job.event
  BY <1>1, <1>3 DEF JobType
<1>5. jobs' = [jobs EXCEPT ![p] = j] /\ UNCHANGED <<graph, store, restarts>>
  BY DEF SaveHint
<1>. HIDE DEF j
<1>6. JobOK(p, j)
  BY <1>1, <1>4 DEF JobOK, OwnersJob, StoredJob, SavingHints
<1>7. JobsOK' /\ GraphOK'
  BY <1>5, <1>6, StoreGrows, JobMoves, GraphUnchanged DEF IInv
<1>8. /\ hints' = [hints EXCEPT ![<<row.pubkey, row.relay>>] =
                     IF old = Table!NoHint \/ row.freshness > old.freshness THEN new ELSE old]
      /\ saved' = saved \union {row}
  BY DEF SaveHint, Table!SaveRelayHint
<1>9. /\ row.pubkey \in Names /\ row.relay \in Relays /\ row.freshness \in Nat
      /\ new \in Table!Hints /\ new.freshness = row.freshness /\ new # Table!NoHint
  BY <1>3, HintType DEF Table!HintRows, Table!NoHint
<1>10. old \in Table!Hints
  BY <1>9 DEF IInv, TablesTyped
<1>. HIDE DEF row, new, old
<1>11. /\ hints' \in [Names \X Relays -> Table!Hints]
       /\ \A n \in Names, r \in Relays:
            hints'[<<n, r>>] =
              IF n = row.pubkey /\ r = row.relay
              THEN IF old = Table!NoHint \/ row.freshness > old.freshness THEN new ELSE old
              ELSE hints[<<n, r>>]
  BY <1>8, <1>9, <1>10 DEF IInv, TablesTyped
<1>12. ASSUME NEW n \in Names, NEW r \in Relays
       PROVE  LET all == {s \in saved': s.pubkey = n /\ s.relay = r}
              IN  /\ hints'[<<n, r>>] = Table!NoHint => all = {}
                  /\ hints'[<<n, r>>] # Table!NoHint =>
                       \E s \in all: hints'[<<n, r>>] = Table!HintOf(s)
                  /\ \A s \in all: s.freshness <= hints'[<<n, r>>].freshness
  <2>. DEFINE before == {s \in saved: s.pubkey = n /\ s.relay = r}
  <2>1. /\ hints[<<n, r>>] = Table!NoHint => before = {}
        /\ hints[<<n, r>>] # Table!NoHint => \E s \in before: hints[<<n, r>>] = Table!HintOf(s)
        /\ \A s \in before: s.freshness <= hints[<<n, r>>].freshness
    BY DEF IInv, NewestRelayListWins
  <2>2. CASE ~(n = row.pubkey /\ r = row.relay)
    <3>1. {s \in saved': s.pubkey = n /\ s.relay = r} = before
      BY <1>8, <2>2
    <3>. QED BY <1>11, <2>1, <2>2, <3>1
  <2>3. CASE n = row.pubkey /\ r = row.relay
    <3>1. {s \in saved': s.pubkey = n /\ s.relay = r} = before \union {row}
      BY <1>8, <2>3
    <3>2. old = hints[<<n, r>>] /\ old.freshness \in Nat
      BY <1>10, <2>3 DEF old, Table!Hints
    <3>3. \A s \in before: s.freshness \in Nat
      BY DEF IInv, TablesTyped, ListedRows, Table!HintRows
    <3>4. new # Table!NoHint
      BY <1>9
    <3>5. CASE old = Table!NoHint \/ row.freshness > old.freshness
      <4>1. hints'[<<n, r>>] = new
        BY <1>11, <2>3, <3>5
      <4>2. \A s \in before: s.freshness <= row.freshness
        BY <1>9, <2>1, <3>2, <3>3, <3>5
      <4>. QED BY <1>9, <3>1, <3>4, <4>1, <4>2 DEF new
    <3>6. CASE ~(old = Table!NoHint \/ row.freshness > old.freshness)
      <4>1. hints'[<<n, r>>] = old /\ old # Table!NoHint /\ row.freshness <= old.freshness
        BY <1>9, <1>11, <2>3, <3>2, <3>6
      <4>. QED BY <2>1, <3>1, <3>2, <4>1
    <3>. QED BY <3>5, <3>6
  <2>. QED BY <2>2, <2>3
<1>13. NewestRelayListWins'
  BY <1>12 DEF NewestRelayListWins
<1>14. saved' \subseteq ListedRows
  BY <1>3, <1>8 DEF IInv, TablesTyped, row
<1>. QED BY <1>5, <1>7, <1>11, <1>13, <1>14 DEF IInv, TablesTyped

LEMMA MovedOn ==
  ASSUME IInv, NEW p \in Processors, NEW pc \in {"fetch", "discover"},
         jobs' = [jobs EXCEPT ![p] = [jobs[p] EXCEPT !.pc = pc]],
         UNCHANGED <<graph, hints, store, historyVars>>
  PROVE  IInv'
<1>. DEFINE j == [jobs[p] EXCEPT !.pc = pc]
<1>1. JobType(jobs[p])
  BY JobTypeOf
<1>2. /\ JobType(j) /\ j.pc = pc /\ j.names = jobs[p].names
      /\ j.depth = jobs[p].depth /\ j.event = jobs[p].event
  BY <1>1 DEF JobType, Places
<1>3. j.pc \in FreePlaces /\ j.pc \in Places \ {"contacts", "checking", "reading", "marking"}
  BY <1>2 DEF FreePlaces, Places
<1>. HIDE DEF j
<1>. QED BY <1>2, <1>3, MovedWorker, MovedBootstrap DEF j

LEMMA HintsSavedInv ==
  ASSUME IInv, NEW p \in Processors, HintsSaved(p)
  PROVE  IInv'
<1>. UNCHANGED <<graph, hints, store, historyVars>>
  BY DEF HintsSaved
<1>1. CASE At(p, "owner hints")
  <2>1. ~At(p, "found hints")
    BY <1>1 DEF At
  <2>2. jobs' = [jobs EXCEPT ![p] = [jobs[p] EXCEPT !.pc = "fetch"]]
    BY <1>1, <2>1 DEF HintsSaved
  <2>. QED BY <2>2, MovedOn
<1>2. CASE At(p, "found hints")
  <2>1. ~At(p, "owner hints")
    BY <1>2 DEF At
  <2>. QED BY <1>2, <2>1, MovedOn DEF HintsSaved
<1>3. CASE ~At(p, "owner hints") /\ ~At(p, "found hints")
  BY <1>3, IdleJob, JobStep DEF HintsSaved
<1>. QED BY <1>1, <1>2, <1>3

-------------------------------------------------------------------------------
(* Bootstrap. *)

\* Bootstrap begins to save the rows of a relay list.
LEMMA TakesRelayList ==
  ASSUME IInv, NEW e \in RelayLists, NEW pc \in {"owner hints", "found hints"},
         jobs' = [jobs EXCEPT ![Bootstrap].pc = pc, ![Bootstrap].rows = Parsed(e)],
         UNCHANGED <<graph, hints, store, historyVars>>
  PROVE  IInv'
<1>. DEFINE old == jobs[Bootstrap]
            j == [old EXCEPT !.pc = pc, !.rows = Parsed(e)]
<1>1. JobType(old)
  BY JobTypeOf DEF Processors
<1>2. /\ JobType(j) /\ j.pc = pc /\ j.names = old.names
      /\ j.depth = old.depth /\ j.event = old.event
  BY <1>1, ParsedType DEF JobType, Places
<1>3. j.pc \in Places \ {"contacts", "checking", "reading", "marking"}
  BY <1>2 DEF Places
<1>. QED BY <1>2, <1>3, MovedBootstrap

LEMMA FetchOwnerContactsInv == ASSUME IInv, FetchOwnerContacts PROVE IInv'
<1>. DEFINE old == jobs[Bootstrap]
<1>1. JobType(old) /\ OwnersJob(old) /\ Bootstrap \in Processors
  BY JobTypeOf DEF Processors, JobOK
<1>2. UNCHANGED <<graph, hints, store, historyVars>>
  BY DEF FetchOwnerContacts
<1>3. ASSUME NEW e \in ContactLists, PubKey[e] = Owner,
             jobs' = [jobs EXCEPT ![Bootstrap].pc = "contacts", ![Bootstrap].event = e]
      PROVE  IInv'
  <2>. DEFINE j == [old EXCEPT !.pc = "contacts", !.event = e]
  <2>1. jobs' = [jobs EXCEPT ![Bootstrap] = j]
    BY <1>3
  <2>2. /\ JobType(j) /\ j.pc = "contacts" /\ j.event = e
        /\ j.names = old.names /\ j.depth = old.depth
    BY <1>1 DEF JobType, Places, Events
  <2>. HIDE DEF j
  <2>3. OwnersJob(j)
    BY <1>1, <1>3, <2>2 DEF OwnersJob
  <2>. QED BY <1>1, <1>2, <2>1, <2>2, <2>3, JobStep DEF JobOK
<1>4. ASSUME jobs' = [jobs EXCEPT ![Bootstrap].pc = "saving"] PROVE IInv'
  <2>. DEFINE j == [old EXCEPT !.pc = "saving"]
  <2>1. jobs' = [jobs EXCEPT ![Bootstrap] = j]
    BY <1>4
  <2>2. /\ JobType(j) /\ j.pc = "saving" /\ j.event = old.event
        /\ j.names = old.names /\ j.depth = old.depth
    BY <1>1 DEF JobType, Places
  <2>3. j.pc \in Places \ {"contacts", "checking", "reading", "marking"}
    BY <2>2 DEF Places
  <2>. HIDE DEF j
  <2>. QED BY <1>2, <2>1, <2>2, <2>3, MovedBootstrap
<1>. QED BY <1>3, <1>4 DEF FetchOwnerContacts

\* Whom the scope holds: the owner and people with a row under the hex pubkey.
LEMMA ScopeIsRows ==
  ASSUME NEW authors \in GetAuthorsInScope(graph, Owner)
  PROVE  authors \subseteq {Owner} \union {p \in Names: graph[<<Owner, p>>] # NoNode}
<1>. DEFINE rows == {p \in Names: graph[<<Owner, p>>] # NoNode}
<1>1. NoNode.depth = 0
  BY DEF NoNode
<1>2. /\ GetFollowingPubkeys(graph, Owner) \subseteq rows
      /\ GetMutualPubkeys(graph, Owner) \subseteq rows
      /\ GetGraphNodes(graph, Owner, FoafDepth) \subseteq rows
  BY <1>1 DEF GetFollowingPubkeys, GetMutualPubkeys, GetGraphNodes
<1>3. \A others: ApplyLimits(Owner, others) \subseteq {Owner} \union others
  BY DEF ApplyLimits
<1>4. \A pubkeys: \A chosen \in ApplyLimitsUnordered(pubkeys): chosen \subseteq pubkeys
  BY DEF ApplyLimitsUnordered
<1>. HIDE DEF rows
<1>5. CASE Mode = "following"
  BY <1>2, <1>3, <1>5 DEF GetAuthorsInScope, rows
<1>6. CASE Mode = "mutual"
  BY <1>2, <1>3, <1>6 DEF GetAuthorsInScope, rows
<1>7. CASE Mode = "foaf"
  <2>1. authors \in ApplyLimitsUnordered({Owner} \union GetGraphNodes(graph, Owner, FoafDepth))
    BY <1>7 DEF GetAuthorsInScope
  <2>2. authors \subseteq {Owner} \union GetGraphNodes(graph, Owner, FoafDepth)
    BY <1>4, <2>1
  <2>. QED BY <1>2, <2>2 DEF rows
<1>8. CASE Mode \notin {"following", "mutual", "foaf"}
  BY <1>8 DEF GetAuthorsInScope
<1>. QED BY <1>5, <1>6, <1>7, <1>8

LEMMA BootstrapReadsScopeInv == ASSUME IInv, BootstrapReadsScope PROVE IInv'
<1>. DEFINE old == jobs[Bootstrap]
<1>1. JobType(old)
  BY JobTypeOf DEF Processors
<1>2. PICK authors \in GetAuthorsInScope(graph, Owner):
        jobs' = [jobs EXCEPT ![Bootstrap].pc = "discover", ![Bootstrap].todo = authors]
  BY DEF BootstrapReadsScope
<1>. DEFINE j == [old EXCEPT !.pc = "discover", !.todo = authors]
<1>3. authors \in SUBSET Names
  BY ScopeIsRows, GraphAssumption DEF Roots
<1>4. /\ JobType(j) /\ j.pc = "discover" /\ j.names = old.names
      /\ j.depth = old.depth /\ j.event = old.event
  BY <1>1, <1>3 DEF JobType, Places
<1>5. j.pc \in Places \ {"contacts", "checking", "reading", "marking"}
  BY <1>4 DEF Places
<1>. HIDE DEF j
<1>. QED BY <1>2, <1>4, <1>5, MovedBootstrap DEF BootstrapReadsScope, j

LEMMA BootstrapInv == ASSUME IInv, BootstrapStep PROVE IInv'
<1>1. ASSUME NEW e \in RelayLists, FetchOwnerRelays(e) PROVE IInv'
  BY <1>1, TakesRelayList DEF FetchOwnerRelays
<1>2. ASSUME NEW e \in RelayLists, DiscoverRelayHints(e) PROVE IInv'
  BY <1>2, TakesRelayList DEF DiscoverRelayHints
<1>3. ASSUME BootstrapEnds PROVE IInv'
  BY <1>3, IdleJob, JobStep DEF BootstrapEnds, Processors
<1>4. ASSUME NothingToStartFrom PROVE IInv'
  BY <1>4, IdleOK, JobStep DEF NothingToStartFrom, Processors
<1>. QED BY <1>1, <1>2, <1>3, <1>4, FetchOwnerContactsInv, BootstrapReadsScopeInv DEF BootstrapStep

-------------------------------------------------------------------------------
(* Storing, failing, crashing. *)

LEMMA StoredAndTaken ==
  ASSUME IInv, NEW w \in Workers, NEW e \in Events, store' = store \union {e},
         NEW j, JobType(j), j.event = e,
         j.pc = IF e \in ContactLists THEN "contacts" ELSE "hints",
         jobs' = [jobs EXCEPT ![w] = j], UNCHANGED <<graph, hints, historyVars>>
  PROVE  IInv'
<1>1. w \in Processors /\ w # Bootstrap
  BY DirectoryAssumption DEF Processors
<1>2. j.pc = "contacts" => e \in StoredContacts'
  BY DEF StoredContacts
<1>3. StoredJob(j)'
  BY <1>2 DEF StoredJob
<1>4. JobOK(w, j)'
  BY <1>1, <1>3 DEF JobOK, JobType
<1>5. JobsOK' /\ GraphOK' /\ NewestRelayListWins'
  BY <1>1, <1>4, JobMoves, GraphUnchanged, HintsUnchanged DEF IInv, historyVars
<1>. QED BY <1>5 DEF IInv, TablesTyped, historyVars

LEMMA StoreEventInv ==
  ASSUME IInv, NEW w \in Workers, NEW e \in Events, StoreEvent(w, e)
  PROVE  IInv'
<1>. DEFINE rows == IF e \in ContactLists THEN << >> ELSE Parsed(e)
            pc == IF e \in ContactLists THEN "contacts" ELSE "hints"
            j == [jobs[w] EXCEPT !.pc = pc, !.event = e, !.rows = rows]
<1>1. rows \in Seq(ListedRows)
  BY ParsedType, EmptySeq DEF Events
<1>2. JobType(jobs[w])
  BY JobTypeOf DEF Processors
<1>3. pc \in Places
  BY DEF Places
<1>4. store' = store \union {e} /\ jobs' = [jobs EXCEPT ![w] = j]
      /\ UNCHANGED <<graph, hints, historyVars>>
  BY DEF StoreEvent
<1>. HIDE DEF rows, pc
<1>5. JobType(j) /\ j.pc = pc /\ j.event = e
  BY <1>1, <1>2, <1>3 DEF JobType
<1>. HIDE DEF j
<1>. QED BY <1>4, <1>5, StoredAndTaken DEF pc

LEMMA StatementFailsInv ==
  ASSUME IInv, NEW p \in Processors, StatementFails(p)
  PROVE  IInv'
<1>1. JobOK(p, IF p = Bootstrap THEN [Idle EXCEPT !.pc = "failed"] ELSE Idle)
  BY IdleOK, IdleJob
<1>. QED BY <1>1, JobStep DEF StatementFails

LEMMA StartedJobs ==
  ASSUME jobs = [p \in Processors |-> IF p = Bootstrap THEN Starting ELSE Idle]
  PROVE  JobsOK
BY IdleOK, IdleJob DEF JobsOK, Starting

LEMMA CrashInv == ASSUME IInv, CrashAndRestart PROVE IInv'
<1>1. \A p \in Processors: JobOK(p, IF p = Bootstrap THEN Starting ELSE Idle)
  BY IdleOK, IdleJob DEF Starting
<1>2. UNCHANGED <<graph, hints, store, saved>>
      /\ jobs' = [p \in Processors |-> IF p = Bootstrap THEN Starting ELSE Idle]
  BY DEF CrashAndRestart
<1>3. \A p \in Processors: JobOK(p, jobs[p])'
  BY <1>1, <1>2 DEF JobOK, JobType, OwnersJob, StoredJob, StoredContacts
<1>4. JobsOK' /\ GraphOK' /\ NewestRelayListWins'
  BY <1>2, <1>3, GraphUnchanged, HintsUnchanged DEF IInv, JobsOK
<1>5. restarts' \in Nat
  BY DEF IInv, TablesTyped, CrashAndRestart
<1>. QED BY <1>2, <1>4, <1>5 DEF IInv, TablesTyped

-------------------------------------------------------------------------------
LEMMA InitInv == Init => IInv
<1>. SUFFICES ASSUME Init PROVE IInv
  OBVIOUS
<1>1. JobsOK
  BY StartedJobs DEF Init
<1>2. graph \in Graphs /\ \A r \in Roots, p \in Names: graph[<<r, p>>] = NoNode
  BY DEF Init, Graphs
<1>3. GraphOK
  <2>1. ~NoNode.mutual
    BY DEF NoNode
  <2>2. Owner \in Roots /\ Npub \in Roots
    BY DEF Roots
  <2>. QED BY <1>2, <2>1, <2>2
          DEF GraphOK, ScopeRowsAreOwnersFollows, GraphComesFromStore, MutualsFollowBack
<1>4. Table!NoHint \in Table!Hints
  BY DEF Table!NoHint, Table!Hints
<1>5. TablesTyped
  BY <1>2, <1>4 DEF Init, TablesTyped
<1>6. NewestRelayListWins
  BY DEF Init, NewestRelayListWins
<1>. QED BY <1>1, <1>3, <1>5, <1>6 DEF IInv

LEMMA Inductive == IInv /\ [Next]_vars => IInv'
<1>. SUFFICES ASSUME IInv, [Next]_vars PROVE IInv'
  OBVIOUS
<1>1. ASSUME NEW p \in Processors, Work(p) PROVE IInv'
  <2>1. CASE ProcessContactList(p)
    BY <2>1, ReadDepthInv, SaveContactInv DEF ProcessContactList
  <2>2. CASE ComputeMutuals(p)
    BY <2>2, ListDirectFollowsInv, CheckFollowInv, SkipFollowInv, ReadNodeInv, MarkMutualInv,
       MutualsComputedInv DEF ComputeMutuals
  <2>. QED BY <1>1, <2>1, <2>2, SaveHintInv, HintsSavedInv DEF Work
<1>2. CASE UNCHANGED vars
  <2>. USE <1>2 DEF vars, historyVars
  <2>1. JobsOK'
    BY DEF IInv, JobsOK, JobOK, JobType, OwnersJob, StoredJob, StoredContacts
  <2>2. GraphOK' /\ NewestRelayListWins'
    BY GraphUnchanged, HintsUnchanged DEF IInv
  <2>. QED BY <2>1, <2>2 DEF IInv, TablesTyped
<1>. QED BY <1>1, <1>2, StatementFailsInv, StoreEventInv, BootstrapInv, CrashInv DEF Next

LEMMA Invariance == Spec => []IInv
BY InitInv, Inductive, PTL DEF Spec

\* The scope never leaves the owner and those whom the owner's own contact lists
\* name, whatever contact lists of other people arrive.
THEOREM ScopeIsFixedByBootstrap == Spec => []ScopeRowsAreOwnersFollows
<1>1. IInv => ScopeRowsAreOwnersFollows
  BY DEF IInv, GraphOK
<1>. QED BY <1>1, Invariance, PTL

\* The workers' graph holds nothing that no stored contact list says, and marks
\* nobody as mutual whose stored list does not name the root.
THEOREM GraphIsBackedByStore == Spec => [](GraphComesFromStore /\ MutualsFollowBack)
<1>1. IInv => GraphComesFromStore /\ MutualsFollowBack
  BY DEF IInv, GraphOK
<1>. QED BY <1>1, Invariance, PTL

\* Every row the workers wrote comes from a contact list that is in the store and names
\* the person of the row, whichever statement fails and whenever the process dies
\* (ProcessContactList, sync/graph.go:29-87).
THEOREM GraphHoldsNoInventions == Spec => []GraphComesFromStore
<1>1. IInv => GraphComesFromStore
  BY DEF IInv, GraphOK
<1>. QED BY <1>1, Invariance, PTL

\* In whatever order and by whomever relay lists are handled, no hint is kept that
\* is staler than one that was saved.
THEOREM FreshestHintIsKept == Spec => []NewestRelayListWins
<1>1. IInv => NewestRelayListWins
  BY DEF IInv
<1>. QED BY <1>1, Invariance, PTL

\* The tables and the jobs keep their types, whoever writes to them; in particular no
\* row of graph_nodes has a depth below 1 (graph.go:41-77, relay_hints.go:19-47).
THEOREM DirectoryTypes == Spec => []TypeOK
<1>1. IInv => TypeOK
  <2>. SUFFICES ASSUME IInv PROVE TypeOK
    OBVIOUS
  <2>1. ListedRows \subseteq Table!HintRows
    BY DEF ListedRows
  <2>2. Seq(ListedRows) \subseteq Seq(Table!HintRows)
    BY <2>1
  <2>3. \A p \in Processors: jobs[p] \in Jobs
    BY <2>2, JobTypeOf DEF JobType, Jobs
  <2>4. jobs \in [Processors -> Jobs]
    BY <2>3 DEF IInv, JobsOK
  <2>. QED BY <2>1, <2>4 DEF IInv, TablesTyped, TypeOK
<1>. QED BY <1>1, Invariance, PTL

\* A relay that the table gives for somebody is one that a relay list of theirs names.
LEMMA HintsAreListed ==
  ASSUME IInv, NEW p \in Names, NEW r \in Relays,
         \/ r \in Table!GetOutboxRelays(hints, p)
         \/ r \in Table!GetInboxRelays(hints, p)
  PROVE  \E e \in RelayLists: PubKey[e] = p /\ \E i \in DOMAIN Tags[e]: Tags[e][i].relay = r
<1>1. hints[<<p, r>>].can_read = TRUE \/ hints[<<p, r>>].can_write = TRUE
  <2>1. hints[<<p, r>>] \in Table!Hints
    BY DEF IInv, TablesTyped
  <2>. QED BY <2>1 DEF Table!Hints, Table!GetOutboxRelays, Table!GetInboxRelays,
                       Table!GetWriteRelays, Table!GetReadRelays
<1>2. hints[<<p, r>>] # Table!NoHint
  BY <1>1 DEF Table!NoHint
<1>3. PICK row \in saved: row.pubkey = p /\ row.relay = r
  BY <1>2 DEF IInv, NewestRelayListWins
<1>. QED BY <1>3 DEF IInv, TablesTyped, ListedRows

\* nophr asks no relay but the seeds and those that the owner, or somebody whom a
\* contact list of the owner names, has listed: in every mode, with every limit, for
\* whatever lists strangers publish (GetAuthorsInScope and getActiveRelays,
\* graph.go:145-239, engine.go:310-372, 674-711).
THEOREM StrangersChooseNoRelay == Spec => []RelaysOfStrangersAreNotAsked
<1>1. IInv => RelaysOfStrangersAreNotAsked
  <2>. SUFFICES ASSUME IInv, NEW r \in RelaysToAsk \ Seeds
                PROVE  \E e \in RelayLists:
                         /\ PubKey[e] \in FollowedByOwner \union {Owner}
                         /\ \E i \in DOMAIN Tags[e]: Tags[e][i].relay = r
    BY DEF RelaysOfStrangersAreNotAsked
  <2>1. PICK authors \in GetAuthorsInScope(graph, Owner):
          r \in Table!GetActiveRelays(hints, authors) \union InboxRelays
    BY DEF RelaysToAsk
  <2>2. Owner \in Names
    BY GraphAssumption DEF Roots
  <2>3. \A a \in authors: a \in Names /\ a \in FollowedByOwner \union {Owner}
    BY <2>2, ScopeIsRows DEF IInv, GraphOK, ScopeRowsAreOwnersFollows
  <2>4. PICK a \in FollowedByOwner \union {Owner}:
          /\ a \in Names
          /\ \/ r \in Table!GetOutboxRelays(hints, a)
             \/ r \in Table!GetInboxRelays(hints, a)
    BY <2>1, <2>2, <2>3 DEF Table!GetActiveRelays, InboxRelays
  <2>5. r \in Relays
    BY <2>4 DEF Table!GetOutboxRelays, Table!GetInboxRelays,
                Table!GetWriteRelays, Table!GetReadRelays
  <2>. QED BY <2>4, <2>5, HintsAreListed
<1>. QED BY <1>1, Invariance, PTL
===============================================================================
