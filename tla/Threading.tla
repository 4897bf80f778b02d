------------------------------ MODULE Threading ------------------------------
(***************************************************************************)
(* internal/aggregates/threading.go: what the "e" and "p" tags of an event *)
(* say about its place in a thread (NIP-10).  Pure operators; an event is  *)
(* a record                                                                *)
(*   [id, kind, author, created, eTags, pTags, ...]                        *)
(* where eTags is the sequence of its "e" tags, [id |-> _, marker |-> _],  *)
(* marker "" for a tag that has none, and pTags the set of the pubkeys     *)
(* its "p" tags name.  NoEvent is the empty id.                            *)
(***************************************************************************)
EXTENDS Naturals, Sequences

CONSTANT NoEvent

isThreadableKind(kind) == kind \in {1, 30023}

hasMarkedTags(eTags) == \E i \in DOMAIN eTags : eTags[i].marker # ""

(* The id the last tag with this marker names: a later tag overwrites.     *)
LastMarked(eTags, marker) ==
  LET at == {i \in DOMAIN eTags : eTags[i].marker = marker}
  IN  IF at = {} THEN NoEvent
      ELSE eTags[CHOOSE i \in at : \A j \in at : j <= i].id

(* Preferred format.  A reply marker without a root marker is the root as  *)
(* well; every other tag, marked "mention" or not, is a mention.           *)
parseMarkedFormat(eTags) ==
  LET root  == LastMarked(eTags, "root")
      reply == LastMarked(eTags, "reply")
  IN  [root      |-> IF root = NoEvent THEN reply ELSE root,
       reply     |-> reply,
       mentioned |-> {eTags[i].id : i \in {j \in DOMAIN eTags :
                                     eTags[j].marker \notin {"root", "reply"}}}]

(* Deprecated format: first tag root, last tag reply (one tag is both),    *)
(* the tags in between mentions.                                           *)
parsePositionalFormat(eTags) ==
  [root      |-> eTags[1].id,
   reply     |-> eTags[Len(eTags)].id,
   mentioned |-> {eTags[i].id : i \in 2..(Len(eTags) - 1)}]

(* The caller has checked the kind: for any other the code returns an      *)
(* error, and isThreadableKind is the guard of every use.                  *)
ParseThreadInfo(event) ==
  IF event.eTags = <<>> THEN [root |-> NoEvent, reply |-> NoEvent, mentioned |-> {}]
  ELSE IF hasMarkedTags(event.eTags) THEN parseMarkedFormat(event.eTags)
  ELSE parsePositionalFormat(event.eTags)

IsReply(info) == info.reply # NoEvent

GetRootOrSelf(info, id) == IF info.root # NoEvent THEN info.root ELSE id

IsMentioningPubkey(event, pubkey) == pubkey \in event.pTags
=============================================================================
