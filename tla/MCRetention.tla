------------------------------ MODULE MCRetention ------------------------------
(***************************************************************************)
(* The instance of RetentionManager that TLC checks: a note that may get a  *)
(* reply and an article whose author may enter the owner's contact list.    *)
(***************************************************************************)
EXTENDS RetentionManager

CONSTANTS note, article, spam

Rule(name, priority, condition, type, ticks) ==
  [name |-> name, priority |-> priority, conditions |-> condition,
   action |-> [type |-> type, ticks |-> ticks]]

MCRules ==
  << Rule("discard spam", 20, "spam", "delete", 1),
     Rule("keep discussed notes", 30, "discussed", "retain", 0),
     Rule("keep the network's notes", 20, "network", "retainDays", 1),
     Rule("keep articles", 10, "article", "unparsable", 0) >>

MCConditions ==
  [c \in {"spam", "note", "article", "popular", "discussed", "following", "mutual",
          "befriended", "network"} |->
     CASE c = "spam"       -> [AnyCondition EXCEPT !.kinds = {spam}]
       [] c = "note"       -> [AnyCondition EXCEPT !.not = {"spam", "article"}]
       [] c = "article"    -> [AnyCondition EXCEPT !.kinds = {article}]
       [] c = "popular"    -> [AnyCondition EXCEPT !.repliesMin = 1]
       [] c = "discussed"  -> [AnyCondition EXCEPT !.and = {"popular", "note"}]
       [] c = "following"  -> [AnyCondition EXCEPT !.following = TRUE]
       [] c = "mutual"     -> [AnyCondition EXCEPT !.isMutual = TRUE]
       [] c = "befriended" -> [AnyCondition EXCEPT !.or = {"following", "mutual"}]
       [] c = "network"    -> [AnyCondition EXCEPT !.and = {"befriended"}]]

NoteBy(pubkey, distance, replies) ==
  [kind |-> note, pubkey |-> pubkey, created |-> 0, size |-> 1, tags |-> 0,
   distance |-> distance, mutual |-> FALSE, replies |-> replies, reactions |-> 0, zaps |-> 0,
   now |-> 0]

Plain    == NoteBy("alice", -1, 0)
Answered == NoteBy("alice", -1, 1)
Unread   == [Plain EXCEPT !.kind = article]
Followed == [Unread EXCEPT !.distance = 1]

MCProfiles == {Plain, Answered, Unread, Followed}

CONSTANTS e1, e2

MCEvents == {e1, e2}
MCProfilesOf == [e \in Events |-> IF e = e1 THEN {Plain, Answered} ELSE {Unread, Followed}]
MCFollowedOf == [e \in Events |-> IF e = e1 THEN {Plain} ELSE {Followed}]
===============================================================================
