----------------------------- MODULE MCSyncEngine -----------------------------
(***************************************************************************)
(* The instances of SyncEngine that TLC checks: a reply to a note, alone    *)
(* or with a contact list.                                                  *)
(***************************************************************************)
EXTENDS SyncEngine

CONSTANTS note, plus, reply, contacts

MCEvents == {reply, contacts}
MCReply == {reply}

MCKindOf == [e \in Events |-> IF e = contacts THEN "directory" ELSE "interaction"]

MCUpdateOf == [e \in Events |-> [type |-> "reply", target |-> note, at |-> 1]]
MCSymmetry == Permutations(Workers) \union Permutations(Subscriptions)
===============================================================================
