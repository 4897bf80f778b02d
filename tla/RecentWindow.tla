----------------------------- MODULE RecentWindow -----------------------------
(***************************************************************************)
(* What the deduplication cache promises: it knows the MaxSize ids that     *)
(* were added last, each once, and forgets the one added longest ago first. *)
(* Adding a remembered id again, or looking it up, does not keep it longer: *)
(* this is the order of arrival, not that of the last use, which "LRU"      *)
(* would be - the word the comments use (eventcache.go:7, engine.go:34,    *)
(* :536).                                                                  *)
(***************************************************************************)
EXTENDS Naturals, Sequences, SequencesExt

CONSTANTS Ids, MaxSize

VARIABLE window  \* the remembered ids, the oldest first

Init == window = << >>

Remember(id) ==
  window' = IF id \in ToSet(window) THEN window
            ELSE Append(IF Len(window) = MaxSize THEN Tail(window) ELSE window, id)

Forget == window' = << >>

Next == Forget \/ \E id \in Ids: Remember(id)

Spec == Init /\ [][Next]_window
===============================================================================
