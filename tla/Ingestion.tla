------------------------------- MODULE Ingestion -------------------------------
(***************************************************************************)
(* What the sync engine promises about the events it takes in: the store    *)
(* holds an event at most once, and each stored copy of an event - pruning  *)
(* may remove one and a later sync may fetch the event again - has its      *)
(* effects on the aggregates at most once, however many relays deliver it,  *)
(* however many workers meet it and wherever the process dies.             *)
(***************************************************************************)
EXTENDS Naturals

CONSTANT Events

VARIABLES
  store,   \* the events in the store
  copies,  \* how many copies of each event were ever stored
  counted  \* the copies <<event, n>> that had their effects

vars == <<store, copies, counted>>

Init ==
  /\ store = {}
  /\ copies = [e \in Events |-> 0]
  /\ counted = {}

Store(e) ==
  /\ e \notin store
  /\ store' = store \union {e}
  /\ copies' = [copies EXCEPT ![e] = @ + 1]
  /\ UNCHANGED counted

Count(e, n) ==
  /\ <<e, n>> \notin counted
  /\ counted' = counted \union {<<e, n>>}
  /\ UNCHANGED <<store, copies>>

Prune(e) ==
  /\ store' = store \ {e}
  /\ UNCHANGED <<copies, counted>>

Next == \E e \in Events: Store(e) \/ Prune(e) \/ \E n \in 1 .. copies[e]: Count(e, n)

Spec == Init /\ [][Next]_vars
===============================================================================
