--------------------------- MODULE FingerHandler -----------------------------
(***************************************************************************)
(* internal/finger: what a query line is answered with.  A query is        *)
(* [verbose, user, host], user and host "" when absent; an answer is       *)
(*   [about, profile, notes]                                               *)
(* about is the pubkey described or a refusal, profile the id of the       *)
(* metadata event used (NoEvent when there is none) and notes the ids of   *)
(* the notes whose text (verbose) or date (otherwise) is printed.          *)
(***************************************************************************)
EXTENDS Queries

CONSTANTS
  OwnerNpub,         \* the owner's key as configured, GetOwnerPubkey
  FingerNotes,       \* notes of an answer (5)
  MaxUsers           \* the configured size of the listing, 0 to disable it

Refusal(why) == [about |-> why, profile |-> NoEvent, notes |-> <<>>]

ProfileOf(events, pubkey) ==
  QueryEvents(events, [Everything EXCEPT !.kinds = {0}, !.authors = {pubkey}, !.limit = 1])

(* RenderUser: the notes in full, or the date of the newest.               *)
RenderUser(pubkey, profile, notes, verbose) ==
  [about   |-> pubkey,
   profile |-> IF profile = <<>> THEN NoEvent ELSE profile[1].id,
   notes   |-> [i \in 1..Smaller(Len(notes), IF verbose THEN FingerNotes ELSE 1) |-> notes[i].id]]

(* The profile is looked up under the npub, and the owner's notes are of a *)
(* type the renderer does not print.                                       *)
renderOwnerInfo(events, ok, verbose) ==
  RenderUser(OwnerNpub, IF ok THEN ProfileOf(events, OwnerNpub) ELSE <<>>, <<>>, verbose)

renderUserInfo(events, ok, pubkey, verbose) ==
  LET profile == ProfileOf(events, pubkey)
      notes   == QueryEvents(events, [Everything EXCEPT !.kinds = {1}, !.authors = {pubkey},
                                                        !.limit = FingerNotes])
  IN  IF ~ok \/ profile = <<>> THEN Refusal("User not found")
      ELSE RenderUser(pubkey, profile, notes, verbose)

handleUserQuery(events, ok, user, verbose) ==
  IF user \in {"", "owner", OwnerNpub} THEN renderOwnerInfo(events, ok, verbose)
                                       ELSE renderUserInfo(events, ok, user, verbose)

Handle(events, ok, query) ==
  IF query.host # "" THEN Refusal("Forwarding not supported")
  ELSE IF query.user = "" /\ MaxUsers <= 0 THEN Refusal("User listing disabled")
  ELSE handleUserQuery(events, ok, IF query.user = "" THEN "owner" ELSE query.user, query.verbose)
=============================================================================
