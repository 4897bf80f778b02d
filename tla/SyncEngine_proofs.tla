--------------------------- MODULE SyncEngine_proofs ---------------------------
(***************************************************************************)
(* For any number of workers, relays, events, capacities and crashes: the   *)
(* ingestion pipeline implements Ingestion, that is, the store never takes  *)
(* a second copy of an event it has, and no stored copy reaches the         *)
(* aggregate queue twice.                                                  *)
(***************************************************************************)
EXTENDS SyncEngine, AggregateWorker_proofs

\* Between a successful StoreEvent and its last step a goroutine holds a copy.
Holding(p) == procs[p].pc \in {"cache", "dispatch", "finish"}

Busy(p) == Holding(p) \/ procs[p].pc \in {"check", "exists", "store"}

\* What is sent, received or processed is an event.
EventsInTransit ==
  /\ \A s \in Subscriptions: subs[s].pc = "sending" => subs[s].event \in Events
  /\ \A p \in Processors: Busy(p) => procs[p].event \in Events

\* The numbered copies in hand were stored, and nobody else holds one.
CopiesInHand ==
  \A p \in Processors: IF Holding(p) THEN procs[p].copy \in 1 .. copies[procs[p].event]
                       ELSE procs[p].copy = 0

CopiesDistinct ==
  \A p, q \in Processors: (p # q /\ Holding(p) /\ Holding(q)) => CopyOf(p) # CopyOf(q)

\* A copy is counted by its holder, on the way from "dispatch" to "finish".
NotYetCounted ==
  \A p \in Processors: procs[p].pc \in {"cache", "dispatch"} => CopyOf(p) \notin counted

CountedWereStored ==
  \A e \in Events, n \in Nat: <<e, n>> \in counted => n \in 1 .. copies[e]

IInv ==
  /\ TypeOK
  /\ EventsInTransit
  /\ CopiesInHand
  /\ CopiesDistinct
  /\ NotYetCounted
  /\ CountedWereStored

-------------------------------------------------------------------------------
(* The cache keeps its type. *)

LEMMA NewCacheType == Cache!NewEventCache \in Cache!EventCaches
BY SyncAssumption DEF Cache!NewEventCache, Cache!EventCaches, Cache!Slots

LEMMA AddCacheType ==
  ASSUME NEW k \in Cache!EventCaches, NEW e \in Events
  PROVE  Cache!Add(k, e) \in Cache!EventCaches
<1>1. (k.position + 1) % CacheSize \in 0 .. CacheSize - 1
  BY SyncAssumption DEF Cache!EventCaches, Cache!Slots
<1>. QED BY <1>1 DEF Cache!Add, Cache!EventCaches, Cache!Slots, Cache!Contains

-------------------------------------------------------------------------------
LEMMA InitInv == Init => IInv
<1>. SUFFICES ASSUME Init PROVE IInv
  OBVIOUS
<1>. USE SyncAssumption DEF Init, StartEngine
<1>1. TypeOK
  <2>1. eventChan \in Seq(Events) /\ Len(eventChan) <= ChanCap
    OBVIOUS
  <2>. QED BY <2>1, NewCacheType DEF TypeOK, SubStates, ProcStates, IdleSub, Free
<1>2. EventsInTransit /\ CopiesInHand /\ CopiesDistinct /\ NotYetCounted
  BY DEF EventsInTransit, CopiesInHand, CopiesDistinct, NotYetCounted, Busy, Holding,
         Free, IdleSub
<1>3. CountedWereStored
  BY DEF CountedWereStored
<1>. QED BY <1>1, <1>2, <1>3 DEF IInv

\* Steps that leave the processors, the numbered copies and the counts alone.
LEMMA QuietSteps ==
  ASSUME IInv, TypeOK', UNCHANGED <<procs, copies, counted>>,
         \A s \in Subscriptions: subs'[s].pc = "sending" => subs'[s].event \in Events
  PROVE  IInv'
BY DEF IInv, EventsInTransit, CopiesInHand, CopiesDistinct, NotYetCounted,
       CountedWereStored, Busy, Holding, CopyOf

\* One relay goroutine moves on.
LEMMA SubMoves ==
  ASSUME IInv, NEW s \in Subscriptions, NEW r \in SubStates,
         r.pc = "sending" => r.event \in Events,
         subs' = [subs EXCEPT ![s] = r]
  PROVE  /\ subs' \in [Subscriptions -> SubStates]
         /\ \A t \in Subscriptions: subs'[t].pc = "sending" => subs'[t].event \in Events
BY DEF IInv, TypeOK, EventsInTransit

LEMMA RelayInv ==
  ASSUME IInv, NEW s \in Subscriptions, Relay(s)
  PROVE  IInv'
<1>. USE SyncAssumption DEF IInv
<1>0. subs \in [Subscriptions -> SubStates] /\ subs[s] \in SubStates
  BY DEF TypeOK
<1>1. ASSUME NEW r \in SubStates, r.pc = "sending" => r.event \in Events,
             subs' = [subs EXCEPT ![s] = r],
             UNCHANGED <<pipeVars, stopPc, loop, procs, eventCache, storeVars,
                         historyVars, restarts>>
      PROVE  IInv'
  <2>1. TypeOK'
    BY <1>1, SubMoves DEF TypeOK, pipeVars, storeVars, historyVars
  <2>. QED BY <1>1, <2>1, SubMoves, QuietSteps DEF storeVars, historyVars
<1>2. CASE LaunchRelay(s) \/ NegentropyEnds(s)
  <2>1. PICK pc \in {"idle", "negentropy", "receiving"}: subs' = [subs EXCEPT ![s].pc = pc]
    BY <1>2 DEF LaunchRelay, NegentropyEnds
  <2>. DEFINE r == [subs[s] EXCEPT !.pc = pc]
  <2>2. r \in SubStates /\ r.pc # "sending" /\ subs' = [subs EXCEPT ![s] = r]
    BY <1>0, <2>1 DEF SubStates
  <2>3. UNCHANGED <<pipeVars, stopPc, loop, procs, eventCache, storeVars, historyVars, restarts>>
    BY <1>2 DEF LaunchRelay, NegentropyEnds
  <2>. QED BY <2>2, <2>3, <1>1
<1>3. CASE SubscriptionEnds(s) \/ GiveUpSending(s)
  <2>1. IdleSub \in SubStates /\ IdleSub.pc # "sending"
    BY DEF IdleSub, SubStates
  <2>. QED BY <2>1, <1>1, <1>3 DEF SubscriptionEnds, GiveUpSending
<1>4. ASSUME NEW e \in Events, RelayDelivers(s, e) PROVE IInv'
  <2>. DEFINE r == [pc |-> "sending", event |-> e]
  <2>1. r \in SubStates /\ r.event \in Events
    BY DEF SubStates
  <2>. QED BY <2>1, <1>1, <1>4 DEF RelayDelivers
<1>5. CASE SendEvent(s)
  <2>1. UNCHANGED <<eventsClosed, stopPc, loop, procs, eventCache, storeVars, historyVars, restarts>>
    BY <1>5 DEF SendEvent
  <2>2. CASE eventsClosed
    <3>1. UNCHANGED <<eventChan, subs>>
      BY <1>5, <2>2 DEF SendEvent
    <3>2. TypeOK'
      BY <2>1, <3>1 DEF TypeOK, storeVars, historyVars
    <3>. QED BY <2>1, <3>1, <3>2, QuietSteps DEF EventsInTransit, storeVars, historyVars
  <2>3. CASE ~eventsClosed
    <3>. DEFINE r == [pc |-> "receiving", event |-> NoEvent]
    <3>1. r \in SubStates /\ r.pc # "sending"
      BY DEF SubStates
    <3>2. subs' = [subs EXCEPT ![s] = r]
      BY <1>5, <2>3 DEF SendEvent
    <3>3. eventChan' \in Seq(Events) /\ Len(eventChan') <= ChanCap
      <4>1. eventChan \in Seq(Events) /\ Len(eventChan) < ChanCap /\ subs[s].event \in Events
        BY <1>5, <2>3 DEF SendEvent, TypeOK, EventsInTransit
      <4>2. eventChan' = Append(eventChan, subs[s].event)
        BY <1>5, <2>3 DEF SendEvent
      <4>. HIDE DEF IInv
      <4>. QED BY <4>1, <4>2
    <3>4. TypeOK'
      BY <2>1, <3>1, <3>2, <3>3, SubMoves DEF TypeOK, storeVars, historyVars
    <3>. QED BY <2>1, <3>1, <3>2, <3>4, SubMoves, QuietSteps DEF storeVars, historyVars
  <2>. QED BY <2>2, <2>3
<1>6. ASSUME NEW e \in Events, NegentropySave(s, e) PROVE IInv'
  <2>1. /\ UNCHANGED <<eventChan, eventsClosed, stopPc, loop, subs, procs, eventCache,
                       counted, handled, cutOff, restarts>>
        /\ store' = store \union {e}
        /\ copies' = [copies EXCEPT ![e] = @ + 1]
        /\ bypassed' = bypassed \union {<<e, copies[e] + 1>>}
        /\ finished' = finished \union {<<e, copies[e] + 1>>}
    BY <1>6 DEF NegentropySave, Stored, pipeVars
  <2>2. copies' \in [Events -> Nat] /\ \A f \in Events: copies'[f] >= copies[f]
    BY <2>1 DEF TypeOK
  <2>3. TypeOK'
    BY <2>1, <2>2 DEF TypeOK
  <2>4. EventsInTransit' /\ CopiesDistinct' /\ NotYetCounted'
    BY <2>1 DEF EventsInTransit, CopiesDistinct, NotYetCounted, CopyOf, Holding, Busy
  <2>5. CopiesInHand'
    BY <2>1, <2>2 DEF CopiesInHand, Holding, Busy, TypeOK
  <2>6. CountedWereStored'
    BY <2>1, <2>2 DEF CountedWereStored, TypeOK
  <2>. QED BY <2>3, <2>4, <2>5, <2>6
<1>. QED BY <1>2, <1>3, <1>4, <1>5, <1>6 DEF Relay

-------------------------------------------------------------------------------
(* Steps of a processor. *)

LEMMA ProcType ==
  ASSUME IInv, NEW p \in Processors
  PROVE  procs \in [Processors -> ProcStates] /\ procs[p] \in ProcStates
BY DEF IInv, TypeOK

\* A processor goes on with the copy it holds, or holds none before or after.
LEMMA ProcMoves ==
  ASSUME IInv, TypeOK', NEW p \in Processors, NEW r \in ProcStates,
         procs' = [procs EXCEPT ![p] = r],
         UNCHANGED <<subs, copies, counted>>,
         r.pc \in {"check", "exists", "store"} => r.event \in Events,
         \/ r.copy = 0 /\ r.pc \notin {"cache", "dispatch", "finish"}
         \/ /\ Holding(p) /\ r.pc \in {"cache", "dispatch", "finish"}
            /\ r.event = procs[p].event /\ r.copy = procs[p].copy
            /\ procs[p].pc = "finish" => r.pc = "finish"
  PROVE  IInv'
<1>. USE ProcType DEF Holding, Busy
<1>1. procs'[p] = r /\ \A q \in Processors \ {p}: procs'[q] = procs[q]
  OBVIOUS
<1>2. EventsInTransit'
  BY <1>1 DEF IInv, EventsInTransit
<1>3. CopiesInHand'
  BY <1>1 DEF IInv, CopiesInHand
<1>4. CopiesDistinct'
  BY <1>1 DEF IInv, CopiesDistinct, CopyOf
<1>5. NotYetCounted'
  BY <1>1 DEF IInv, NotYetCounted, CopyOf, ProcStates
<1>6. CountedWereStored'
  BY DEF IInv, CountedWereStored
<1>. QED BY <1>2, <1>3, <1>4, <1>5, <1>6 DEF IInv

LEMMA TakingInv ==
  ASSUME IInv,
         \/ \E w \in Workers: TakeEvent(w) \/ WorkerExits(w)
         \/ Refresh
  PROVE  IInv'
<1>. USE SyncAssumption
<1>1. Refresher \in Processors /\ Workers \subseteq Processors
  BY DEF Processors
<1>2. ASSUME NEW w \in Workers, TakeEvent(w) PROVE IInv'
  <2>. DEFINE r == [pc |-> "check", event |-> Head(eventChan), copy |-> 0]
  <2>1. Head(eventChan) \in Events /\ Tail(eventChan) \in Seq(Events)
        /\ Len(Tail(eventChan)) <= ChanCap
    BY <1>2 DEF IInv, TypeOK, TakeEvent
  <2>2. r \in ProcStates
    BY <2>1 DEF ProcStates
  <2>3. /\ procs' = [procs EXCEPT ![w] = r] /\ eventChan' = Tail(eventChan)
        /\ UNCHANGED <<eventsClosed, stopPc, loop, subs, eventCache, storeVars,
                       historyVars, restarts>>
    BY <1>2 DEF TakeEvent
  <2>4. TypeOK'
    BY <2>1, <2>2, <2>3 DEF IInv, TypeOK, storeVars, historyVars
  <2>. QED BY <1>1, <2>1, <2>2, <2>3, <2>4, ProcMoves DEF storeVars, historyVars
<1>3. ASSUME NEW p \in Processors, procs[p].pc = "idle", procs' = [procs EXCEPT ![p].pc = "exited"],
             UNCHANGED <<pipeVars, stopPc, loop, subs, eventCache, storeVars, historyVars, restarts>>
      PROVE  IInv'
  <2>. DEFINE r == [procs[p] EXCEPT !.pc = "exited"]
  <2>1. procs[p].copy = 0
    BY <1>3 DEF IInv, CopiesInHand, Holding
  <2>2. r \in ProcStates /\ r.pc = "exited" /\ r.copy = 0 /\ procs' = [procs EXCEPT ![p] = r]
    BY <1>3, <2>1, ProcType DEF ProcStates
  <2>3. TypeOK'
    BY <1>3, <2>2 DEF IInv, TypeOK, pipeVars, storeVars, historyVars
  <2>. QED BY <1>3, <2>2, <2>3, ProcMoves DEF storeVars, historyVars
<1>4. ASSUME NEW w \in Workers, WorkerExits(w) PROVE IInv'
  BY <1>1, <1>3, <1>4 DEF WorkerExits
<1>5. CASE RefresherExits
  BY <1>1, <1>3, <1>5 DEF RefresherExits
<1>6. ASSUME NEW e \in Events, RefreshFetches(e) PROVE IInv'
  <2>. DEFINE r == [pc |-> "check", event |-> e, copy |-> 0]
  <2>1. r \in ProcStates
    BY DEF ProcStates
  <2>2. /\ procs' = [procs EXCEPT ![Refresher] = r]
        /\ UNCHANGED <<pipeVars, stopPc, loop, subs, eventCache, storeVars, historyVars, restarts>>
    BY <1>6 DEF RefreshFetches
  <2>3. TypeOK'
    BY <2>1, <2>2 DEF IInv, TypeOK, pipeVars, storeVars, historyVars
  <2>. QED BY <1>1, <2>1, <2>2, <2>3, ProcMoves DEF storeVars, historyVars
<1>. QED BY <1>2, <1>4, <1>5, <1>6 DEF Refresh

-------------------------------------------------------------------------------
(* processEvent. *)

\* The steps that neither store nor count: the processor moves to another step
\* with its event, or is free again.
LEMMA PlainStepInv ==
  ASSUME IInv, NEW p \in Processors,
         \/ CheckCache(p) \/ SkipDuplicate(p) \/ ExistsFailsOrNot(p) \/ StoreFails(p)
         \/ AddToCache(p) \/ OtherKindHandled(p) \/ DirectoryFails(p) \/ FinishEvent(p)
  PROVE  IInv'
<1>. USE SyncAssumption, ProcType DEF At, Goto, Done
<1>1. procs[p].copy = 0 \/ Holding(p)
  BY DEF IInv, CopiesInHand
<1>2. Busy(p)
  BY DEF CheckCache, SkipDuplicate, ExistsFailsOrNot, StoreFails, AddToCache,
         OtherKindHandled, DirectoryFails, FinishEvent, Busy, Holding
<1>3. procs[p].event \in Events
  BY <1>2 DEF IInv, EventsInTransit
<1>4. UNCHANGED <<eventChan, eventsClosed, stopPc, loop, subs, store, copies, bypassed, counted,
                  cutOff, restarts>>
  BY DEF CheckCache, SkipDuplicate, ExistsFailsOrNot, StoreFails, AddToCache,
         OtherKindHandled, DirectoryFails, FinishEvent, pipeVars, storeVars, historyVars
<1>5. finished' \in SUBSET (Events \X Nat) /\ handled' \in SUBSET (Events \X Nat)
  <2>1. /\ finished \in SUBSET (Events \X Nat) /\ handled \in SUBSET (Events \X Nat)
        /\ CopyOf(p) \in Events \X Nat
    BY <1>3 DEF IInv, TypeOK, CopyOf, ProcStates
  <2>2. /\ finished' \in {finished, finished \union {CopyOf(p)}}
        /\ handled' \in {handled, handled \union {CopyOf(p)}}
    BY DEF CheckCache, SkipDuplicate, ExistsFailsOrNot, StoreFails, AddToCache,
           OtherKindHandled, DirectoryFails, FinishEvent, historyVars
  <2>. QED BY <2>1, <2>2
<1>6. eventCache' \in Cache!EventCaches
  <2>1. eventCache \in Cache!EventCaches
    BY DEF IInv, TypeOK
  <2>2. eventCache' \in {eventCache, Cache!Add(eventCache, procs[p].event)}
    BY DEF CheckCache, SkipDuplicate, ExistsFailsOrNot, StoreFails, AddToCache,
           OtherKindHandled, DirectoryFails, FinishEvent
  <2>. QED BY <1>3, <2>1, <2>2, AddCacheType
<1>7. PICK r \in ProcStates:
        /\ procs' = [procs EXCEPT ![p] = r]
        /\ r.pc \in {"check", "exists", "store"} => r.event \in Events
        /\ \/ r.copy = 0 /\ r.pc \notin {"cache", "dispatch", "finish"}
           \/ /\ Holding(p) /\ r.pc \in {"cache", "dispatch", "finish"}
              /\ r.event = procs[p].event /\ r.copy = procs[p].copy
              /\ procs[p].pc = "finish" => r.pc = "finish"
  <2>1. CASE SkipDuplicate(p) \/ StoreFails(p) \/ DirectoryFails(p) \/ FinishEvent(p)
    <3>1. procs' = [procs EXCEPT ![p] = Free]
      BY <2>1 DEF SkipDuplicate, StoreFails, DirectoryFails, FinishEvent
    <3>2. Free \in ProcStates /\ Free.copy = 0 /\ Free.pc = "idle"
      BY DEF Free, ProcStates
    <3>. QED BY <3>1, <3>2
  <2>2. CASE CheckCache(p) \/ ExistsFailsOrNot(p)
    <3>1. PICK pc \in {"exists", "store"}: procs' = [procs EXCEPT ![p].pc = pc]
      BY <2>2 DEF CheckCache, ExistsFailsOrNot
    <3>. DEFINE r == [procs[p] EXCEPT !.pc = pc]
    <3>2. procs[p].copy = 0
      BY <2>2, <1>1 DEF CheckCache, ExistsFailsOrNot, Holding
    <3>3. /\ r \in ProcStates /\ procs' = [procs EXCEPT ![p] = r]
          /\ r.copy = 0 /\ r.pc = pc /\ r.event = procs[p].event
      BY <3>1, <3>2 DEF ProcStates
    <3>. QED BY <3>3, <1>3
  <2>3. CASE AddToCache(p) \/ OtherKindHandled(p)
    <3>1. PICK pc \in {"dispatch", "finish"}: procs' = [procs EXCEPT ![p].pc = pc]
      BY <2>3 DEF AddToCache, OtherKindHandled
    <3>. DEFINE r == [procs[p] EXCEPT !.pc = pc]
    <3>2. Holding(p) /\ procs[p].pc # "finish"
      BY <2>3 DEF AddToCache, OtherKindHandled, Holding
    <3>3. /\ r \in ProcStates /\ procs' = [procs EXCEPT ![p] = r]
          /\ r.copy = procs[p].copy /\ r.pc = pc /\ r.event = procs[p].event
      BY <3>1 DEF ProcStates
    <3>. QED BY <3>2, <3>3
  <2>. QED BY <2>1, <2>2, <2>3
<1>8. TypeOK'
  BY <1>4, <1>5, <1>6, <1>7 DEF IInv, TypeOK
<1>. QED BY <1>4, <1>7, <1>8, ProcMoves

\* A processor that stores an event gets the copy with the next number.
LEMMA StoreEventInv ==
  ASSUME IInv, NEW p \in Processors, StoreEvent(p)
  PROVE  IInv'
<1>. USE ProcType
<1>. DEFINE e == procs[p].event
            r == [pc |-> "cache", event |-> e, copy |-> copies[e] + 1]
<1>1. e \in Events /\ copies \in [Events -> Nat] /\ ~Holding(p)
  BY DEF IInv, TypeOK, EventsInTransit, StoreEvent, At, Busy, Holding
<1>2. /\ procs' = [procs EXCEPT ![p] = r]
      /\ store' = store \union {e} /\ copies' = [copies EXCEPT ![e] = @ + 1]
      /\ UNCHANGED <<eventChan, eventsClosed, stopPc, loop, subs, eventCache, bypassed,
                     counted, finished, handled, cutOff, restarts>>
  BY DEF StoreEvent, Stored, pipeVars, historyVars
<1>3. r \in ProcStates /\ r.pc = "cache" /\ r.event = e /\ r.copy = copies[e] + 1
  BY <1>1 DEF ProcStates
<1>4. /\ procs'[p] = r /\ \A q \in Processors \ {p}: procs'[q] = procs[q]
      /\ copies' \in [Events -> Nat] /\ copies'[e] = copies[e] + 1
      /\ \A f \in Events \ {e}: copies'[f] = copies[f]
  <2>1. procs'[p] = r /\ \A q \in Processors \ {p}: procs'[q] = procs[q]
    BY <1>2
  <2>2. /\ copies' \in [Events -> Nat] /\ copies'[e] = copies[e] + 1
        /\ \A f \in Events \ {e}: copies'[f] = copies[f]
    BY <1>1, <1>2
  <2>. QED BY <2>1, <2>2
<1>5. TypeOK'
  BY <1>1, <1>2, <1>3, <1>4 DEF IInv, TypeOK
<1>6. EventsInTransit'
  BY <1>1, <1>2, <1>3, <1>4 DEF IInv, EventsInTransit, Busy, Holding
<1>7. CopiesInHand'
  <2>1. ASSUME NEW q \in Processors \ {p}, Holding(q)
        PROVE  procs[q].event \in Events /\ procs[q].copy \in 1 .. copies'[procs[q].event]
    <3>1. procs[q].event \in Events /\ procs[q].copy \in 1 .. copies[procs[q].event]
      BY <2>1 DEF IInv, EventsInTransit, CopiesInHand, Busy
    <3>. QED BY <3>1, <1>1, <1>4
  <2>2. procs'[p].copy \in 1 .. copies'[procs'[p].event]
    BY <1>1, <1>3, <1>4
  <2>3. ASSUME NEW q \in Processors \ {p}
        PROVE  IF Holding(q) THEN procs[q].copy \in 1 .. copies'[procs[q].event]
               ELSE procs[q].copy = 0
    BY <2>1 DEF IInv, CopiesInHand
  <2>. HIDE DEF r
  <2>. QED BY <1>3, <1>4, <2>2, <2>3 DEF CopiesInHand, Holding
<1>8. CopiesDistinct'
  <2>1. ASSUME NEW q \in Processors \ {p}, Holding(q)
        PROVE  CopyOf(q) # <<e, copies[e] + 1>>
    <3>1. procs[q].copy \in 1 .. copies[procs[q].event]
      BY <2>1 DEF IInv, CopiesInHand
    <3>. QED BY <3>1, <1>1 DEF CopyOf
  <2>2. CopyOf(p)' = <<e, copies[e] + 1>>
    BY <1>3, <1>4 DEF CopyOf
  <2>3. \A q \in Processors \ {p}: CopyOf(q)' = CopyOf(q) /\ (Holding(q)' <=> Holding(q))
    BY <1>4 DEF CopyOf, Holding
  <2>. QED BY <2>1, <2>2, <2>3 DEF IInv, CopiesDistinct
<1>9. NotYetCounted'
  <2>1. <<e, copies[e] + 1>> \notin counted
    BY <1>1 DEF IInv, CountedWereStored
  <2>. QED BY <1>2, <1>3, <1>4, <2>1 DEF IInv, NotYetCounted, CopyOf
<1>10. CountedWereStored'
  BY <1>1, <1>2, <1>4 DEF IInv, CountedWereStored
<1>. QED BY <1>5, <1>6, <1>7, <1>8, <1>9, <1>10 DEF IInv

\* A processor that counts its copy will not do so again, and no other one holds it.
LEMMA QueueInteractionInv ==
  ASSUME IInv, NEW p \in Processors, QueueInteraction(p)
  PROVE  IInv'
<1>. USE ProcType
<1>. DEFINE r == [procs[p] EXCEPT !.pc = "finish"]
<1>1. /\ Holding(p) /\ procs[p].event \in Events
      /\ procs[p].copy \in 1 .. copies[procs[p].event] /\ copies \in [Events -> Nat]
  BY DEF IInv, TypeOK, EventsInTransit, CopiesInHand, QueueInteraction, At, Busy, Holding
<1>2. /\ procs' = [procs EXCEPT ![p] = r]
      /\ counted' = counted \union {CopyOf(p)}
      /\ UNCHANGED <<eventChan, eventsClosed, stopPc, loop, subs, eventCache, store, copies,
                     bypassed, finished, handled, cutOff, restarts>>
  BY DEF QueueInteraction, Goto, pipeVars, storeVars
<1>3. /\ r \in ProcStates /\ r.pc = "finish"
      /\ r.event = procs[p].event /\ r.copy = procs[p].copy
  BY DEF ProcStates
<1>4. procs'[p] = r /\ \A q \in Processors \ {p}: procs'[q] = procs[q]
  BY <1>2
<1>5. TypeOK'
  <2>1. CopyOf(p) \in Events \X Nat
    BY <1>1 DEF CopyOf
  <2>2. procs' \in [Processors -> ProcStates]
    BY <1>2, <1>3 DEF IInv, TypeOK
  <2>3. counted' \in SUBSET (Events \X Nat)
    BY <1>2, <2>1 DEF IInv, TypeOK
  <2>. HIDE DEF r
  <2>. QED BY <1>2, <2>2, <2>3 DEF IInv, TypeOK
<1>6. EventsInTransit' /\ CopiesInHand' /\ CopiesDistinct'
  BY <1>1, <1>2, <1>3, <1>4
     DEF IInv, EventsInTransit, CopiesInHand, CopiesDistinct, CopyOf, Busy, Holding
<1>7. NotYetCounted'
  <2>1. ASSUME NEW q \in Processors \ {p}, procs[q].pc \in {"cache", "dispatch"}
        PROVE  CopyOf(q) \notin counted /\ CopyOf(q) # CopyOf(p)
    BY <1>1, <2>1 DEF IInv, NotYetCounted, CopiesDistinct, Holding
  <2>. QED BY <1>2, <1>3, <1>4, <2>1 DEF NotYetCounted, CopyOf
<1>8. CountedWereStored'
  BY <1>1, <1>2 DEF IInv, CountedWereStored, CopyOf
<1>. QED BY <1>5, <1>6, <1>7, <1>8 DEF IInv

-------------------------------------------------------------------------------
(* Stop, the batcher, pruning and crashes. *)

LEMMA OtherStepsInv ==
  ASSUME IInv,
         SyncLoopExits \/ BatcherStep \/ Stop \/ \E e \in Events: Prune(e)
  PROVE  IInv'
<1>1. UNCHANGED <<eventChan, subs, procs, eventCache, copies, bypassed, counted, finished,
                  handled, cutOff, restarts>>
  BY DEF SyncLoopExits, BatcherStep, Stop, StopCancels, StopClosesEvents,
         StopClosesAggregates, StopReturns, Prune, pipeVars, storeVars, historyVars
<1>2. /\ eventsClosed' \in BOOLEAN
      /\ stopPc' \in {"running", "cancelled", "eventsClosed", "waiting", "stopped"}
      /\ loop' \in {"running", "exited"}
      /\ store' \in SUBSET Events
  BY DEF IInv, TypeOK, SyncLoopExits, BatcherStep, Stop, StopCancels, StopClosesEvents,
         StopClosesAggregates, StopReturns, Prune, pipeVars, storeVars
<1>3. TypeOK'
  BY <1>1, <1>2 DEF IInv, TypeOK
<1>. QED BY <1>1, <1>3, QuietSteps DEF IInv, EventsInTransit

LEMMA CrashInv ==
  ASSUME IInv, CrashAndRestart
  PROVE  IInv'
<1>. USE SyncAssumption
<1>1. /\ eventChan' = << >> /\ eventsClosed' = FALSE /\ stopPc' = "running" /\ loop' = "running"
      /\ subs' = [s \in Subscriptions |-> IdleSub]
      /\ procs' = [p \in Processors |-> Free]
      /\ eventCache' = Cache!NewEventCache
      /\ restarts' = restarts + 1
      /\ UNCHANGED <<store, copies, bypassed, counted, handled>>
  BY DEF CrashAndRestart, storeVars
<1>2. IdleSub \in SubStates /\ Free \in ProcStates
  BY DEF IdleSub, SubStates, Free, ProcStates
<1>3. finished' \in SUBSET (Events \X Nat) /\ cutOff' \in SUBSET (Events \X Nat)
  <2>1. ASSUME NEW p \in Processors, procs[p].copy # 0
        PROVE  procs[p].event \in Events /\ procs[p].copy \in Nat
    BY <2>1, ProcType DEF IInv, CopiesInHand, EventsInTransit, Busy, ProcStates
  <2>2. finished \in SUBSET (Events \X Nat) /\ cutOff \in SUBSET (Events \X Nat)
    BY DEF IInv, TypeOK
  <2>3. Held \in SUBSET (Events \X Nat)
    BY <2>1 DEF Held, CopyOf
  <2>4. finished' = finished \union Held /\ cutOff' = cutOff \union Held
    BY DEF CrashAndRestart
  <2>. QED BY <2>2, <2>3, <2>4
<1>4. eventChan' \in Seq(Events) /\ Len(eventChan') <= ChanCap
  BY <1>1
<1>5. TypeOK'
  <2>1. subs' \in [Subscriptions -> SubStates] /\ procs' \in [Processors -> ProcStates]
    BY <1>1, <1>2
  <2>2. restarts' \in Nat
    BY <1>1 DEF IInv, TypeOK
  <2>. QED BY <1>1, <1>3, <1>4, <2>1, <2>2, NewCacheType DEF IInv, TypeOK
<1>6. /\ \A p \in Processors: procs'[p] = Free
      /\ \A s \in Subscriptions: subs'[s] = IdleSub
  BY <1>1
<1>7. EventsInTransit' /\ CopiesInHand' /\ CopiesDistinct' /\ NotYetCounted'
  BY <1>6 DEF EventsInTransit, CopiesInHand, CopiesDistinct, NotYetCounted, Busy, Holding,
              Free, IdleSub
<1>8. CountedWereStored'
  BY <1>1 DEF IInv, CountedWereStored
<1>. QED BY <1>5, <1>7, <1>8 DEF IInv

-------------------------------------------------------------------------------
LEMMA Inductive == IInv /\ [Next]_vars => IInv'
<1>. SUFFICES ASSUME IInv, [Next]_vars PROVE IInv'
  OBVIOUS
<1>1. CASE Step
  BY <1>1, RelayInv, TakingInv, PlainStepInv, StoreEventInv, QueueInteractionInv, OtherStepsInv
     DEF Step, ProcessEvent
<1>2. CASE CrashAndRestart
  BY <1>2, CrashInv
<1>3. CASE UNCHANGED vars
  <2>1. UNCHANGED <<eventChan, eventsClosed, stopPc, loop, subs, procs, eventCache, store, copies,
                    bypassed, counted, finished, handled, cutOff, restarts>>
    BY <1>3 DEF vars, pipeVars, storeVars, historyVars
  <2>2. TypeOK'
    BY <2>1 DEF IInv, TypeOK
  <2>. QED BY <2>1, <2>2, QuietSteps DEF IInv, EventsInTransit
<1>. QED BY <1>1, <1>2, <1>3 DEF Next

LEMMA Invariance == Spec => []IInv
BY InitInv, Inductive, PTL DEF Spec

\* The engine's variables keep their types: what is in flight is always an event,
\* the event channel never holds more than its capacity, the cache stays a cache.
THEOREM TypeCorrect == Spec => []TypeOK
<1>1. IInv => TypeOK
  BY DEF IInv
<1>. QED BY <1>1, Invariance, PTL

-------------------------------------------------------------------------------
(* Every step of the pipeline is a step of Ingestion or changes nothing there. *)

LEMMA StepRefines ==
  ASSUME IInv, [Next]_vars
  PROVE  [Abstract!Next]_(Abstract!vars)
<1>. USE DEF Abstract!Next, Abstract!vars
<1>1. ASSUME NEW p \in Processors, StoreEvent(p) PROVE Abstract!Next
  <2>1. procs[p].event \in Events
    BY <1>1 DEF IInv, EventsInTransit, StoreEvent, At, Busy
  <2>2. Abstract!Store(procs[p].event)
    BY <1>1 DEF StoreEvent, Stored, historyVars, Abstract!Store
  <2>. QED BY <2>1, <2>2
<1>2. ASSUME NEW s \in Subscriptions, NEW e \in Events, NegentropySave(s, e) PROVE Abstract!Next
  BY <1>2 DEF NegentropySave, Stored, Abstract!Store
<1>3. ASSUME NEW p \in Processors, QueueInteraction(p) PROVE Abstract!Next
  <2>1. /\ procs[p].event \in Events
        /\ procs[p].copy \in 1 .. copies[procs[p].event]
        /\ CopyOf(p) \notin counted
    BY <1>3 DEF IInv, EventsInTransit, CopiesInHand, NotYetCounted, QueueInteraction, At,
                Busy, Holding
  <2>2. Abstract!Count(procs[p].event, procs[p].copy)
    BY <1>3, <2>1 DEF QueueInteraction, CopyOf, storeVars, Abstract!Count
  <2>. QED BY <2>1, <2>2
<1>4. ASSUME NEW e \in Events, Prune(e) PROVE Abstract!Next
  BY <1>4 DEF Prune, historyVars, Abstract!Prune
<1>5. ASSUME NEW s \in Subscriptions, Relay(s),
             \A e \in Events: ~NegentropySave(s, e)
      PROVE  UNCHANGED <<store, copies, counted>>
  BY <1>5 DEF Relay, LaunchRelay, NegentropyEnds, SubscriptionEnds, SendEvent, GiveUpSending,
              RelayDelivers, storeVars, historyVars
<1>6. ASSUME NEW p \in Processors, ProcessEvent(p), ~StoreEvent(p), ~QueueInteraction(p)
      PROVE  UNCHANGED <<store, copies, counted>>
  BY <1>6 DEF ProcessEvent, CheckCache, SkipDuplicate, ExistsFailsOrNot, StoreFails, AddToCache,
              OtherKindHandled, DirectoryFails, FinishEvent, storeVars, historyVars
<1>7. ASSUME \/ \E w \in Workers: TakeEvent(w) \/ WorkerExits(w)
             \/ Refresh \/ SyncLoopExits \/ BatcherStep \/ Stop \/ CrashAndRestart
             \/ UNCHANGED vars
      PROVE  UNCHANGED <<store, copies, counted>>
  BY <1>7 DEF TakeEvent, WorkerExits, Refresh, RefresherExits, RefreshFetches, SyncLoopExits,
              BatcherStep, Stop, StopCancels, StopClosesEvents, StopClosesAggregates,
              StopReturns, CrashAndRestart, vars, storeVars, historyVars
<1>. QED BY <1>1, <1>2, <1>3, <1>4, <1>5, <1>6, <1>7 DEF Next, Step

\* The pipeline implements Ingestion, for any number of workers, relays and
\* crashes: a second copy of an event is stored only after the first was pruned,
\* and each stored copy reaches the aggregates at most once (processEvent).
THEOREM ExactlyOncePerCopy == Spec => ImplementsIngestion
<1>1. Init => Abstract!Init
  BY DEF Init, Abstract!Init
<1>2. IInv /\ [Next]_vars => [Abstract!Next]_(Abstract!vars)
  BY StepRefines
<1>. QED BY <1>1, <1>2, Invariance, PTL DEF Spec, ImplementsIngestion, Abstract!Spec

-------------------------------------------------------------------------------
(* Where every stored copy is: finished, or in the hands of one processor     *)
(* that has it still to finish.                                               *)

FinishedWereStored ==
  \A e \in Events, n \in Nat: <<e, n>> \in finished => n \in 1 .. copies[e]

HeldAreUnfinished == \A p \in Processors: Holding(p) => CopyOf(p) \notin finished

NoneForgotten ==
  \A e \in Events: \A n \in 1 .. copies[e]:
    <<e, n>> \in finished \/ \E p \in Processors: Holding(p) /\ CopyOf(p) = <<e, n>>

\* Before its last step a processor has counted its interaction, and without a
\* restart nothing else finishes one, but negentropy.
CountedBeforeFinish ==
  \A p \in Processors:
    procs[p].pc = "finish" /\ KindOf[procs[p].event] = "interaction" => CopyOf(p) \in counted

FinishedWereCounted ==
  restarts = 0 => \A c \in finished: KindOf[c[1]] = "interaction" => c \in counted \union bypassed

Custody ==
  /\ FinishedWereStored
  /\ HeldAreUnfinished
  /\ NoneForgotten
  /\ CountedBeforeFinish
  /\ FinishedWereCounted

LEMMA CustodyInit == Init => Custody
BY DEF Init, StartEngine, Free, Custody, FinishedWereStored, HeldAreUnfinished, NoneForgotten,
       CountedBeforeFinish, FinishedWereCounted, Holding

\* Steps that store nothing and finish nothing: every holder keeps its copy.
LEMMA HoldersKeep ==
  ASSUME IInv, Custody, UNCHANGED <<copies, finished, restarts>>,
         counted \subseteq counted', bypassed \subseteq bypassed',
         \A p \in Processors:
           /\ Holding(p)' <=> Holding(p)
           /\ Holding(p) => procs'[p].event = procs[p].event /\ procs'[p].copy = procs[p].copy
           /\ procs'[p].pc = "finish" =>
                \/ procs[p].pc = "finish"
                \/ KindOf[procs[p].event] # "interaction"
                \/ CopyOf(p) \in counted'
  PROVE  Custody'
<1>1. FinishedWereStored'
  BY DEF Custody, FinishedWereStored
<1>2. \A p \in Processors: Holding(p) => CopyOf(p)' = CopyOf(p)
  BY DEF CopyOf
<1>3. HeldAreUnfinished'
  BY <1>2 DEF Custody, HeldAreUnfinished
<1>4. NoneForgotten'
  BY <1>2 DEF Custody, NoneForgotten
<1>5. CountedBeforeFinish'
  <2>. SUFFICES ASSUME NEW p \in Processors, procs'[p].pc = "finish",
                       KindOf[procs'[p].event] = "interaction"
                PROVE  CopyOf(p)' \in counted'
    BY DEF CountedBeforeFinish
  <2>1. Holding(p) /\ procs'[p].event = procs[p].event
    BY DEF Holding
  <2>2. CopyOf(p)' = CopyOf(p)
    BY <1>2, <2>1
  <2>. QED BY <2>1, <2>2 DEF Custody, CountedBeforeFinish
<1>6. FinishedWereCounted'
  BY DEF Custody, FinishedWereCounted
<1>. QED BY <1>1, <1>3, <1>4, <1>5, <1>6 DEF Custody

\* A processor that holds nothing goes on without a copy, or one that holds a
\* copy goes on with it.
LEMMA ProcKeeps ==
  ASSUME IInv, Custody, NEW p \in Processors, NEW r \in ProcStates,
         procs' = [procs EXCEPT ![p] = r],
         UNCHANGED <<copies, finished, restarts>>,
         counted \subseteq counted', bypassed \subseteq bypassed',
         \/ ~Holding(p) /\ r.pc \notin {"cache", "dispatch", "finish"}
         \/ /\ Holding(p) /\ r.pc \in {"cache", "dispatch", "finish"}
            /\ r.event = procs[p].event /\ r.copy = procs[p].copy
            /\ r.pc = "finish" => \/ KindOf[procs[p].event] # "interaction"
                                  \/ CopyOf(p) \in counted'
  PROVE  Custody'
<1>1. procs'[p] = r /\ \A q \in Processors \ {p}: procs'[q] = procs[q]
  BY ProcType
<1>2. ASSUME NEW q \in Processors
      PROVE  /\ Holding(q)' <=> Holding(q)
             /\ Holding(q) => procs'[q].event = procs[q].event /\ procs'[q].copy = procs[q].copy
             /\ procs'[q].pc = "finish" =>
                  \/ procs[q].pc = "finish"
                  \/ KindOf[procs[q].event] # "interaction"
                  \/ CopyOf(q) \in counted'
  <2>1. CASE q = p
    BY <1>1, <2>1 DEF Holding
  <2>2. CASE q # p
    BY <1>1, <2>2 DEF Holding
  <2>. QED BY <2>1, <2>2
<1>. QED BY <1>2, HoldersKeep

LEMMA ProcsStay ==
  ASSUME IInv, Custody, UNCHANGED <<procs, copies, finished, restarts, counted, bypassed>>
  PROVE  Custody'
BY HoldersKeep DEF Holding

LEMMA RelayCustody ==
  ASSUME IInv, Custody, NEW s \in Subscriptions, Relay(s)
  PROVE  Custody'
<1>1. ASSUME NEW e \in Events, NegentropySave(s, e) PROVE Custody'
  <2>. DEFINE c == <<e, copies[e] + 1>>
  <2>1. /\ UNCHANGED <<procs, counted, restarts>>
        /\ copies' = [copies EXCEPT ![e] = @ + 1]
        /\ bypassed' = bypassed \union {c}
        /\ finished' = finished \union {c}
    BY <1>1 DEF NegentropySave, Stored
  <2>2. /\ copies \in [Events -> Nat] /\ copies'[e] = copies[e] + 1
        /\ \A f \in Events \ {e}: copies'[f] = copies[f]
    BY <2>1 DEF IInv, TypeOK
  <2>3. FinishedWereStored'
    BY <2>1, <2>2 DEF Custody, FinishedWereStored
  <2>4. HeldAreUnfinished'
    <3>1. ASSUME NEW p \in Processors, Holding(p) PROVE CopyOf(p) # c
      <4>1. procs[p].copy \in 1 .. copies[procs[p].event]
        BY <3>1 DEF IInv, CopiesInHand
      <4>. QED BY <2>2, <4>1 DEF CopyOf
    <3>. QED BY <2>1, <3>1 DEF Custody, HeldAreUnfinished, Holding, CopyOf
  <2>5. NoneForgotten'
    <3>1. ASSUME NEW f \in Events, NEW n \in 1 .. copies'[f]
          PROVE  n \in 1 .. copies[f] \/ <<f, n>> = c
      BY <2>2
    <3>2. ASSUME NEW f \in Events, NEW n \in 1 .. copies'[f]
          PROVE  <<f, n>> \in finished' \/ \E p \in Processors: Holding(p) /\ CopyOf(p) = <<f, n>>
      BY <2>1, <3>1 DEF Custody, NoneForgotten
    <3>3. \A p \in Processors: (Holding(p)' <=> Holding(p)) /\ CopyOf(p)' = CopyOf(p)
      BY <2>1 DEF Holding, CopyOf
    <3>. QED BY <3>2, <3>3 DEF NoneForgotten
  <2>6. CountedBeforeFinish'
    BY <2>1 DEF Custody, CountedBeforeFinish, CopyOf
  <2>7. FinishedWereCounted'
    BY <2>1 DEF Custody, FinishedWereCounted
  <2>. QED BY <2>3, <2>4, <2>5, <2>6, <2>7 DEF Custody
<1>2. ASSUME \A e \in Events: ~NegentropySave(s, e) PROVE Custody'
  <2>1. UNCHANGED <<procs, copies, finished, restarts, counted, bypassed>>
    BY <1>2 DEF Relay, LaunchRelay, NegentropyEnds, SubscriptionEnds, SendEvent, GiveUpSending,
                RelayDelivers, storeVars, historyVars
  <2>. QED BY <2>1, ProcsStay
<1>. QED BY <1>1, <1>2

LEMMA TakingCustody ==
  ASSUME IInv, Custody,
         \/ \E w \in Workers: TakeEvent(w) \/ WorkerExits(w)
         \/ Refresh
  PROVE  Custody'
<1>1. Refresher \in Processors /\ Workers \subseteq Processors
  BY DEF Processors
<1>2. UNCHANGED <<copies, finished, restarts, counted, bypassed>>
  BY DEF TakeEvent, WorkerExits, Refresh, RefresherExits, RefreshFetches, storeVars, historyVars
<1>3. PICK p \in Processors:
        /\ procs[p].pc = "idle"
        /\ \/ \E e \in Events: procs' = [procs EXCEPT ![p] = [pc |-> "check", event |-> e, copy |-> 0]]
           \/ procs' = [procs EXCEPT ![p].pc = "exited"]
  <2>1. eventChan # << >> => Head(eventChan) \in Events
    BY DEF IInv, TypeOK
  <2>. QED BY <1>1, <2>1 DEF TakeEvent, WorkerExits, Refresh, RefresherExits, RefreshFetches
<1>4. ~Holding(p)
  BY <1>3 DEF Holding
<1>5. ASSUME NEW e \in Events, procs' = [procs EXCEPT ![p] = [pc |-> "check", event |-> e, copy |-> 0]]
      PROVE  Custody'
  <2>. DEFINE r == [pc |-> "check", event |-> e, copy |-> 0]
  <2>1. r \in ProcStates /\ r.pc = "check"
    BY DEF ProcStates
  <2>. QED BY <1>2, <1>4, <1>5, <2>1, ProcKeeps
<1>6. CASE procs' = [procs EXCEPT ![p].pc = "exited"]
  <2>. DEFINE r == [procs[p] EXCEPT !.pc = "exited"]
  <2>1. r \in ProcStates /\ r.pc = "exited" /\ procs' = [procs EXCEPT ![p] = r]
    BY <1>6, ProcType DEF ProcStates
  <2>. QED BY <1>2, <1>4, <2>1, ProcKeeps
<1>. QED BY <1>3, <1>5, <1>6

\* A processor that finishes its copy, or the last step of a failing handler.
LEMMA FinishCustody ==
  ASSUME IInv, Custody, NEW p \in Processors, DirectoryFails(p) \/ FinishEvent(p)
  PROVE  Custody'
<1>. USE ProcType
<1>1. /\ Holding(p) /\ procs[p].event \in Events
      /\ procs[p].copy \in 1 .. copies[procs[p].event] /\ copies \in [Events -> Nat]
  BY DEF IInv, TypeOK, EventsInTransit, CopiesInHand, DirectoryFails, FinishEvent, At, Busy, Holding
<1>2. /\ procs' = [procs EXCEPT ![p] = Free]
      /\ finished' = finished \union {CopyOf(p)}
      /\ UNCHANGED <<copies, counted, bypassed, restarts>>
  BY DEF DirectoryFails, FinishEvent, Done, storeVars
<1>3. procs'[p] = Free /\ \A q \in Processors \ {p}: procs'[q] = procs[q]
  BY <1>2
<1>4. /\ ~Holding(p)'
      /\ \A q \in Processors \ {p}: (Holding(q)' <=> Holding(q)) /\ CopyOf(q)' = CopyOf(q)
  BY <1>3 DEF Holding, CopyOf, Free
<1>5. FinishedWereStored'
  BY <1>1, <1>2 DEF Custody, FinishedWereStored, CopyOf
<1>6. HeldAreUnfinished'
  <2>1. \A q \in Processors \ {p}: Holding(q) => CopyOf(q) # CopyOf(p)
    BY <1>1 DEF IInv, CopiesDistinct
  <2>. QED BY <1>2, <1>4, <2>1 DEF Custody, HeldAreUnfinished
<1>7. NoneForgotten'
  <2>. SUFFICES ASSUME NEW e \in Events, NEW n \in 1 .. copies[e], <<e, n>> \notin finished'
                PROVE  \E q \in Processors: Holding(q)' /\ CopyOf(q)' = <<e, n>>
    BY <1>2 DEF NoneForgotten
  <2>1. PICK q \in Processors: Holding(q) /\ CopyOf(q) = <<e, n>>
    BY <1>2 DEF Custody, NoneForgotten
  <2>2. q # p
    BY <1>2, <2>1
  <2>. QED BY <1>4, <2>1, <2>2
<1>8. CountedBeforeFinish'
  BY <1>2, <1>3 DEF Custody, CountedBeforeFinish, CopyOf, Free
<1>9. FinishedWereCounted'
  <2>1. KindOf[procs[p].event] = "interaction" => CopyOf(p) \in counted
    BY DEF Custody, CountedBeforeFinish, DirectoryFails, FinishEvent, At
  <2>2. CopyOf(p)[1] = procs[p].event
    BY DEF CopyOf
  <2>. QED BY <1>2, <2>1, <2>2 DEF Custody, FinishedWereCounted
<1>. QED BY <1>5, <1>6, <1>7, <1>8, <1>9 DEF Custody

LEMMA PlainCustody ==
  ASSUME IInv, Custody, NEW p \in Processors,
         \/ CheckCache(p) \/ SkipDuplicate(p) \/ ExistsFailsOrNot(p) \/ StoreFails(p)
         \/ AddToCache(p) \/ OtherKindHandled(p) \/ QueueInteraction(p)
  PROVE  Custody'
<1>. USE ProcType
<1>1. /\ UNCHANGED <<copies, finished, restarts>>
      /\ counted \subseteq counted' /\ bypassed \subseteq bypassed'
  BY DEF CheckCache, SkipDuplicate, ExistsFailsOrNot, StoreFails, AddToCache,
         OtherKindHandled, QueueInteraction, storeVars, historyVars
<1>2. CASE SkipDuplicate(p) \/ StoreFails(p)
  <2>1. ~Holding(p) /\ procs' = [procs EXCEPT ![p] = Free]
    BY <1>2 DEF SkipDuplicate, StoreFails, At, Done, Holding
  <2>2. Free \in ProcStates /\ Free.pc = "idle"
    BY DEF Free, ProcStates
  <2>. QED BY <1>1, <2>1, <2>2, ProcKeeps
<1>3. CASE CheckCache(p) \/ ExistsFailsOrNot(p)
  <2>1. PICK pc \in {"exists", "store"}: procs' = [procs EXCEPT ![p].pc = pc]
    BY <1>3 DEF CheckCache, ExistsFailsOrNot, Goto
  <2>. DEFINE r == [procs[p] EXCEPT !.pc = pc]
  <2>2. ~Holding(p)
    BY <1>3 DEF CheckCache, ExistsFailsOrNot, At, Holding
  <2>3. r \in ProcStates /\ r.pc = pc /\ procs' = [procs EXCEPT ![p] = r]
    BY <2>1 DEF ProcStates
  <2>. QED BY <1>1, <2>2, <2>3, ProcKeeps
<1>4. CASE AddToCache(p) \/ OtherKindHandled(p) \/ QueueInteraction(p)
  <2>1. PICK pc \in {"dispatch", "finish"}:
          /\ procs' = [procs EXCEPT ![p].pc = pc]
          /\ pc = "finish" => \/ KindOf[procs[p].event] # "interaction"
                              \/ CopyOf(p) \in counted'
    BY <1>4 DEF AddToCache, OtherKindHandled, QueueInteraction, Goto
  <2>. DEFINE r == [procs[p] EXCEPT !.pc = pc]
  <2>2. Holding(p)
    BY <1>4 DEF AddToCache, OtherKindHandled, QueueInteraction, At, Holding
  <2>3. /\ r \in ProcStates /\ r.pc = pc /\ procs' = [procs EXCEPT ![p] = r]
        /\ r.event = procs[p].event /\ r.copy = procs[p].copy
    BY <2>1 DEF ProcStates
  <2>4. r.pc \in {"cache", "dispatch", "finish"}
    BY <2>3
  <2>. HIDE DEF r
  <2>. QED BY <1>1, <2>1, <2>2, <2>3, <2>4, ProcKeeps
<1>. QED BY <1>2, <1>3, <1>4

LEMMA StoreCustody ==
  ASSUME IInv, Custody, NEW p \in Processors, StoreEvent(p)
  PROVE  Custody'
<1>. USE ProcType
<1>. DEFINE e == procs[p].event
            c == <<e, copies[e] + 1>>
            r == [pc |-> "cache", event |-> e, copy |-> copies[e] + 1]
<1>1. e \in Events /\ copies \in [Events -> Nat] /\ ~Holding(p)
  BY DEF IInv, TypeOK, EventsInTransit, StoreEvent, At, Busy, Holding
<1>2. /\ procs' = [procs EXCEPT ![p] = r] /\ copies' = [copies EXCEPT ![e] = @ + 1]
      /\ UNCHANGED <<bypassed, counted, finished, restarts>>
  BY DEF StoreEvent, Stored, historyVars
<1>3. /\ procs'[p] = r /\ \A q \in Processors \ {p}: procs'[q] = procs[q]
      /\ copies'[e] = copies[e] + 1 /\ \A f \in Events \ {e}: copies'[f] = copies[f]
  BY <1>1, <1>2
<1>4. /\ Holding(p)' /\ CopyOf(p)' = c
      /\ \A q \in Processors \ {p}: (Holding(q)' <=> Holding(q)) /\ CopyOf(q)' = CopyOf(q)
  BY <1>3 DEF Holding, CopyOf
<1>5. c \notin finished
  BY <1>1 DEF Custody, FinishedWereStored
<1>6. FinishedWereStored'
  BY <1>1, <1>2, <1>3 DEF Custody, FinishedWereStored
<1>7. HeldAreUnfinished'
  BY <1>2, <1>4, <1>5 DEF Custody, HeldAreUnfinished
<1>8. NoneForgotten'
  <2>. SUFFICES ASSUME NEW f \in Events, NEW n \in 1 .. copies'[f], <<f, n>> \notin finished
                PROVE  \E q \in Processors: Holding(q)' /\ CopyOf(q)' = <<f, n>>
    BY <1>2 DEF NoneForgotten
  <2>1. CASE <<f, n>> = c
    BY <1>4, <2>1
  <2>2. CASE <<f, n>> # c
    <3>1. n \in 1 .. copies[f]
      BY <1>1, <1>3, <2>2
    <3>2. PICK q \in Processors: Holding(q) /\ CopyOf(q) = <<f, n>>
      BY <3>1 DEF Custody, NoneForgotten
    <3>3. q # p
      BY <1>1, <3>2
    <3>. QED BY <1>4, <3>2, <3>3
  <2>. QED BY <2>1, <2>2
<1>9. CountedBeforeFinish'
  BY <1>2, <1>3 DEF Custody, CountedBeforeFinish, CopyOf
<1>10. FinishedWereCounted'
  BY <1>2 DEF Custody, FinishedWereCounted
<1>. QED BY <1>6, <1>7, <1>8, <1>9, <1>10 DEF Custody

\* A crash finishes whatever was in hand.
LEMMA CrashCustody ==
  ASSUME IInv, Custody, CrashAndRestart
  PROVE  Custody'
<1>. USE ProcType
<1>1. /\ procs' = [p \in Processors |-> Free] /\ restarts' = restarts + 1
      /\ finished' = finished \union {CopyOf(p) : p \in {q \in Processors: procs[q].copy # 0}}
      /\ UNCHANGED <<copies, counted, bypassed>>
  BY DEF CrashAndRestart, Held, storeVars
<1>2. \A p \in Processors: ~Holding(p)' /\ procs'[p].pc = "idle"
  BY <1>1 DEF Holding, Free
<1>3. ASSUME NEW p \in Processors
      PROVE  /\ procs[p].copy # 0 <=> Holding(p)
             /\ Holding(p) => procs[p].copy \in 1 .. copies[procs[p].event]
  BY DEF IInv, CopiesInHand, EventsInTransit, TypeOK, Busy
<1>4. FinishedWereStored'
  BY <1>1, <1>3 DEF Custody, FinishedWereStored, CopyOf
<1>5. HeldAreUnfinished' /\ CountedBeforeFinish'
  BY <1>2 DEF HeldAreUnfinished, CountedBeforeFinish
<1>6. NoneForgotten'
  <2>. SUFFICES ASSUME NEW e \in Events, NEW n \in 1 .. copies[e]
                PROVE  <<e, n>> \in finished'
    BY <1>1 DEF NoneForgotten
  <2>1. CASE <<e, n>> \in finished
    BY <1>1, <2>1
  <2>2. ASSUME NEW p \in Processors, Holding(p), CopyOf(p) = <<e, n>>
        PROVE  <<e, n>> \in finished'
    BY <1>1, <1>3, <2>2
  <2>. QED BY <2>1, <2>2 DEF Custody, NoneForgotten
<1>7. FinishedWereCounted'
  <2>1. restarts' # 0
    BY <1>1 DEF IInv, TypeOK
  <2>. QED BY <2>1 DEF FinishedWereCounted
<1>. QED BY <1>4, <1>5, <1>6, <1>7 DEF Custody

LEMMA CustodyStep ==
  ASSUME IInv, Custody, [Next]_vars
  PROVE  Custody'
<1>1. CASE SyncLoopExits \/ BatcherStep \/ Stop \/ (\E e \in Events: Prune(e)) \/ UNCHANGED vars
  <2>1. UNCHANGED <<procs, copies, finished, restarts, counted, bypassed>>
    BY <1>1 DEF SyncLoopExits, BatcherStep, Stop, StopCancels, StopClosesEvents,
                StopClosesAggregates, StopReturns, Prune, vars, storeVars, historyVars
  <2>. QED BY <2>1, ProcsStay
<1>2. ASSUME NEW p \in Processors, ProcessEvent(p) PROVE Custody'
  BY <1>2, FinishCustody, PlainCustody, StoreCustody DEF ProcessEvent
<1>. QED BY <1>1, <1>2, RelayCustody, TakingCustody, CrashCustody DEF Next, Step

\* Every stored copy that is not finished is in the hands of exactly one goroutine:
\* between the store and the return of processEvent a copy always has one owner
\* (processEvent, for any number of workers and crashes).
THEOREM EveryCopyHasOneOwner == Spec => []OneOwnerPerCopy
<1>1. IInv /\ Custody => OneOwnerPerCopy
  <2>. SUFFICES ASSUME IInv, Custody, NEW c \in Copies
                PROVE  IF c \in finished THEN Owners(c) = {} ELSE Cardinality(Owners(c)) = 1
    BY DEF OneOwnerPerCopy
  <2>1. c[1] \in Events /\ c[2] \in 1 .. copies[c[1]] /\ c = <<c[1], c[2]>>
    BY DEF Copies, IInv, TypeOK
  <2>2. \A p \in Processors: procs[p].copy # 0 <=> Holding(p)
    BY DEF IInv, CopiesInHand, EventsInTransit, TypeOK, Busy
  <2>3. Owners(c) = {p \in Processors: Holding(p) /\ CopyOf(p) = c}
    BY <2>2 DEF Owners
  <2>4. CASE c \in finished
    BY <2>3, <2>4 DEF Custody, HeldAreUnfinished
  <2>5. CASE c \notin finished
    <3>1. PICK p \in Processors: Holding(p) /\ CopyOf(p) = c
      BY <2>1, <2>5 DEF Custody, NoneForgotten
    <3>2. Owners(c) = {p}
      BY <2>3, <3>1 DEF IInv, CopiesDistinct
    <3>. QED BY <2>5, <3>2, FS_Singleton
  <2>. QED BY <2>4, <2>5
<1>2. IInv /\ Custody /\ [Next]_vars => Custody'
  BY CustodyStep
<1>. QED BY <1>1, <1>2, CustodyInit, Invariance, PTL DEF Spec

-------------------------------------------------------------------------------
(* The cache. *)

LEMMA CacheStep ==
  ASSUME IInv, CacheKnowsOnlyStored, [Next]_vars
  PROVE  CacheKnowsOnlyStored'
<1>1. ASSUME NEW e \in Events, copies[e] > 0 PROVE copies'[e] > 0
  <2>1. copies \in [Events -> Nat]
    BY DEF IInv, TypeOK
  <2>2. CASE UNCHANGED copies
    BY <1>1, <2>2
  <2>3. ASSUME NEW f \in Events, copies' = [copies EXCEPT ![f] = @ + 1] PROVE copies'[e] > 0
    BY <1>1, <2>1, <2>3
  <2>4. UNCHANGED copies \/ \E f \in Events: copies' = [copies EXCEPT ![f] = @ + 1]
    <3>1. ASSUME NEW p \in Processors, StoreEvent(p)
          PROVE  \E f \in Events: copies' = [copies EXCEPT ![f] = @ + 1]
      BY <3>1 DEF StoreEvent, Stored, At, Busy, IInv, EventsInTransit
    <3>2. ASSUME NEW s \in Subscriptions, NEW f \in Events, NegentropySave(s, f)
          PROVE  copies' = [copies EXCEPT ![f] = @ + 1]
      BY <3>2 DEF NegentropySave, Stored
    <3>3. ASSUME NEW s \in Subscriptions, Relay(s), \A f \in Events: ~NegentropySave(s, f)
          PROVE  UNCHANGED copies
      BY <3>3 DEF Relay, LaunchRelay, NegentropyEnds, SubscriptionEnds, SendEvent, GiveUpSending,
                  RelayDelivers, storeVars
    <3>4. ASSUME NEW p \in Processors, ProcessEvent(p), ~StoreEvent(p)
          PROVE  UNCHANGED copies
      BY <3>4 DEF ProcessEvent, CheckCache, SkipDuplicate, ExistsFailsOrNot, StoreFails,
                  AddToCache, OtherKindHandled, DirectoryFails, FinishEvent, QueueInteraction,
                  storeVars
    <3>5. ASSUME \/ \E w \in Workers: TakeEvent(w) \/ WorkerExits(w)
                 \/ Refresh \/ SyncLoopExits \/ BatcherStep \/ Stop \/ CrashAndRestart
                 \/ (\E f \in Events: Prune(f)) \/ UNCHANGED vars
          PROVE  UNCHANGED copies
      BY <3>5 DEF TakeEvent, WorkerExits, Refresh, RefresherExits, RefreshFetches, SyncLoopExits,
                  BatcherStep, Stop, StopCancels, StopClosesEvents, StopClosesAggregates,
                  StopReturns, CrashAndRestart, Prune, vars, storeVars
    <3>. QED BY <3>1, <3>2, <3>3, <3>4, <3>5 DEF Next, Step
  <2>. QED BY <2>2, <2>3, <2>4
<1>2. \/ eventCache' = eventCache
      \/ eventCache' = Cache!NewEventCache
      \/ \E p \in Processors: AddToCache(p)
  <2>1. ASSUME NEW s \in Subscriptions, Relay(s) PROVE eventCache' = eventCache
    BY <2>1 DEF Relay, LaunchRelay, NegentropyEnds, SubscriptionEnds, SendEvent, GiveUpSending,
                RelayDelivers, NegentropySave
  <2>2. ASSUME NEW p \in Processors, ProcessEvent(p), ~AddToCache(p)
        PROVE  eventCache' = eventCache
    BY <2>2 DEF ProcessEvent, CheckCache, SkipDuplicate, ExistsFailsOrNot, StoreFails, StoreEvent,
                OtherKindHandled, DirectoryFails, FinishEvent, QueueInteraction
  <2>3. ASSUME \/ \E w \in Workers: TakeEvent(w) \/ WorkerExits(w)
               \/ Refresh \/ SyncLoopExits \/ BatcherStep \/ Stop
               \/ (\E f \in Events: Prune(f)) \/ UNCHANGED vars
        PROVE  eventCache' = eventCache
    BY <2>3 DEF TakeEvent, WorkerExits, Refresh, RefresherExits, RefreshFetches, SyncLoopExits,
                BatcherStep, Stop, StopCancels, StopClosesEvents, StopClosesAggregates,
                StopReturns, Prune, vars
  <2>. QED BY <2>1, <2>2, <2>3 DEF Next, Step, CrashAndRestart
<1>3. CASE eventCache' = eventCache
  <2>1. eventCache.cache \subseteq Events
    BY DEF IInv, TypeOK, Cache!EventCaches
  <2>. QED BY <1>1, <1>3, <2>1 DEF CacheKnowsOnlyStored
<1>4. CASE eventCache' = Cache!NewEventCache
  BY <1>4 DEF CacheKnowsOnlyStored, Cache!NewEventCache
<1>5. ASSUME NEW p \in Processors, AddToCache(p) PROVE CacheKnowsOnlyStored'
  <2>. DEFINE e == procs[p].event
  <2>1. e \in Events /\ copies[e] > 0
    <3>1. Holding(p) /\ Busy(p)
      BY <1>5 DEF AddToCache, At, Holding, Busy
    <3>2. e \in Events /\ procs[p].copy \in 1 .. copies[e] /\ copies \in [Events -> Nat]
      BY <3>1 DEF IInv, TypeOK, EventsInTransit, CopiesInHand
    <3>3. copies[e] \in Nat
      BY <3>2
    <3>. QED BY <3>2, <3>3
  <2>2. eventCache' = Cache!Add(eventCache, e)
    BY <1>5 DEF AddToCache
  <2>3. eventCache'.cache \subseteq eventCache.cache \union {e} /\ eventCache.cache \subseteq Events
    BY <2>2 DEF Cache!Add, IInv, TypeOK, Cache!EventCaches
  <2>. QED BY <1>1, <2>1, <2>3 DEF CacheKnowsOnlyStored
<1>. QED BY <1>2, <1>3, <1>4, <1>5

\* The deduplication cache only knows events that were stored once: a failed or
\* refused store never makes it hide an event (engine.go:556-571).
THEOREM CacheIsHonest == Spec => []CacheKnowsOnlyStored
<1>1. Init => CacheKnowsOnlyStored
  BY DEF Init, StartEngine, CacheKnowsOnlyStored, Cache!NewEventCache
<1>2. IInv /\ CacheKnowsOnlyStored /\ [Next]_vars => CacheKnowsOnlyStored'
  BY CacheStep
<1>. QED BY <1>1, <1>2, Invariance, PTL DEF Spec

-------------------------------------------------------------------------------
(* Stop. *)

\* A worker leaves an empty channel that nobody sends to any more.
WorkersLeaveNothing ==
  \A w \in Workers: procs[w].pc = "exited" => eventsClosed /\ eventChan = << >>

StoppedIsStill ==
  stopPc = "stopped" => /\ \A p \in Processors: procs[p].pc = "exited"
                        /\ batcher = "exited"

Quiescence == WorkersLeaveNothing /\ StoppedIsStill

LEMMA QuiescenceInit == Init => Quiescence
BY DEF Init, StartEngine, Free, Quiescence, WorkersLeaveNothing, StoppedIsStill, Processors

\* Steps of one goroutine that is not gone, and does not go.
LEMMA BusyQuiescence ==
  ASSUME IInv, Quiescence, NEW p \in Processors, procs[p].pc # "exited",
         NEW r \in ProcStates, procs' = [procs EXCEPT ![p] = r], r.pc # "exited",
         UNCHANGED <<stopPc, eventsClosed>>,
         eventChan' = eventChan \/ eventChan # << >>
  PROVE  Quiescence'
<1>1. procs'[p] = r /\ \A q \in Processors \ {p}: procs'[q] = procs[q]
  BY ProcType
<1>2. WorkersLeaveNothing'
  BY <1>1 DEF Quiescence, WorkersLeaveNothing, Processors
<1>3. StoppedIsStill'
  BY DEF Quiescence, StoppedIsStill
<1>. QED BY <1>2, <1>3 DEF Quiescence

LEMMA QuiescenceStep ==
  ASSUME IInv, Quiescence, [Next]_vars
  PROVE  Quiescence'
<1>. USE SyncAssumption, ProcType
<1>1. Refresher \in Processors /\ Workers \subseteq Processors
  BY DEF Processors
<1>2. ASSUME NEW s \in Subscriptions, Relay(s) PROVE Quiescence'
  <2>1. UNCHANGED <<procs, stopPc, eventsClosed, batcher>>
    BY <1>2 DEF Relay, LaunchRelay, NegentropyEnds, SubscriptionEnds, SendEvent, GiveUpSending,
                RelayDelivers, NegentropySave, pipeVars, aggVars
  <2>2. eventsClosed => eventChan' = eventChan
    BY <1>2 DEF Relay, LaunchRelay, NegentropyEnds, SubscriptionEnds, SendEvent, GiveUpSending,
                RelayDelivers, NegentropySave, pipeVars
  <2>. QED BY <2>1, <2>2 DEF Quiescence, WorkersLeaveNothing, StoppedIsStill
<1>3. ASSUME NEW w \in Workers, TakeEvent(w) PROVE Quiescence'
  <2>. DEFINE r == [pc |-> "check", event |-> Head(eventChan), copy |-> 0]
  <2>1. /\ procs[w].pc = "idle" /\ eventChan # << >>
        /\ procs' = [procs EXCEPT ![w] = r] /\ UNCHANGED <<stopPc, eventsClosed>>
    BY <1>3 DEF TakeEvent
  <2>2. r \in ProcStates /\ r.pc # "exited"
    BY <2>1 DEF ProcStates, IInv, TypeOK
  <2>. HIDE DEF r
  <2>3. procs[w].pc # "exited"
    BY <2>1
  <2>. QED BY <1>1, <2>1, <2>2, <2>3, BusyQuiescence
<1>4. ASSUME NEW w \in Workers, WorkerExits(w) PROVE Quiescence'
  <2>1. /\ procs[w].pc = "idle" /\ eventChan = << >> /\ eventsClosed
        /\ procs' = [procs EXCEPT ![w].pc = "exited"]
        /\ UNCHANGED <<stopPc, eventsClosed, eventChan>>
    BY <1>4 DEF WorkerExits, pipeVars
  <2>2. stopPc # "stopped"
    BY <1>1, <2>1 DEF Quiescence, StoppedIsStill
  <2>. QED BY <2>1, <2>2 DEF Quiescence, WorkersLeaveNothing, StoppedIsStill
<1>5. CASE RefresherExits
  <2>1. /\ procs[Refresher].pc = "idle" /\ procs' = [procs EXCEPT ![Refresher].pc = "exited"]
        /\ UNCHANGED <<stopPc, eventsClosed, eventChan>>
    BY <1>5 DEF RefresherExits, pipeVars
  <2>2. stopPc # "stopped"
    BY <1>1, <2>1 DEF Quiescence, StoppedIsStill
  <2>3. \A w \in Workers: procs'[w] = procs[w]
    BY <1>1, <2>1
  <2>. QED BY <2>1, <2>2, <2>3 DEF Quiescence, WorkersLeaveNothing, StoppedIsStill
<1>6. ASSUME NEW e \in Events, RefreshFetches(e) PROVE Quiescence'
  <2>. DEFINE r == [pc |-> "check", event |-> e, copy |-> 0]
  <2>1. /\ procs[Refresher].pc # "exited" /\ procs' = [procs EXCEPT ![Refresher] = r]
        /\ UNCHANGED <<stopPc, eventsClosed, eventChan>>
    BY <1>6 DEF RefreshFetches, pipeVars
  <2>2. r \in ProcStates /\ r.pc # "exited"
    BY DEF ProcStates
  <2>. HIDE DEF r
  <2>. QED BY <1>1, <2>1, <2>2, BusyQuiescence
<1>7. ASSUME NEW p \in Processors, ProcessEvent(p) PROVE Quiescence'
  <2>1. procs[p].pc # "exited" /\ UNCHANGED <<stopPc, eventsClosed, eventChan>>
    BY <1>7 DEF ProcessEvent, CheckCache, SkipDuplicate, ExistsFailsOrNot, StoreFails, StoreEvent,
                AddToCache, OtherKindHandled, DirectoryFails, FinishEvent, QueueInteraction, At,
                pipeVars
  <2>2. PICK r \in ProcStates: r.pc # "exited" /\ procs' = [procs EXCEPT ![p] = r]
    <3>1. CASE StoreEvent(p)
      <4>. DEFINE r == [pc |-> "cache", event |-> procs[p].event,
                        copy |-> copies[procs[p].event] + 1]
      <4>1. copies \in [Events -> Nat] /\ procs[p].event \in Events
        BY <3>1 DEF IInv, TypeOK, EventsInTransit, StoreEvent, At, Busy
      <4>2. r \in ProcStates /\ r.pc # "exited"
        BY <4>1 DEF ProcStates
      <4>3. procs' = [procs EXCEPT ![p] = r]
        BY <3>1 DEF StoreEvent
      <4>. QED BY <4>2, <4>3
    <3>2. CASE SkipDuplicate(p) \/ StoreFails(p) \/ DirectoryFails(p) \/ FinishEvent(p)
      <4>1. procs' = [procs EXCEPT ![p] = Free]
        BY <3>2 DEF SkipDuplicate, StoreFails, DirectoryFails, FinishEvent, Done
      <4>2. Free \in ProcStates /\ Free.pc = "idle"
        BY DEF Free, ProcStates
      <4>. QED BY <4>1, <4>2
    <3>3. CASE CheckCache(p) \/ ExistsFailsOrNot(p) \/ AddToCache(p) \/ OtherKindHandled(p)
               \/ QueueInteraction(p)
      <4>1. PICK pc \in {"exists", "store", "dispatch", "finish"}:
              procs' = [procs EXCEPT ![p].pc = pc]
        BY <3>3 DEF CheckCache, ExistsFailsOrNot, AddToCache, OtherKindHandled, QueueInteraction,
                    Goto
      <4>. DEFINE r == [procs[p] EXCEPT !.pc = pc]
      <4>2. r \in ProcStates /\ r.pc = pc /\ procs' = [procs EXCEPT ![p] = r]
        BY <4>1 DEF ProcStates
      <4>. QED BY <4>2
    <3>. QED BY <1>7, <3>1, <3>2, <3>3 DEF ProcessEvent
  <2>. QED BY <2>1, <2>2, BusyQuiescence
<1>8. CASE BatcherStep
  <2>1. batcher # "exited" /\ UNCHANGED <<procs, stopPc, eventsClosed, eventChan>>
    BY <1>8 DEF BatcherStep, Batcher, Receive, Tick, SeeCancelled, SeeClosed, StartFlush, Flush,
                FlushReplies, FlushReactions, FlushZaps, pipeVars
  <2>. QED BY <2>1 DEF Quiescence, WorkersLeaveNothing, StoppedIsStill
<1>9. CASE Stop
  <2>1. UNCHANGED <<procs, eventChan>> /\ (eventsClosed => eventsClosed')
    BY <1>9 DEF Stop, StopCancels, StopClosesEvents, StopClosesAggregates, StopReturns, pipeVars
  <2>2. WorkersLeaveNothing'
    BY <2>1 DEF Quiescence, WorkersLeaveNothing
  <2>3. StoppedIsStill'
    BY <1>9 DEF Stop, StopCancels, StopClosesEvents, StopClosesAggregates, StopReturns,
                StoppedIsStill, aggVars
  <2>. QED BY <2>2, <2>3 DEF Quiescence
<1>10. CASE SyncLoopExits \/ (\E e \in Events: Prune(e)) \/ UNCHANGED vars
  <2>1. UNCHANGED <<procs, eventChan, eventsClosed, stopPc, batcher>>
    BY <1>10 DEF SyncLoopExits, Prune, vars, pipeVars, aggVars
  <2>. QED BY <2>1 DEF Quiescence, WorkersLeaveNothing, StoppedIsStill
<1>11. CASE CrashAndRestart
  <2>1. procs' = [p \in Processors |-> Free] /\ stopPc' = "running"
    BY <1>11 DEF CrashAndRestart
  <2>. QED BY <1>1, <2>1 DEF Quiescence, WorkersLeaveNothing, StoppedIsStill, Free
<1>. QED BY <1>2, <1>3, <1>4, <1>5, <1>6, <1>7, <1>8, <1>9, <1>10, <1>11 DEF Next, Step, Refresh

\* A copy that is done with had its handlers called, was stored by negentropy, was cut
\* off by a crash, or is a list whose update of the graph or the hints failed.
Accounted == \A c \in finished: c \in handled \/ NeverHandled(c)

LEMMA AccountedStep ==
  ASSUME Accounted, [Next]_vars
  PROVE  Accounted'
<1>1. ASSUME UNCHANGED finished, handled \subseteq handled', bypassed \subseteq bypassed',
             cutOff \subseteq cutOff'
      PROVE  Accounted'
  BY <1>1 DEF Accounted, NeverHandled
<1>2. ASSUME NEW s \in Subscriptions, NEW e \in Events, NegentropySave(s, e) PROVE Accounted'
  BY <1>2 DEF NegentropySave, Accounted, NeverHandled
<1>3. ASSUME NEW p \in Processors, FinishEvent(p) PROVE Accounted'
  BY <1>3 DEF FinishEvent, storeVars, Accounted, NeverHandled
<1>4. ASSUME NEW p \in Processors, DirectoryFails(p) PROVE Accounted'
  BY <1>4 DEF DirectoryFails, storeVars, CopyOf, Accounted, NeverHandled
<1>5. CASE CrashAndRestart
  BY <1>5 DEF CrashAndRestart, storeVars, Accounted, NeverHandled
<1>6. ASSUME NEW s \in Subscriptions,
             \/ LaunchRelay(s) \/ NegentropyEnds(s) \/ SubscriptionEnds(s)
             \/ SendEvent(s) \/ GiveUpSending(s) \/ \E e \in Events: RelayDelivers(s, e)
      PROVE  Accounted'
  BY <1>1, <1>6 DEF LaunchRelay, NegentropyEnds, SubscriptionEnds, SendEvent, GiveUpSending,
                    RelayDelivers, storeVars, historyVars
<1>7. ASSUME NEW p \in Processors,
             \/ CheckCache(p) \/ SkipDuplicate(p) \/ ExistsFailsOrNot(p) \/ StoreFails(p)
             \/ StoreEvent(p) \/ AddToCache(p) \/ OtherKindHandled(p) \/ QueueInteraction(p)
      PROVE  Accounted'
  BY <1>1, <1>7 DEF CheckCache, SkipDuplicate, ExistsFailsOrNot, StoreFails, StoreEvent,
                    AddToCache, OtherKindHandled, QueueInteraction, storeVars, historyVars
<1>8. CASE \/ \E w \in Workers: TakeEvent(w) \/ WorkerExits(w)
           \/ Refresh \/ SyncLoopExits \/ BatcherStep \/ Stop
           \/ (\E e \in Events: Prune(e)) \/ UNCHANGED vars
  BY <1>1, <1>8 DEF TakeEvent, WorkerExits, Refresh, RefresherExits, RefreshFetches, SyncLoopExits,
                    BatcherStep, Stop, StopCancels, StopClosesEvents, StopClosesAggregates,
                    StopReturns, Prune, vars, storeVars, historyVars
<1>. QED BY <1>2, <1>3, <1>4, <1>5, <1>6, <1>7, <1>8 DEF Next, Step, Relay, ProcessEvent

\* When Stop has returned, no event waits in the channel, the batcher has gone, and the
\* event handlers were called for every stored copy, except those that negentropy
\* stored, a crash cut off, or a failing update of the graph or the hints ended early
\* (Stop, engine.go:145-150; processEvent, :535-605), for any number of workers and
\* relays and after any crashes.
THEOREM StopIsClean == Spec => []StopLeavesNothingHalfDone
<1>1. IInv /\ Custody /\ Quiescence /\ Accounted => StopLeavesNothingHalfDone
  <2>. SUFFICES ASSUME IInv, Custody, Quiescence, Accounted, stopPc = "stopped"
                PROVE  /\ eventChan = << >> /\ batcher = "exited"
                       /\ \A c \in Copies: c \in handled \/ NeverHandled(c)
    BY DEF StopLeavesNothingHalfDone
  <2>1. (\A p \in Processors: procs[p].pc = "exited") /\ batcher = "exited"
    BY DEF Quiescence, StoppedIsStill
  <2>2. eventChan = << >>
    BY <2>1, WorkersAssumption DEF Quiescence, WorkersLeaveNothing, Processors
  <2>3. ASSUME NEW c \in Copies PROVE c \in handled \/ NeverHandled(c)
    <3>1. c[1] \in Events /\ c[2] \in 1 .. copies[c[1]] /\ c = <<c[1], c[2]>>
      BY DEF Copies, IInv, TypeOK
    <3>2. \A p \in Processors: ~Holding(p)
      BY <2>1 DEF Holding
    <3>3. c \in finished
      BY <3>1, <3>2 DEF Custody, NoneForgotten
    <3>. QED BY <3>3 DEF Accounted
  <2>. QED BY <2>1, <2>2, <2>3
<1>2. IInv /\ Custody /\ [Next]_vars => Custody'
  BY CustodyStep
<1>3. IInv /\ Quiescence /\ [Next]_vars => Quiescence'
  BY QuiescenceStep
<1>4. Init => Accounted
  BY DEF Init, Accounted
<1>5. Accounted /\ [Next]_vars => Accounted'
  BY AccountedStep
<1>. QED
  BY <1>1, <1>2, <1>3, <1>4, <1>5, CustodyInit, QuiescenceInit, Invariance, PTL DEF Spec

-------------------------------------------------------------------------------
(* Nothing goes around processEvent when negentropy is off.                   *)

NoBypass ==
  /\ restarts <= MaxRestarts
  /\ ~UseNegentropy => bypassed = {} /\ \A s \in Subscriptions: subs[s].pc # "negentropy"

LEMMA NoBypassStep ==
  ASSUME IInv, NoBypass, [Next]_vars
  PROVE  NoBypass'
<1>. USE SyncAssumption
<1>1. restarts' <= MaxRestarts
  <2>1. CASE UNCHANGED restarts
    BY <2>1 DEF NoBypass
  <2>2. CASE CrashAndRestart
    BY <2>2 DEF CrashAndRestart, IInv, TypeOK
  <2>3. ASSUME NEW s \in Subscriptions, Relay(s) PROVE UNCHANGED restarts
    BY <2>3 DEF Relay, LaunchRelay, NegentropyEnds, SubscriptionEnds, SendEvent, GiveUpSending,
                RelayDelivers, NegentropySave
  <2>4. ASSUME NEW p \in Processors, ProcessEvent(p) PROVE UNCHANGED restarts
    BY <2>4 DEF ProcessEvent, CheckCache, SkipDuplicate, ExistsFailsOrNot, StoreFails, StoreEvent,
                AddToCache, OtherKindHandled, DirectoryFails, FinishEvent, QueueInteraction
  <2>5. ASSUME \/ \E w \in Workers: TakeEvent(w) \/ WorkerExits(w)
               \/ Refresh \/ SyncLoopExits \/ BatcherStep \/ Stop
               \/ (\E f \in Events: Prune(f)) \/ UNCHANGED vars
        PROVE  UNCHANGED restarts
    BY <2>5 DEF TakeEvent, WorkerExits, Refresh, RefresherExits, RefreshFetches, SyncLoopExits,
                BatcherStep, Stop, StopCancels, StopClosesEvents, StopClosesAggregates,
                StopReturns, Prune, vars
  <2>. QED BY <2>1, <2>2, <2>3, <2>4, <2>5 DEF Next, Step
<1>2. ASSUME ~UseNegentropy
      PROVE  bypassed' = {} /\ \A s \in Subscriptions: subs'[s].pc # "negentropy"
  <2>0. bypassed = {} /\ \A s \in Subscriptions: subs[s].pc # "negentropy"
    BY <1>2 DEF NoBypass
  <2>1. CASE UNCHANGED <<subs, bypassed>>
    BY <2>0, <2>1
  <2>2. ASSUME NEW s \in Subscriptions, Relay(s)
        PROVE  bypassed' = {} /\ \A t \in Subscriptions: subs'[t].pc # "negentropy"
    <3>1. UNCHANGED bypassed
      BY <2>0, <2>2 DEF Relay, LaunchRelay, NegentropyEnds, SubscriptionEnds, SendEvent,
                        GiveUpSending, RelayDelivers, NegentropySave, storeVars
    <3>2. CASE UNCHANGED subs
      BY <2>0, <3>1, <3>2
    <3>3. ASSUME NEW r \in SubStates, r.pc # "negentropy", subs' = [subs EXCEPT ![s] = r]
          PROVE  \A t \in Subscriptions: subs'[t].pc # "negentropy"
      BY <2>0, <3>3 DEF IInv, TypeOK
    <3>4. CASE LaunchRelay(s)
      <4>. DEFINE r == [subs[s] EXCEPT !.pc = "receiving"]
      <4>1. r \in SubStates /\ r.pc # "negentropy" /\ subs' = [subs EXCEPT ![s] = r]
        BY <1>2, <3>4 DEF LaunchRelay, SubStates, IInv, TypeOK
      <4>. QED BY <2>0, <3>1, <3>3, <4>1
    <3>5. CASE SubscriptionEnds(s) \/ GiveUpSending(s)
      <4>1. IdleSub \in SubStates /\ IdleSub.pc # "negentropy" /\ subs' = [subs EXCEPT ![s] = IdleSub]
        BY <3>5 DEF SubscriptionEnds, GiveUpSending, IdleSub, SubStates
      <4>. QED BY <2>0, <3>1, <3>3, <4>1
    <3>6. ASSUME NEW e \in Events, RelayDelivers(s, e)
          PROVE  \A t \in Subscriptions: subs'[t].pc # "negentropy"
      <4>. DEFINE r == [pc |-> "sending", event |-> e]
      <4>1. r \in SubStates /\ r.pc # "negentropy" /\ subs' = [subs EXCEPT ![s] = r]
        BY <3>6 DEF RelayDelivers, SubStates
      <4>. QED BY <3>3, <4>1
    <3>7. CASE SendEvent(s) /\ ~eventsClosed
      <4>. DEFINE r == [pc |-> "receiving", event |-> NoEvent]
      <4>1. r \in SubStates /\ r.pc # "negentropy" /\ subs' = [subs EXCEPT ![s] = r]
        BY <3>7 DEF SendEvent, SubStates
      <4>. QED BY <2>0, <3>1, <3>3, <4>1
    <3>8. ~NegentropyEnds(s) /\ \A e \in Events: ~NegentropySave(s, e)
      BY <2>0 DEF NegentropyEnds, NegentropySave
    <3>9. SendEvent(s) /\ eventsClosed => UNCHANGED subs
      BY DEF SendEvent
    <3>. QED BY <2>0, <2>2, <3>1, <3>2, <3>4, <3>5, <3>6, <3>7, <3>8, <3>9 DEF Relay
  <2>3. CASE CrashAndRestart
    <3>1. bypassed' = bypassed /\ \A s \in Subscriptions: subs'[s] = IdleSub
      BY <2>3 DEF CrashAndRestart, storeVars
    <3>. QED BY <2>0, <3>1 DEF IdleSub
  <2>4. ASSUME NEW p \in Processors, ProcessEvent(p) PROVE UNCHANGED <<subs, bypassed>>
    BY <2>4 DEF ProcessEvent, CheckCache, SkipDuplicate, ExistsFailsOrNot, StoreFails, StoreEvent,
                AddToCache, OtherKindHandled, DirectoryFails, FinishEvent, QueueInteraction,
                storeVars
  <2>5. ASSUME \/ \E w \in Workers: TakeEvent(w) \/ WorkerExits(w)
               \/ Refresh \/ SyncLoopExits \/ BatcherStep \/ Stop
               \/ (\E f \in Events: Prune(f)) \/ UNCHANGED vars
        PROVE  UNCHANGED <<subs, bypassed>>
    BY <2>5 DEF TakeEvent, WorkerExits, Refresh, RefresherExits, RefreshFetches, SyncLoopExits,
                BatcherStep, Stop, StopCancels, StopClosesEvents, StopClosesAggregates,
                StopReturns, Prune, vars, storeVars
  <2>. QED BY <2>1, <2>2, <2>3, <2>4, <2>5 DEF Next, Step
<1>. QED BY <1>1, <1>2 DEF NoBypass

\* Without negentropy and until the process dies for the first time, every stored
\* interaction that nobody works on any more was offered to the aggregates.
THEOREM InteractionsReachAggregates ==
  ASSUME ~UseNegentropy, MaxRestarts = 0
  PROVE  Spec => []StoredInteractionsAreCounted
<1>1. Init => NoBypass
  BY SyncAssumption DEF Init, StartEngine, NoBypass, IdleSub
<1>2. IInv /\ NoBypass /\ [Next]_vars => NoBypass'
  BY NoBypassStep
<1>3. IInv /\ Custody /\ [Next]_vars => Custody'
  BY CustodyStep
<1>4. IInv /\ Custody /\ NoBypass => StoredInteractionsAreCounted
  BY DEF IInv, TypeOK, Custody, FinishedWereCounted, NoBypass, StoredInteractionsAreCounted
<1>. QED BY <1>1, <1>2, <1>3, <1>4, CustodyInit, Invariance, PTL DEF Spec

-------------------------------------------------------------------------------
(* The aggregate path inside the engine, and the counts a page shows.         *)

\* What a step of the engine is to the aggregate path.
LEMMA AggregateSteps ==
  ASSUME IInv, [Next]_vars
  PROVE  \/ \E p \in Processors: QueueInteraction(p)
         \/ Batcher /\ UNCHANGED counted
         \/ (Cancel \/ CloseAggregates) /\ UNCHANGED counted
         \/ /\ panicked' \in BOOLEAN
            /\ UNCHANGED <<ctxDone, channelVars, batchVars, batcher, leaving, table, writeFailed,
                           counted>>
         \/ CrashAndRestart
         \/ UNCHANGED <<aggVars, counted>>
<1>1. ASSUME NEW s \in Subscriptions, Relay(s)
      PROVE  \/ /\ panicked' \in BOOLEAN
                /\ UNCHANGED <<ctxDone, channelVars, batchVars, batcher, leaving, table,
                               writeFailed, counted>>
             \/ UNCHANGED <<aggVars, counted>>
  <2>1. CASE SendEvent(s) /\ eventsClosed
    BY <2>1 DEF SendEvent, historyVars
  <2>2. CASE SendEvent(s) /\ ~eventsClosed
    BY <2>2 DEF SendEvent, historyVars, aggVars
  <2>. QED BY <1>1, <2>1, <2>2
           DEF Relay, LaunchRelay, NegentropyEnds, SubscriptionEnds, GiveUpSending, RelayDelivers,
               NegentropySave, historyVars
<1>2. ASSUME NEW p \in Processors, ProcessEvent(p), ~QueueInteraction(p)
      PROVE  UNCHANGED <<aggVars, counted>>
  BY <1>2 DEF ProcessEvent, CheckCache, SkipDuplicate, ExistsFailsOrNot, StoreFails, StoreEvent,
              AddToCache, OtherKindHandled, DirectoryFails, FinishEvent, historyVars
<1>3. ASSUME \/ \E w \in Workers: TakeEvent(w) \/ WorkerExits(w)
             \/ Refresh \/ SyncLoopExits \/ (\E f \in Events: Prune(f)) \/ UNCHANGED vars
      PROVE  UNCHANGED <<aggVars, counted>>
  BY <1>3 DEF TakeEvent, WorkerExits, Refresh, RefresherExits, RefreshFetches, SyncLoopExits,
              Prune, vars, historyVars
<1>4. CASE BatcherStep
  BY <1>4 DEF BatcherStep, historyVars
<1>5. CASE Stop
  BY <1>5 DEF Stop, StopCancels, StopClosesEvents, StopClosesAggregates, StopReturns, historyVars
<1>. QED BY <1>1, <1>2, <1>3, <1>4, <1>5 DEF Next, Step

LEMMA EngineAggregateTypes ==
  ASSUME IInv, AggTypeOK, [Next]_vars
  PROVE  AggTypeOK'
<1>1. ASSUME NEW p \in Processors, QueueInteraction(p) PROVE AggTypeOK'
  <2>1. UpdateOf[procs[p].event] \in Updates /\ QueueUpdate(UpdateOf[procs[p].event])
    BY <1>1, SyncAssumption DEF QueueInteraction, At, IInv, EventsInTransit, Busy, Holding
  <2>. QED BY <2>1, QueueType
<1>2. CASE Batcher
  BY <1>2, BatcherInv
<1>3. CASE Cancel \/ CloseAggregates
  BY <1>3 DEF AggTypeOK, Cancel, CloseAggregates, channelVars, batchVars
<1>4. CASE /\ panicked' \in BOOLEAN
           /\ UNCHANGED <<ctxDone, channelVars, batchVars, batcher, leaving, table, writeFailed>>
  BY <1>4 DEF AggTypeOK, channelVars, batchVars
<1>5. CASE CrashAndRestart
  <2>0. (AggTypeOK <=> ChannelTypes /\ MapTypes /\ TableTypes)'
    BY TypeParts, PTL
  <2>1. ChannelTypes /\ MapTypes /\ TableTypes
    BY TypeParts
  <2>2. /\ ctxDone' = FALSE /\ aggregateChan' = << >> /\ aggClosed' = FALSE
        /\ replies' = EmptyMap /\ reactions' = EmptyMap /\ zaps' = EmptyMap
        /\ batcher' = "select" /\ leaving' = FALSE /\ panicked' = FALSE
        /\ UNCHANGED <<table, accepted, writeFailed>>
    BY <1>5 DEF CrashAndRestart
  <2>3. << >> \in Seq(Updates) /\ Len(<< >>) <= AggCap
    BY AggCapAssumption
  <2>4. ChannelTypes'
    BY <2>1, <2>2, <2>3 DEF ChannelTypes
  <2>5. MapTypes'
    BY <2>2, EmptyMapType DEF MapTypes
  <2>6. TableTypes'
    BY <2>1, <2>2 DEF TableTypes
  <2>. QED BY <2>0, <2>4, <2>5, <2>6
<1>6. CASE UNCHANGED aggVars
  BY <1>6 DEF AggTypeOK, aggVars, channelVars, batchVars
<1>. QED BY <1>1, <1>2, <1>3, <1>4, <1>5, <1>6, AggregateSteps

\* How many copies of an event reached the aggregate queue.
CountedOf(e) == {n \in Nat: <<e, n>> \in counted}

TimesCounted == [e \in Events |-> Cardinality(CountedOf(e))]

\* A target's replies in the table, in the batcher's map and in the channel are
\* copies that were counted.
RepliesWereCounted ==
  \A t \in Targets: ReplyLoad(t) <= SumFunctionOnSet(TimesCounted, RepliesTo(t))

LEMMA CountedBounds ==
  ASSUME IInv, NEW e \in Events
  PROVE  /\ IsFiniteSet(CountedOf(e))
         /\ Cardinality(CountedOf(e)) \in Nat /\ copies[e] \in Nat
         /\ Cardinality(CountedOf(e)) <= copies[e]
<1>1. copies[e] \in Nat
  BY DEF IInv, TypeOK
<1>2. IsFiniteSet(1 .. copies[e]) /\ Cardinality(1 .. copies[e]) = copies[e]
  BY <1>1, FS_Interval
<1>3. CountedOf(e) \in SUBSET (1 .. copies[e])
  BY DEF CountedOf, IInv, CountedWereStored
<1>. QED BY <1>1, <1>2, <1>3, FS_Subset, FS_CardinalityType

LEMMA RepliesToFinite ==
  ASSUME NEW t PROVE RepliesTo(t) \in SUBSET Events /\ IsFiniteSet(RepliesTo(t))
<1>1. RepliesTo(t) \in SUBSET Events
  BY DEF RepliesTo
<1>. QED BY <1>1, EventsAssumption, FS_Subset

LEMMA CountedSum ==
  ASSUME IInv, NEW t
  PROVE  /\ SumFunctionOnSet(TimesCounted, RepliesTo(t)) \in Nat
         /\ SumFunctionOnSet(TimesCounted, RepliesTo(t)) <= SumFunctionOnSet(copies, RepliesTo(t))
<1>1. \A e \in RepliesTo(t): /\ TimesCounted[e] \in Nat /\ copies[e] \in Nat
                             /\ TimesCounted[e] <= copies[e]
  BY CountedBounds, RepliesToFinite DEF TimesCounted
<1>. QED BY <1>1, RepliesToFinite, SumType, SumMonotonic

LEMMA CountingReplies ==
  ASSUME IInv, AggTypeOK, RepliesWereCounted, NEW p \in Processors, QueueInteraction(p)
  PROVE  RepliesWereCounted'
<1>1. PICK e \in Events, n \in Nat:
        /\ n \in 1 .. copies[e] /\ copies[e] \in Nat
        /\ <<e, n>> \notin counted /\ counted' = counted \union {<<e, n>>}
        /\ KindOf[e] = "interaction" /\ QueueUpdate(UpdateOf[e])
  <2>. DEFINE e == procs[p].event
              n == procs[p].copy
  <2>1. /\ e \in Events /\ n \in 1 .. copies[e] /\ copies[e] \in Nat
        /\ <<e, n>> \notin counted /\ counted' = counted \union {<<e, n>>}
        /\ KindOf[e] = "interaction" /\ QueueUpdate(UpdateOf[e])
    BY DEF QueueInteraction, At, IInv, TypeOK, EventsInTransit, CopiesInHand, NotYetCounted, Busy,
           Holding, CopyOf
  <2>2. n \in Nat
    BY <2>1
  <2>. HIDE DEF e, n
  <2>. QED BY <2>1, <2>2
<1>. DEFINE u == UpdateOf[e]
<1>2. u \in Updates /\ QueueUpdate(u)
  BY <1>1, SyncAssumption
<1>3. /\ CountedOf(e)' = CountedOf(e) \union {n} /\ n \notin CountedOf(e)
      /\ \A f \in Events \ {e}: CountedOf(f)' = CountedOf(f)
  <2>1. n \in Nat
    BY <1>1
  <2>2. \A f: CountedOf(f)' = {m \in Nat: <<f, m>> \in counted'}
    BY DEF CountedOf
  <2>3. CountedOf(e)' = CountedOf(e) \union {n} /\ n \notin CountedOf(e)
    <3>1. n \notin CountedOf(e)
      BY <1>1 DEF CountedOf
    <3>2. ASSUME NEW m \in Nat
          PROVE  m \in CountedOf(e)' <=> m \in CountedOf(e) \/ m = n
      BY <1>1, <2>2 DEF CountedOf
    <3>3. CountedOf(e)' \subseteq Nat /\ CountedOf(e) \subseteq Nat
      BY <2>2 DEF CountedOf
    <3>. QED BY <2>1, <3>1, <3>2, <3>3
  <2>4. \A f \in Events \ {e}: CountedOf(f)' = CountedOf(f)
    BY <1>1, <2>2 DEF CountedOf
  <2>. QED BY <2>3, <2>4
<1>4. Cardinality(CountedOf(e)') = Cardinality(CountedOf(e)) + 1
  BY <1>1, <1>3, CountedBounds, FS_AddElement
<1>5. /\ \A f \in Events: TimesCounted[f] \in Nat /\ TimesCounted'[f] \in Nat
      /\ \A f \in Events \ {e}: TimesCounted'[f] = TimesCounted[f]
      /\ TimesCounted'[e] = TimesCounted[e] + 1
  <2>1. \A f \in Events: /\ TimesCounted[f] = Cardinality(CountedOf(f))
                         /\ TimesCounted'[f] = Cardinality(CountedOf(f)')
    BY DEF TimesCounted
  <2>2. \A f \in Events: Cardinality(CountedOf(f)) \in Nat
    BY CountedBounds
  <2>3. \A f \in Events \ {e}: TimesCounted'[f] = TimesCounted[f] /\ TimesCounted[f] \in Nat
    BY <1>3, <2>1, <2>2
  <2>4. TimesCounted'[e] = TimesCounted[e] + 1 /\ TimesCounted[e] \in Nat
    BY <1>1, <1>4, <2>1, <2>2
  <2>. QED BY <2>3, <2>4
<1>. HIDE DEF u
<1>6. ASSUME NEW t \in Targets
      PROVE  ReplyLoad(t)' <= SumFunctionOnSet(TimesCounted', RepliesTo(t))
  <2>1. ReplyLoad(t)' <= ReplyLoad(t) + IF u \in Wanted(Replies, t) THEN 1 ELSE 0
    <3>1. InChannel(Replies, t) \in Nat /\ InMap(replies, t) \in {0, 1}
      BY ChannelCount DEF InMap
    <3>2. /\ UNCHANGED <<table, replies>>
          /\ \/ InChannel(Replies, t)' = InChannel(Replies, t)
             \/ InChannel(Replies, t)' =
                  InChannel(Replies, t) + IF u \in Wanted(Replies, t) THEN 1 ELSE 0
      BY <1>1, <1>2, QueueLoads, InChannelIs
    <3>3. InMap(replies, t)' = InMap(replies, t)
      BY <3>2 DEF InMap
    <3>. QED BY <3>1, <3>2, <3>3, RowTypes DEF ReplyLoad
  <2>2. u \in Wanted(Replies, t) => e \in RepliesTo(t)
    BY <1>1, <1>2, UpdateKinds DEF Wanted, RepliesTo, u
  <2>3. ReplyLoad(t) \in Nat
    BY LoadTypes DEF LoadsAreNumbers
  <2>4. ReplyLoad(t) <= SumFunctionOnSet(TimesCounted, RepliesTo(t))
    BY DEF RepliesWereCounted
  <2>5. SumFunctionOnSet(TimesCounted, RepliesTo(t)) \in Nat
    BY CountedSum
  <2>6. SumFunctionOnSet(TimesCounted', RepliesTo(t)) =
          SumFunctionOnSet(TimesCounted, RepliesTo(t)) + IF e \in RepliesTo(t) THEN 1 ELSE 0
    <3>. DEFINE R == RepliesTo(t)
                f == TimesCounted
                g == TimesCounted'
    <3>1. IsFiniteSet(R) /\ R \in SUBSET Events
      BY RepliesToFinite
    <3>2. /\ \A x \in R: f[x] \in Nat /\ g[x] \in Nat
          /\ \A x \in R \ {e}: g[x] = f[x]
          /\ g[e] = f[e] + 1
      BY <1>5, <3>1
    <3>. HIDE DEF R, f, g
    <3>3. CASE e \in R
      <4>1. SumFunctionOnSet(g, R) = SumFunctionOnSet(f, R) + 1
        BY <3>1, <3>2, <3>3, SumChanges
      <4>. QED BY <3>3, <4>1 DEF R, f, g
    <3>4. CASE e \notin R
      <4>1. SumFunctionOnSet(g, R) = SumFunctionOnSet(f, R)
        BY <3>1, <3>2, <3>4, SumSame
      <4>. QED BY <2>5, <3>4, <4>1 DEF R, f, g
    <3>. QED BY <3>3, <3>4
  <2>7. ReplyLoad(t)' \in Nat
    <3>1. (AggTypeOK => LoadsAreNumbers)'
      BY LoadTypes, PTL
    <3>2. AggTypeOK'
      BY <1>1, <1>2, QueueType
    <3>. QED BY <3>1, <3>2 DEF LoadsAreNumbers
  <2>. QED BY <2>1, <2>2, <2>3, <2>4, <2>5, <2>6, <2>7
<1>. QED BY <1>6 DEF RepliesWereCounted, RepliesTo

LEMMA RepliesStep ==
  ASSUME IInv, AggTypeOK, RepliesWereCounted, [Next]_vars
  PROVE  RepliesWereCounted'
<1>0. (AggTypeOK => LoadsAreNumbers)'
  BY LoadTypes, PTL
<1>1. ASSUME counted' = counted,
             \A t \in Targets: ReplyLoad(t)' <= ReplyLoad(t)
      PROVE  RepliesWereCounted'
  <2>1. TimesCounted' = TimesCounted
    BY <1>1 DEF TimesCounted, CountedOf
  <2>2. LoadsAreNumbers /\ LoadsAreNumbers'
    BY <1>0, EngineAggregateTypes, LoadTypes
  <2>. SUFFICES ASSUME NEW t \in Targets
                PROVE  ReplyLoad(t)' <= SumFunctionOnSet(TimesCounted, RepliesTo(t))
    BY <2>1 DEF RepliesWereCounted, RepliesTo
  <2>3. ReplyLoad(t) \in Nat /\ ReplyLoad(t)' \in Nat
    BY <2>2 DEF LoadsAreNumbers
  <2>4. /\ ReplyLoad(t)' <= ReplyLoad(t)
        /\ ReplyLoad(t) <= SumFunctionOnSet(TimesCounted, RepliesTo(t))
        /\ SumFunctionOnSet(TimesCounted, RepliesTo(t)) \in Nat
    BY <1>1, CountedSum DEF RepliesWereCounted
  <2>. QED BY <2>3, <2>4
<1>2. CASE Batcher /\ UNCHANGED counted
  BY <1>1, <1>2, BatcherInv DEF NoLoadGrows
<1>3. ASSUME counted' = counted, UNCHANGED <<table, replies, aggregateChan>>
      PROVE  RepliesWereCounted'
  <2>1. \A t \in Targets: ReplyLoad(t)' = ReplyLoad(t) /\ ReplyLoad(t) \in Nat
    <3>1. \A t \in Targets: ReplyLoad(t) \in Nat
      BY LoadTypes DEF LoadsAreNumbers
    <3>2. \A t: InChannel(Replies, t)' = InChannel(Replies, t)
      BY <1>3, InChannelIs
    <3>. QED BY <1>3, <3>1, <3>2 DEF ReplyLoad, InMap
  <2>2. \A t \in Targets: ReplyLoad(t)' <= ReplyLoad(t)
    BY <2>1
  <2>. QED BY <1>1, <1>3, <2>2
<1>4. CASE CrashAndRestart
  <2>1. /\ replies' = EmptyMap /\ aggregateChan' = << >> /\ table' = table
        /\ counted' = counted
    BY <1>4 DEF CrashAndRestart
  <2>2. ASSUME NEW t \in Targets PROVE ReplyLoad(t)' <= ReplyLoad(t)
    <3>1. InMap(replies, t)' = 0
      BY <2>1, EmptyMapType DEF InMap
    <3>2. InChannel(Replies, t)' = 0
      <4>1. Positions(aggregateChan', Wanted(Replies, t)) = {}
        BY <2>1 DEF Positions
      <4>. QED BY <4>1, FS_EmptySet, InChannelIs
    <3>3. /\ table[t].replies \in Nat /\ InMap(replies, t) \in {0, 1}
          /\ InChannel(Replies, t) \in Nat
      BY RowTypes, ChannelCount DEF InMap
    <3>. QED BY <2>1, <3>1, <3>2, <3>3 DEF ReplyLoad
  <2>. QED BY <1>1, <2>1, <2>2
<1>5. CASE (Cancel \/ CloseAggregates) /\ UNCHANGED counted
  BY <1>3, <1>5 DEF Cancel, CloseAggregates, channelVars, batchVars
<1>6. CASE UNCHANGED <<ctxDone, channelVars, batchVars, batcher, leaving, table, writeFailed,
                       counted>>
  BY <1>3, <1>6 DEF channelVars, batchVars
<1>7. CASE UNCHANGED <<aggVars, counted>>
  BY <1>3, <1>7 DEF aggVars, channelVars, batchVars
<1>. QED BY <1>2, <1>4, <1>5, <1>6, <1>7, CountingReplies, AggregateSteps

LEMMA RepliesInit == Init => AggTypeOK /\ RepliesWereCounted
<1>. SUFFICES ASSUME Init PROVE AggTypeOK /\ RepliesWereCounted
  OBVIOUS
<1>1. AggTypeOK
  BY AggTypeInit DEF Init
<1>2. ASSUME NEW t \in Targets
      PROVE  ReplyLoad(t) = 0 /\ SumFunctionOnSet(TimesCounted, RepliesTo(t)) \in Nat
  <2>1. InMap(replies, t) = 0
    BY EmptyMapType DEF InMap, Init, AggInit
  <2>2. InChannel(Replies, t) = 0
    <3>1. Positions(aggregateChan, Wanted(Replies, t)) = {}
      BY DEF Positions, Init, AggInit
    <3>. QED BY <3>1, FS_EmptySet, InChannelIs
  <2>3. table[t].replies = 0
    BY DEF Init, AggInit, NoRow
  <2>. QED BY <2>1, <2>2, <2>3, InitInv, CountedSum DEF ReplyLoad
<1>. QED BY <1>1, <1>2 DEF RepliesWereCounted

\* End to end, for any number of workers, relays, crashes, dropped updates and failed
\* writes: a page never shows more replies to a note than copies of replies to it
\* were stored (processEvent and processAggregates, engine.go:535-884).
THEOREM CountsAreNotInflated == Spec => []CountsNeverInflated
<1>1. IInv /\ AggTypeOK /\ RepliesWereCounted => CountsNeverInflated
  <2>. SUFFICES ASSUME IInv, AggTypeOK, RepliesWereCounted, NEW t \in Targets
                PROVE  table[t].replies <= SumFunctionOnSet(copies, RepliesTo(t))
    BY DEF CountsNeverInflated
  <2>1. /\ table[t].replies \in Nat /\ InMap(replies, t) \in {0, 1}
        /\ InChannel(Replies, t) \in Nat
    BY RowTypes, ChannelCount DEF InMap
  <2>2. /\ ReplyLoad(t) <= SumFunctionOnSet(TimesCounted, RepliesTo(t))
        /\ SumFunctionOnSet(TimesCounted, RepliesTo(t)) \in Nat
        /\ SumFunctionOnSet(TimesCounted, RepliesTo(t)) <= SumFunctionOnSet(copies, RepliesTo(t))
    BY CountedSum DEF RepliesWereCounted
  <2>3. SumFunctionOnSet(copies, RepliesTo(t)) \in Nat
    <3>1. \A e \in RepliesTo(t): copies[e] \in Nat
      BY RepliesToFinite DEF IInv, TypeOK
    <3>. QED BY <3>1, RepliesToFinite, SumType
  <2>. QED BY <2>1, <2>2, <2>3 DEF ReplyLoad
<1>2. IInv /\ AggTypeOK /\ RepliesWereCounted /\ [Next]_vars => AggTypeOK' /\ RepliesWereCounted'
  BY EngineAggregateTypes, RepliesStep
<1>. QED BY <1>1, <1>2, RepliesInit, Invariance, PTL DEF Spec
===============================================================================
