------------------------- MODULE ProcessAndExport_proofs ------------------------
(***************************************************************************)
(* The life of the process, and the static exporters, which share no       *)
(* variable.  For any number of servers and connections, in any            *)
(* configuration and whatever fails to start: the store outlives those who *)
(* use it, except for the goroutines that no Stop waits for.  For any      *)
(* number of events, exporters and workers, whatever fails, is pruned or   *)
(* crashes: a site keeps listing what was exported to it.                  *)
(***************************************************************************)
EXTENDS Process, StaticExport, Sums_proofs, SequenceTheorems, TLAPS

Beginning == {"openStore", "startRetention", "startEngine", "startServer", "serving"}
CancelLoop == {"cancelServer", "closeListener", "awaitServer"}
AfterServers == {"stopEngine", "awaitEngine", "stopRetention", "awaitRetention",
                 "closeStore", "cancel", "exited"}
AfterEngine == {"stopRetention", "awaitRetention", "closeStore", "cancel", "exited"}
Places == Beginning \cup CancelLoop \cup AfterServers

Goroutines == {"worker", "relay", "reEval", "scheduler"}
Servers == [cancelled: BOOLEAN, listener: {"none", "open", "closed"},
            acceptor: {"none", "running", "exited"}]
Open == [at: {"queued", "reading", "routing", "answering"}, server: Protocols]

Typed ==
  /\ main \in [at: Places, server: DOMAIN ServerOrder]
  /\ config \in [servers: SUBSET Protocols, sync: BOOLEAN, pruning: BOOLEAN, reEval: BOOLEAN]
  /\ failed \in BOOLEAN
  /\ goroutines \in [Goroutines -> {"none", "idle", "busy", "exited"}]
  /\ servers \in [Protocols -> Servers]
  /\ connections \in [Connections -> {Unconnected} \cup Open]

\* The store is closed by the last deferred call but one.
ClosedLast == database = "closed" => main.at \in {"cancel", "exited"}

\* Workers exist only while the engine runs, and the re-evaluation loop has ended
\* before the store is closed.
LoopsGone ==
  /\ main.at = "startEngine" => config.sync
  /\ main.at \in {"openStore", "startRetention", "startEngine"} \/ ~config.sync =>
       goroutines["worker"] = "none"
  /\ main.at \in AfterEngine => goroutines["worker"] \in {"none", "exited"}
  /\ main.at \in {"closeStore", "cancel"} => goroutines["reEval"] = "exited"

\* A server is quiet when nobody can reach it and nobody is connected to it.
Quiet(p) ==
  /\ servers[p].listener # "open"
  /\ \A c \in Connections : connections[c] # Unconnected => connections[c].server # p

\* Only a server that was started has connections, and only one that listens has
\* some that nobody accepted yet; and Stop is called on servers that were configured.
ServersReached ==
  /\ main.at \in {"closeListener", "awaitServer"} => ServerTurn \in config.servers
  /\ \A p \in Protocols \ config.servers : servers[p].listener = "none"
  /\ \A c \in Connections : connections[c] # Unconnected =>
       /\ servers[connections[c].server].listener # "none"
       /\ connections[c].at = "queued" => servers[connections[c].server].listener = "open"

\* Stop has made quiet the servers that it has passed.
ServersGone ==
  /\ main.at = "awaitServer" => servers[ServerTurn].listener = "closed"
  /\ main.at \in CancelLoop => \A j \in 1 .. main.server - 1 : Quiet(ServerOrder[j])
  /\ main.at \in AfterServers /\ ~failed => \A p \in Protocols : Quiet(p)

LateAreExcused == late \subseteq {"relay", "scheduler"} \cup (IF failed THEN Protocols ELSE {})

IInv ==
  /\ Typed
  /\ ClosedLast
  /\ LoopsGone
  /\ ServersReached
  /\ ServersGone
  /\ LateAreExcused

-------------------------------------------------------------------------------
LEMMA OrderFacts ==
  /\ Len(ServerOrder) \in Nat \ {0}
  /\ DOMAIN ServerOrder = 1 .. Len(ServerOrder)
  /\ 1 \in DOMAIN ServerOrder
  /\ \A i \in DOMAIN ServerOrder : ServerOrder[i] \in Protocols
  /\ \A p \in Protocols : \E i \in DOMAIN ServerOrder : p = ServerOrder[i]
<1>1. ServerOrder \in Seq(Protocols) /\ ServerOrder # << >>
  BY ServerOrderAssumption
<1>2. Len(ServerOrder) \in Nat /\ DOMAIN ServerOrder = 1 .. Len(ServerOrder)
  BY <1>1
<1>3. Len(ServerOrder) # 0
  BY <1>1, EmptySeq
<1>4. 1 \in 1 .. Len(ServerOrder)
  BY <1>2, <1>3
<1>. QED BY <1>2, <1>3, <1>4 DEF Protocols

LEMMA InitEstablishes == ProcInit => IInv
<1>. SUFFICES ASSUME ProcInit PROVE IInv
  OBVIOUS
<1>. USE DEF ProcInit, ProcStart
<1>1. Typed
  <2>1. main \in [at: Places, server: DOMAIN ServerOrder]
    BY OrderFacts DEF Places, Beginning
  <2>2. servers \in [Protocols -> Servers]
    BY DEF Servers, NotStarted
  <2>3. goroutines \in [Goroutines -> {"none", "idle", "busy", "exited"}]
    BY DEF Goroutines
  <2>4. connections \in [Connections -> {Unconnected} \cup Open]
    OBVIOUS
  <2>5. config \in [servers: SUBSET Protocols, sync: BOOLEAN, pruning: BOOLEAN, reEval: BOOLEAN]
        /\ failed \in BOOLEAN
    OBVIOUS
  <2>. QED BY <2>1, <2>2, <2>3, <2>4, <2>5 DEF Typed
<1>2. ClosedLast /\ LoopsGone
  BY DEF ClosedLast, LoopsGone, AfterEngine
<1>3. ServersReached /\ ServersGone
  BY OrderFacts DEF ServersReached, ServersGone, Quiet, NotStarted, CancelLoop, AfterServers
<1>4. LateAreExcused
  BY DEF LateAreExcused
<1>. QED BY <1>1, <1>2, <1>3, <1>4 DEF IInv

-------------------------------------------------------------------------------
(* Where run() is. *)

LEMMA GoesOn ==
  ASSUME NEW at \in Places, MainGoes(at)
  PROVE  main' \in [at: Places, server: DOMAIN ServerOrder] /\ main'.at = at /\ main'.server = 1
BY OrderFacts DEF MainGoes

LEMMA GoesTo ==
  ASSUME NEW at, MainGoes(at) PROVE main'.at = at /\ main'.server = 1
BY DEF MainGoes

LEMMA TurnsTo ==
  ASSUME NEW at, NEW then, NextServer(at, then) PROVE main'.at \in {at, then}
BY DEF NextServer

LEMMA TurnsOver ==
  ASSUME NEW at \in Places, NEW then \in Places, Typed, NextServer(at, then)
  PROVE  /\ main' \in [at: Places, server: DOMAIN ServerOrder]
         /\ \/ main'.at = at /\ main'.server = main.server + 1
            \/ main'.at = then /\ main'.server = 1 /\ main.server = Len(ServerOrder)
<1>1. main.server \in 1 .. Len(ServerOrder) /\ Len(ServerOrder) \in Nat
  BY OrderFacts DEF Typed
<1>2. CASE main.server < Len(ServerOrder)
  <2>1. main' = [at |-> at, server |-> main.server + 1]
    BY <1>2 DEF NextServer
  <2>2. main.server + 1 \in DOMAIN ServerOrder
    BY <1>1, <1>2, OrderFacts
  <2>. QED BY <2>1, <2>2
<1>3. CASE ~(main.server < Len(ServerOrder))
  <2>1. main' = [at |-> then, server |-> 1]
    BY <1>3 DEF NextServer
  <2>2. main.server = Len(ServerOrder)
    BY <1>1, <1>3
  <2>. QED BY <2>1, <2>2, OrderFacts
<1>. QED BY <1>2, <1>3

LEMMA MainTyped ==
  ASSUME Typed, ProcNext
  PROVE  main' \in [at: Places, server: DOMAIN ServerOrder]
<1>. DEFINE Good == main' \in [at: Places, server: DOMAIN ServerOrder]
<1>. EngineStopped \in Places
  BY DEF EngineStopped, Places, AfterServers
<1>1. CASE UNCHANGED main
  BY <1>1 DEF Typed
<1>2. CASE \E at \in Places : MainGoes(at)
  BY <1>2, GoesOn
<1>3. CASE \E at, then \in Places : NextServer(at, then)
  BY <1>3, TurnsOver
<1>4. CASE \E at \in Places : main' = [main EXCEPT !.at = at]
  BY <1>4 DEF Typed
<1>5. \/ UNCHANGED main
      \/ \E at \in Places : MainGoes(at)
      \/ \E at, then \in Places : NextServer(at, then)
      \/ \E at \in Places : main' = [main EXCEPT !.at = at]
  <2>1. CASE MainStep \/ Signal
    <3>. "startRetention" \in Places /\ "exited" \in Places /\ "startEngine" \in Places
         /\ "startServer" \in Places /\ "stopRetention" \in Places /\ "serving" \in Places
         /\ "cancelServer" \in Places /\ "closeListener" \in Places /\ "awaitServer" \in Places
         /\ "awaitEngine" \in Places /\ "awaitRetention" \in Places /\ "closeStore" \in Places
         /\ "cancel" \in Places
      BY DEF Places, Beginning, CancelLoop, AfterServers
    <3>1. CASE OpenStore \/ StartRetention \/ StartEngine
      BY <3>1 DEF OpenStore, StartRetention, StartEngine
    <3>2. CASE StartServer \/ NoServers \/ Signal
      BY <3>2 DEF StartServer, NoServers, Signal
    <3>3. CASE CancelServer \/ CloseListener \/ AwaitServer
      BY <3>3 DEF CancelServer, CloseListener, AwaitServer
    <3>4. CASE StopEngine \/ AwaitEngine \/ StopRetention \/ AwaitRetention
      BY <3>4 DEF StopEngine, AwaitEngine, StopRetention, AwaitRetention
    <3>5. CASE CloseStore \/ Exit
      BY <3>5 DEF CloseStore, Exit
    <3>. QED BY <2>1, <3>1, <3>2, <3>3, <3>4, <3>5 DEF MainStep
  <2>2. CASE ~(MainStep \/ Signal)
    BY <2>2 DEF ProcNext, HandleConnection, GoroutineBegins, GoroutineUsesStore, GoroutineExits,
                AcceptorExits, Connect, Accept, ReadRequest, RouteRequest, Answer
  <2>. QED BY <2>1, <2>2
<1>. QED BY <1>1, <1>2, <1>3, <1>4, <1>5

-------------------------------------------------------------------------------
(* Types. *)

LEMMA ConfigIsFixed ==
  ASSUME ProcNext PROVE config' = config
<1>1. CASE MainStep \/ Signal
  BY <1>1 DEF MainStep, Signal, OpenStore, StartRetention, StartEngine, StartServer, NoServers,
              CancelServer, CloseListener, AwaitServer, StopEngine, AwaitEngine, StopRetention,
              AwaitRetention, CloseStore, Exit
<1>2. CASE \E g \in DOMAIN goroutines : GoroutineBegins(g) \/ GoroutineUsesStore(g) \/ GoroutineExits(g)
  BY <1>2 DEF GoroutineBegins, GoroutineUsesStore, GoroutineExits
<1>3. CASE \E p \in Protocols : AcceptorExits(p) \/ \E c \in Connections : Connect(c, p)
  BY <1>3 DEF AcceptorExits, Connect
<1>4. CASE \E c \in Connections : Accept(c) \/ HandleConnection(c)
  BY <1>4 DEF Accept, HandleConnection, ReadRequest, RouteRequest, Answer
<1>. QED BY <1>1, <1>2, <1>3, <1>4 DEF ProcNext

LEMMA FailedTyped ==
  ASSUME Typed, ProcNext PROVE failed' \in BOOLEAN /\ (failed => failed')
<1>. failed \in BOOLEAN
  BY DEF Typed
<1>1. CASE MainStep \/ Signal
  BY <1>1 DEF MainStep, Signal, OpenStore, StartRetention, StartEngine, StartServer, NoServers,
              CancelServer, CloseListener, AwaitServer, StopEngine, AwaitEngine, StopRetention,
              AwaitRetention, CloseStore, Exit
<1>2. CASE \E g \in DOMAIN goroutines : GoroutineBegins(g) \/ GoroutineUsesStore(g) \/ GoroutineExits(g)
  BY <1>2 DEF GoroutineBegins, GoroutineUsesStore, GoroutineExits
<1>3. CASE \E p \in Protocols : AcceptorExits(p) \/ \E c \in Connections : Connect(c, p)
  BY <1>3 DEF AcceptorExits, Connect
<1>4. CASE \E c \in Connections : Accept(c) \/ HandleConnection(c)
  BY <1>4 DEF Accept, HandleConnection, ReadRequest, RouteRequest, Answer
<1>. QED BY <1>1, <1>2, <1>3, <1>4 DEF ProcNext

LEMMA GoroutinesTyped ==
  ASSUME Typed, ProcNext
  PROVE  goroutines' \in [Goroutines -> {"none", "idle", "busy", "exited"}]
<1>. goroutines \in [Goroutines -> {"none", "idle", "busy", "exited"}]
  BY DEF Typed
<1>1. CASE MainStep \/ Signal
  BY <1>1 DEF MainStep, Signal, OpenStore, StartRetention, StartEngine, StartServer, NoServers,
              CancelServer, CloseListener, AwaitServer, StopEngine, AwaitEngine, StopRetention,
              AwaitRetention, CloseStore, Exit
<1>2. CASE \E g \in DOMAIN goroutines : GoroutineBegins(g) \/ GoroutineUsesStore(g) \/ GoroutineExits(g)
  BY <1>2 DEF GoroutineBegins, GoroutineUsesStore, GoroutineExits
<1>3. CASE \E p \in Protocols : AcceptorExits(p) \/ \E c \in Connections : Connect(c, p)
  BY <1>3 DEF AcceptorExits, Connect
<1>4. CASE \E c \in Connections : Accept(c) \/ HandleConnection(c)
  BY <1>4 DEF Accept, HandleConnection, ReadRequest, RouteRequest, Answer
<1>. QED BY <1>1, <1>2, <1>3, <1>4 DEF ProcNext

LEMMA ServersTyped ==
  ASSUME Typed, ProcNext
  PROVE  servers' \in [Protocols -> Servers]
<1>. servers \in [Protocols -> Servers] /\ main.server \in DOMAIN ServerOrder
  BY DEF Typed
<1>. ServerTurn \in Protocols
  BY OrderFacts DEF ServerTurn
<1>0. \A p \in Protocols : \A s \in {servers[p]} :
        /\ [s EXCEPT !.listener = "open", !.acceptor = "running"] \in Servers
        /\ [s EXCEPT !.cancelled = TRUE] \in Servers
        /\ [s EXCEPT !.listener = "closed"] \in Servers
        /\ [s EXCEPT !.acceptor = "exited"] \in Servers
  BY DEF Servers
<1>1. CASE StartServer
  BY <1>0, <1>1 DEF StartServer
<1>2. CASE CancelServer
  BY <1>0, <1>2 DEF CancelServer
<1>3. CASE CloseListener
  BY <1>0, <1>3 DEF CloseListener
<1>4. CASE \E p \in Protocols : AcceptorExits(p)
  BY <1>0, <1>4 DEF AcceptorExits
<1>5. CASE /\ ~(StartServer \/ CancelServer \/ CloseListener)
           /\ ~\E p \in Protocols : AcceptorExits(p)
  <2>1. UNCHANGED servers
    BY <1>5 DEF ProcNext, MainStep, HandleConnection, Signal, OpenStore, StartRetention, StartEngine,
                NoServers, AwaitServer, StopEngine, AwaitEngine, StopRetention, AwaitRetention,
                CloseStore, Exit, GoroutineBegins, GoroutineUsesStore, GoroutineExits, Connect,
                Accept, ReadRequest, RouteRequest, Answer
  <2>. QED BY <2>1
<1>. QED BY <1>1, <1>2, <1>3, <1>4, <1>5

\* What a step can do to the connections: accept, open, advance or end one, or
\* reset those a closing listener still holds.
ConnectionMoves(c) ==
  \/ \E p \in Protocols : /\ servers[p].listener = "open"
                          /\ connections' = [connections EXCEPT ![c] = [at |-> "queued", server |-> p]]
  \/ /\ connections[c].at # "none"
     /\ \E at \in {"reading", "routing", "answering"} :
          connections' = [connections EXCEPT ![c].at = at]
  \/ connections' = [connections EXCEPT ![c] = Unconnected]

LEMMA ConnectionSteps ==
  ASSUME ProcNext
  PROVE  \/ UNCHANGED connections
         \/ CloseListener
         \/ UNCHANGED <<main, servers>> /\ \E c \in Connections : ConnectionMoves(c)
<1>1. CASE MainStep \/ Signal
  BY <1>1 DEF MainStep, Signal, OpenStore, StartRetention, StartEngine, StartServer, NoServers,
              CancelServer, AwaitServer, StopEngine, AwaitEngine, StopRetention,
              AwaitRetention, CloseStore, Exit
<1>2. CASE \E g \in DOMAIN goroutines : GoroutineBegins(g) \/ GoroutineUsesStore(g) \/ GoroutineExits(g)
  BY <1>2 DEF GoroutineBegins, GoroutineUsesStore, GoroutineExits
<1>3. CASE \E p \in Protocols : AcceptorExits(p) \/ \E c \in Connections : Connect(c, p)
  BY <1>3 DEF AcceptorExits, Connect, ConnectionMoves
<1>4. CASE \E c \in Connections : Accept(c) \/ HandleConnection(c)
  BY <1>4 DEF Accept, HandleConnection, ReadRequest, RouteRequest, Answer, ConnectionGoes,
              ConnectionMoves
<1>. QED BY <1>1, <1>2, <1>3, <1>4 DEF ProcNext

LEMMA ConnectionsTyped ==
  ASSUME Typed, ProcNext
  PROVE  connections' \in [Connections -> {Unconnected} \cup Open]
<1>. connections \in [Connections -> {Unconnected} \cup Open]
  BY DEF Typed
<1>1. CASE CloseListener
  BY <1>1 DEF CloseListener
<1>2. ASSUME NEW c \in Connections, ConnectionMoves(c)
      PROVE  connections' \in [Connections -> {Unconnected} \cup Open]
  <2>1. \A p \in Protocols : [at |-> "queued", server |-> p] \in Open
    BY DEF Open
  <2>2. connections[c].at # "none" => \A at \in {"reading", "routing", "answering"} :
                                        [connections[c] EXCEPT !.at = at] \in Open
    BY DEF Open, Unconnected
  <2>. QED BY <1>2, <2>1, <2>2 DEF ConnectionMoves
<1>. QED BY <1>1, <1>2, ConnectionSteps

LEMMA TypesAreKept == ASSUME Typed, ProcNext PROVE Typed'
BY MainTyped, ConfigIsFixed, FailedTyped, GoroutinesTyped, ServersTyped, ConnectionsTyped DEF Typed

-------------------------------------------------------------------------------
(* The store, and the loops that use it. *)

LEMMA StoreClosedLast ==
  ASSUME Typed, ClosedLast, ProcNext PROVE ClosedLast'
<1>1. CASE UNCHANGED <<main, database>>
  BY <1>1 DEF ClosedLast
<1>2. CASE MainStep \/ Signal
  <2>1. CASE OpenStore
    BY <2>1 DEF ClosedLast, OpenStore, Main
  <2>3. CASE CloseStore \/ Exit
    BY <2>3, GoesTo DEF ClosedLast, CloseStore, Exit
  <2>2. CASE ~(OpenStore \/ CloseStore \/ Exit)
    BY <1>2, <2>2 DEF ClosedLast, Main, MainStep, Signal, StartRetention, StartEngine, StartServer,
                      NoServers, CancelServer, CloseListener, AwaitServer, StopEngine, AwaitEngine,
                      StopRetention, AwaitRetention
  <2>. QED BY <2>1, <2>2, <2>3
<1>3. CASE ~(MainStep \/ Signal)
  <2>1. UNCHANGED <<main, database>>
    BY <1>3 DEF ProcNext, HandleConnection, GoroutineBegins, GoroutineUsesStore, GoroutineExits,
                AcceptorExits, Connect, Accept, ReadRequest, RouteRequest, Answer
  <2>. QED BY <1>1, <2>1
<1>. QED BY <1>2, <1>3

LEMMA LoopsEnd ==
  ASSUME Typed, LoopsGone, ProcNext PROVE LoopsGone'
<1>. goroutines \in [Goroutines -> {"none", "idle", "busy", "exited"}]
  BY DEF Typed
<1>0. config'.sync = config.sync
  BY ConfigIsFixed
<1>. "worker" \in Goroutines /\ "reEval" \in Goroutines /\ "relay" \in Goroutines
     /\ "scheduler" \in Goroutines
  BY DEF Goroutines
<1>1. CASE OpenStore
  BY <1>0, <1>1 DEF LoopsGone, OpenStore, Main, MainGoes, AfterEngine
<1>2. CASE StartRetention
  <2>1. goroutines["worker"] = "none"
    BY <1>2 DEF LoopsGone, StartRetention, Main
  <2>2. goroutines'["worker"] = "none"
    BY <1>2, <2>1 DEF StartRetention
  <2>3. \/ main'.at = "startEngine" /\ config.sync
        \/ main'.at = "startServer" /\ ~config.sync
        \/ main'.at = "stopRetention"
    BY <1>2, GoesTo DEF StartRetention
  <2>4. main'.at \notin {"closeStore", "cancel"}
    BY <2>3
  <2>. QED BY <1>0, <2>2, <2>3, <2>4 DEF LoopsGone, AfterEngine
<1>3. CASE StartEngine
  <2>1. goroutines["worker"] = "none" /\ main.at = "startEngine" /\ config.sync
    BY <1>3 DEF LoopsGone, StartEngine, Main
  <2>2. CASE main'.at = "startServer"
    BY <1>0, <2>1, <2>2 DEF LoopsGone, AfterEngine
  <2>3. CASE main'.at = "stopRetention" /\ UNCHANGED goroutines
    BY <1>0, <2>1, <2>3 DEF LoopsGone, AfterEngine
  <2>. QED BY <1>3, <2>2, <2>3, GoesTo DEF StartEngine
<1>4. CASE StartServer \/ NoServers \/ Signal \/ CancelServer \/ CloseListener \/ AwaitServer
  <2>1. UNCHANGED goroutines
    BY <1>4 DEF StartServer, NoServers, Signal, CancelServer, CloseListener, AwaitServer
  <2>2. main'.at \in {"startServer", "serving", "cancelServer", "closeListener", "awaitServer",
                      EngineStopped}
    <3>. main.at = main.at /\ main = [at |-> main.at, server |-> main.server]
      BY DEF Typed
    <3>1. CASE StartServer \/ NoServers \/ Signal
      BY <3>1, GoesTo, TurnsTo DEF StartServer, NoServers, Signal
    <3>2. CASE CancelServer \/ CloseListener \/ AwaitServer
      BY <3>2, TurnsTo DEF CancelServer, CloseListener, AwaitServer
    <3>. QED BY <1>4, <3>1, <3>2
  <2>. QED BY <1>0, <2>1, <2>2 DEF LoopsGone, EngineStopped, AfterEngine
<1>5. CASE StopEngine
  BY <1>0, <1>5 DEF LoopsGone, StopEngine, Main, MainGoes, AfterEngine
<1>6. CASE AwaitEngine
  <2>1. goroutines["worker"] = "exited" /\ main'.at = "stopRetention" /\ UNCHANGED goroutines
    BY <1>6, GoesTo DEF AwaitEngine
  <2>2. config.sync
    BY <2>1 DEF LoopsGone
  <2>. QED BY <1>0, <2>1, <2>2 DEF LoopsGone, AfterEngine
<1>7. CASE StopRetention \/ AwaitRetention
  <2>1. UNCHANGED goroutines /\ main.at \in AfterEngine
    BY <1>7 DEF StopRetention, AwaitRetention, Main, AfterEngine
  <2>2. \/ main'.at = "awaitRetention"
        \/ main'.at = "closeStore" /\ goroutines["reEval"] = "exited"
    BY <1>7, GoesTo DEF StopRetention, AwaitRetention
  <2>. QED BY <1>0, <2>1, <2>2 DEF LoopsGone
<1>8. CASE CloseStore \/ Exit
  <2>1. UNCHANGED goroutines /\ main.at \in {"closeStore", "cancel"}
    BY <1>8 DEF CloseStore, Exit, Main
  <2>2. main'.at \in {"cancel", "exited"}
    BY <1>8, GoesTo DEF CloseStore, Exit
  <2>. QED BY <1>0, <2>1, <2>2 DEF LoopsGone, AfterEngine
<1>9. CASE \E g \in DOMAIN goroutines : GoroutineBegins(g) \/ GoroutineUsesStore(g) \/ GoroutineExits(g)
  <2>. PICK g \in Goroutines : GoroutineBegins(g) \/ GoroutineUsesStore(g) \/ GoroutineExits(g)
    BY <1>9
  <2>1. UNCHANGED main /\ goroutines[g] \in {"idle", "busy"}
    BY DEF GoroutineBegins, GoroutineUsesStore, GoroutineExits
  <2>2. goroutines' = [goroutines EXCEPT ![g] = goroutines'[g]]
    BY DEF GoroutineBegins, GoroutineUsesStore, GoroutineExits
  <2>. QED BY <1>0, <2>1, <2>2 DEF LoopsGone
<1>10. CASE \/ \E p \in Protocols : AcceptorExits(p) \/ \E c \in Connections : Connect(c, p)
           \/ \E c \in Connections : Accept(c) \/ HandleConnection(c)
  <2>1. UNCHANGED <<main, goroutines>>
    BY <1>10 DEF AcceptorExits, Connect, Accept, HandleConnection, ReadRequest, RouteRequest, Answer
  <2>. QED BY <1>0, <2>1 DEF LoopsGone
<1>. QED BY <1>1, <1>2, <1>3, <1>4, <1>5, <1>6, <1>7, <1>8, <1>9, <1>10 DEF ProcNext, MainStep

-------------------------------------------------------------------------------
(* The servers and their connections. *)

LEMMA TurnFacts ==
  ASSUME Typed PROVE ServerTurn \in Protocols
BY OrderFacts DEF Typed, ServerTurn

LEMMA ListenersKept ==
  ASSUME Typed, ProcNext, ~StartServer, ~CloseListener
  PROVE  \A p \in Protocols : servers'[p].listener = servers[p].listener
<1>. servers \in [Protocols -> Servers]
  BY DEF Typed
<1>1. CASE CancelServer
  BY <1>1, TurnFacts DEF CancelServer, Servers
<1>2. CASE \E p \in Protocols : AcceptorExits(p)
  BY <1>2 DEF AcceptorExits, Servers
<1>3. CASE ~CancelServer /\ ~\E p \in Protocols : AcceptorExits(p)
  <2>1. UNCHANGED servers
    BY <1>3 DEF ProcNext, MainStep, HandleConnection, Signal, OpenStore, StartRetention, StartEngine,
                NoServers, AwaitServer, StopEngine, AwaitEngine, StopRetention, AwaitRetention,
                CloseStore, Exit, GoroutineBegins, GoroutineUsesStore, GoroutineExits, Connect,
                Accept, ReadRequest, RouteRequest, Answer
  <2>. QED BY <2>1
<1>. QED BY <1>1, <1>2, <1>3

LEMMA ListenerCloses ==
  ASSUME Typed, CloseListener
  PROVE  /\ servers'[ServerTurn].listener = "closed"
         /\ \A p \in Protocols \ {ServerTurn} : servers'[p] = servers[p]
BY TurnFacts DEF Typed, CloseListener, Servers

\* Once quiet, for ever quiet: nobody connects to a listener that is not open.
LEMMA QuietStaysQuiet ==
  ASSUME Typed, ProcNext, ~StartServer, NEW p \in Protocols, Quiet(p)
  PROVE  Quiet(p)'
<1>. connections \in [Connections -> {Unconnected} \cup Open]
  BY DEF Typed
<1>1. servers'[p].listener # "open"
  <2>1. CASE CloseListener
    BY <2>1, ListenerCloses DEF Quiet
  <2>2. CASE ~CloseListener
    BY <2>2, ListenersKept DEF Quiet
  <2>. QED BY <2>1, <2>2
<1>2. CASE UNCHANGED connections
  BY <1>1, <1>2 DEF Quiet
<1>3. CASE CloseListener
  BY <1>1, <1>3 DEF Quiet, CloseListener
<1>4. ASSUME NEW c \in Connections, ConnectionMoves(c) PROVE Quiet(p)'
  <2>1. ASSUME NEW q \in Protocols, servers[q].listener = "open",
               connections' = [connections EXCEPT ![c] = [at |-> "queued", server |-> q]]
        PROVE  Quiet(p)'
    BY <1>1, <2>1 DEF Quiet
  <2>2. ASSUME connections[c].at # "none", NEW at \in {"reading", "routing", "answering"},
               connections' = [connections EXCEPT ![c].at = at]
        PROVE  Quiet(p)'
    <3>1. connections[c] \in Open /\ connections[c] # Unconnected
      BY <2>2 DEF Unconnected
    <3>2. connections'[c].server # p
      BY <2>2, <3>1 DEF Quiet, Open
    <3>. QED BY <1>1, <2>2, <3>2 DEF Quiet
  <2>3. ASSUME connections' = [connections EXCEPT ![c] = Unconnected] PROVE Quiet(p)'
    BY <1>1, <2>3 DEF Quiet
  <2>. QED BY <1>4, <2>1, <2>2, <2>3 DEF ConnectionMoves
<1>. QED BY <1>2, <1>3, <1>4, ConnectionSteps

\* Where a step that is not one of run() leaves run().
LEMMA OthersLeaveMain ==
  ASSUME ProcNext, ~MainStep, ~Signal PROVE UNCHANGED <<main, failed, database>>
BY DEF ProcNext, HandleConnection, GoroutineBegins, GoroutineUsesStore, GoroutineExits,
       AcceptorExits, Connect, Accept, ReadRequest, RouteRequest, Answer

\* The steps of run() before the signal, unless it gives up, and those after the
\* servers have stopped.
LEMMA StartsGoOn ==
  ASSUME \/ OpenStore \/ StartRetention \/ StartEngine \/ StartServer \/ NoServers
  PROVE  \/ main'.at \in Beginning
         \/ main'.at \in AfterServers /\ failed' = TRUE
<1>1. CASE OpenStore
  <2>1. \/ main'.at = "startRetention"
        \/ main'.at = "exited" /\ failed' = TRUE
    BY <1>1, GoesTo DEF OpenStore
  <2>. QED BY <2>1 DEF Beginning, AfterServers
<1>2. CASE StartRetention \/ StartEngine
  <2>1. \/ main'.at = "startEngine"
        \/ main'.at = "startServer"
        \/ main'.at = "stopRetention" /\ failed' = TRUE
    BY <1>2, GoesTo DEF StartRetention, StartEngine
  <2>. QED BY <2>1 DEF Beginning, AfterServers
<1>3. CASE StartServer \/ NoServers
  <2>1. \/ main'.at = "startServer"
        \/ main'.at = "serving"
        \/ main'.at = EngineStopped /\ failed' = TRUE
    BY <1>3, GoesTo, TurnsTo DEF StartServer, NoServers
  <2>2. EngineStopped \in AfterServers
    BY DEF EngineStopped, AfterServers
  <2>. QED BY <2>1, <2>2 DEF Beginning
<1>. QED BY <1>1, <1>2, <1>3

LEMMA StopsGoOn ==
  ASSUME \/ StopEngine \/ AwaitEngine \/ StopRetention \/ AwaitRetention \/ CloseStore \/ Exit
  PROVE  main.at \in AfterServers /\ main'.at \in AfterServers /\ UNCHANGED <<failed, servers>>
<1>1. CASE StopEngine \/ AwaitEngine \/ StopRetention
  BY <1>1, GoesTo DEF StopEngine, AwaitEngine, StopRetention, Main, AfterServers
<1>2. CASE AwaitRetention \/ CloseStore \/ Exit
  BY <1>2, GoesTo DEF AwaitRetention, CloseStore, Exit, Main, AfterServers
<1>. QED BY <1>1, <1>2

LEMMA Apart ==
  /\ Beginning \cap CancelLoop = {} /\ Beginning \cap AfterServers = {}
  /\ CancelLoop \cap AfterServers = {}
BY DEF Beginning, CancelLoop, AfterServers

\* The turn passes only from a server that is quiet.
LEMMA TurnLeavesQuiet ==
  ASSUME Typed, ProcNext, ServersReached, ServersGone,
         NextServer("cancelServer", EngineStopped), Main("cancelServer") \/ Main("awaitServer"),
         UNCHANGED failed, ~StartServer, Quiet(ServerTurn)
  PROVE  ServersGone' /\ main'.at \notin {"closeListener", "awaitServer"}
<1>1. EngineStopped \in AfterServers /\ EngineStopped \in Places /\ "cancelServer" \in Places
  BY DEF EngineStopped, AfterServers, Places, CancelLoop
<1>2. main.server \in 1 .. Len(ServerOrder) /\ Len(ServerOrder) \in Nat
  BY OrderFacts DEF Typed
<1>3. \A j \in 1 .. main.server : ServerOrder[j] \in Protocols /\ Quiet(ServerOrder[j])
  <2>. SUFFICES ASSUME NEW j \in 1 .. main.server
                PROVE  ServerOrder[j] \in Protocols /\ Quiet(ServerOrder[j])
    OBVIOUS
  <2>1. j \in DOMAIN ServerOrder
    BY <1>2, OrderFacts
  <2>2. CASE j = main.server
    BY <2>1, <2>2, OrderFacts DEF ServerTurn
  <2>3. CASE j # main.server
    <3>1. main.at \in CancelLoop /\ j \in 1 .. main.server - 1
      BY <1>2, <2>3 DEF Main, CancelLoop
    <3>. QED BY <2>1, <3>1, OrderFacts DEF ServersGone
  <2>. QED BY <2>2, <2>3
<1>4. \A j \in 1 .. main.server : Quiet(ServerOrder[j])'
  BY <1>3, QuietStaysQuiet
<1>5. CASE main'.at = "cancelServer" /\ main'.server = main.server + 1
  <2>1. \A j \in 1 .. main'.server - 1 : Quiet(ServerOrder[j])'
    BY <1>2, <1>4, <1>5
  <2>2. main'.at \notin AfterServers
    BY <1>5 DEF AfterServers
  <2>. QED BY <1>5, <2>1, <2>2 DEF ServersGone
<1>6. CASE main'.at = EngineStopped /\ main.server = Len(ServerOrder)
  <2>1. \A p \in Protocols : Quiet(p)'
    BY <1>4, <1>6, OrderFacts
  <2>2. main'.at \notin CancelLoop
    BY <1>1, <1>6, Apart
  <2>. QED BY <1>6, <2>1, <2>2 DEF ServersGone, CancelLoop
<1>. QED BY <1>1, <1>5, <1>6, TurnsOver

LEMMA ServersGoneKept ==
  ASSUME Typed, ServersReached, ServersGone, ProcNext PROVE ServersGone'
<1>. failed' = TRUE \/ (failed = FALSE /\ failed' = FALSE)
  BY FailedTyped DEF Typed
<1>1. CASE ~MainStep /\ ~Signal
  <2>1. UNCHANGED <<main, failed>>
    BY <1>1, OthersLeaveMain
  <2>2. \A p \in Protocols : Quiet(p) => Quiet(p)'
    BY <1>1, QuietStaysQuiet DEF MainStep
  <2>3. \A p \in Protocols : servers'[p].listener = servers[p].listener
    BY <1>1, ListenersKept DEF MainStep
  <2>4. main'.at = "awaitServer" => servers'[ServerTurn'].listener = "closed"
    BY <2>1, <2>3, TurnFacts DEF ServersGone, ServerTurn
  <2>5. main'.at \in CancelLoop => \A j \in 1 .. main'.server - 1 : Quiet(ServerOrder[j])'
    <3>1. \A j \in 1 .. main.server - 1 : j \in DOMAIN ServerOrder
      BY OrderFacts DEF Typed
    <3>. QED BY <2>1, <2>2, <3>1, OrderFacts DEF ServersGone
  <2>6. main'.at \in AfterServers /\ ~failed' => \A p \in Protocols : Quiet(p)'
    BY <2>1, <2>2 DEF ServersGone
  <2>. QED BY <2>4, <2>5, <2>6 DEF ServersGone
<1>2. CASE OpenStore \/ StartRetention \/ StartEngine \/ StartServer \/ NoServers
  BY <1>2, StartsGoOn, Apart DEF ServersGone, CancelLoop
<1>3. CASE Signal
  <2>1. main'.at = "cancelServer" /\ main'.server = 1
    BY <1>3, GoesTo DEF Signal
  <2>2. main'.at \notin AfterServers /\ 1 .. main'.server - 1 = {}
    BY <2>1 DEF AfterServers
  <2>. QED BY <2>1, <2>2 DEF ServersGone
<1>4. CASE CancelServer
  <2>1. ~StartServer /\ UNCHANGED failed /\ ~CloseListener
    BY <1>4 DEF CancelServer, StartServer, CloseListener, Main
  <2>2. CASE ServerTurn \in config.servers
    <3>1. main'.at = "closeListener" /\ main'.server = main.server
      BY <1>4, <2>2 DEF CancelServer, Typed
    <3>2. \A j \in 1 .. main.server - 1 : j \in DOMAIN ServerOrder
      BY OrderFacts DEF Typed
    <3>3. \A j \in 1 .. main.server - 1 : Quiet(ServerOrder[j])'
      BY <1>4, <2>1, <3>2, QuietStaysQuiet, OrderFacts DEF ServersGone, CancelServer, Main, CancelLoop
    <3>. QED BY <3>1, <3>3 DEF ServersGone, AfterServers
  <2>3. CASE ServerTurn \notin config.servers
    <3>1. Quiet(ServerTurn)
      BY <2>3, TurnFacts DEF ServersReached, Quiet
    <3>2. NextServer("cancelServer", EngineStopped) /\ Main("cancelServer")
      BY <1>4, <2>3 DEF CancelServer
    <3>. QED BY <2>1, <3>1, <3>2, TurnLeavesQuiet
  <2>. QED BY <2>2, <2>3
<1>5. CASE CloseListener
  <2>1. ~StartServer /\ main'.at = "awaitServer" /\ main'.server = main.server
    BY <1>5 DEF CloseListener, StartServer, Main, Typed
  <2>2. servers'[ServerTurn'].listener = "closed"
    BY <1>5, <2>1, ListenerCloses DEF ServerTurn
  <2>3. \A j \in 1 .. main.server - 1 : j \in DOMAIN ServerOrder
    BY OrderFacts DEF Typed
  <2>4. \A j \in 1 .. main.server - 1 : Quiet(ServerOrder[j])'
    BY <1>5, <2>1, <2>3, QuietStaysQuiet, OrderFacts DEF ServersGone, CloseListener, Main, CancelLoop
  <2>. QED BY <2>1, <2>2, <2>4 DEF ServersGone, AfterServers
<1>6. CASE AwaitServer
  <2>1. ~StartServer /\ UNCHANGED failed /\ Main("awaitServer")
        /\ NextServer("cancelServer", EngineStopped)
    BY <1>6 DEF AwaitServer, StartServer, Main
  <2>2. servers[ServerTurn].listener = "closed" /\ OpenAt(ServerTurn) = {}
    BY <1>6 DEF AwaitServer, ServersGone, Main
  <2>3. \A c \in Connections : connections[c] # Unconnected => connections[c].server # ServerTurn
    <3>. SUFFICES ASSUME NEW c \in Connections, connections[c] # Unconnected,
                         connections[c].server = ServerTurn
                  PROVE  FALSE
      OBVIOUS
    <3>1. connections[c] \in Open
      BY DEF Typed
    <3>2. connections[c].at = "queued"
      BY <2>2, <3>1 DEF OpenAt, Open
    <3>. QED BY <2>2, <3>2 DEF ServersReached
  <2>4. Quiet(ServerTurn)
    BY <2>2, <2>3 DEF Quiet
  <2>. QED BY <2>1, <2>4, TurnLeavesQuiet
<1>7. CASE StopEngine \/ AwaitEngine \/ StopRetention \/ AwaitRetention \/ CloseStore \/ Exit
  <2>1. ~StartServer
    BY <1>7 DEF StartServer, StopEngine, AwaitEngine, StopRetention, AwaitRetention, CloseStore, Exit, Main
  <2>2. \A p \in Protocols : Quiet(p) => Quiet(p)'
    BY <2>1, QuietStaysQuiet
  <2>. QED BY <1>7, <2>2, StopsGoOn, Apart DEF ServersGone, CancelLoop
<1>. QED BY <1>1, <1>2, <1>3, <1>4, <1>5, <1>6, <1>7 DEF MainStep

LEMMA ServersReachedKept ==
  ASSUME Typed, ServersReached, ServersGone, ProcNext PROVE ServersReached'
<1>. servers \in [Protocols -> Servers] /\ connections \in [Connections -> {Unconnected} \cup Open]
  BY DEF Typed
<1>. config' = config
  BY ConfigIsFixed
<1>1. main'.at \in {"closeListener", "awaitServer"} => ServerTurn' \in config'.servers
  <2>1. CASE ~MainStep /\ ~Signal
    <3>1. UNCHANGED main
      BY <2>1, OthersLeaveMain
    <3>. QED BY <3>1 DEF ServersReached, ServerTurn
  <2>2. CASE OpenStore \/ StartRetention \/ StartEngine \/ StartServer \/ NoServers
    BY <2>2, StartsGoOn DEF Beginning, AfterServers
  <2>3. CASE Signal
    BY <2>3, GoesTo DEF Signal
  <2>4. CASE CancelServer
    <3>1. CASE ServerTurn \in config.servers
      <4>1. main'.server = main.server
        BY <2>4, <3>1 DEF CancelServer, Typed
      <4>. QED BY <3>1, <4>1 DEF ServerTurn
    <3>2. CASE ServerTurn \notin config.servers
      <4>1. main'.at \in {"cancelServer", EngineStopped}
        BY <2>4, <3>2, TurnsTo DEF CancelServer
      <4>. QED BY <4>1 DEF EngineStopped
    <3>. QED BY <3>1, <3>2
  <2>5. CASE CloseListener
    <3>1. main'.server = main.server /\ main.at = "closeListener"
      BY <2>5 DEF CloseListener, Main, Typed
    <3>. QED BY <3>1 DEF ServersReached, ServerTurn
  <2>6. CASE AwaitServer
    <3>1. main'.at \in {"cancelServer", EngineStopped}
      BY <2>6, TurnsTo DEF AwaitServer
    <3>. QED BY <3>1 DEF EngineStopped
  <2>7. CASE StopEngine \/ AwaitEngine \/ StopRetention \/ AwaitRetention \/ CloseStore \/ Exit
    BY <2>7, StopsGoOn DEF AfterServers
  <2>. QED BY <2>1, <2>2, <2>3, <2>4, <2>5, <2>6, <2>7 DEF MainStep
<1>2. \A p \in Protocols \ config'.servers : servers'[p].listener = "none"
  <2>1. CASE StartServer
    BY <2>1, TurnFacts DEF StartServer, ServersReached, Servers
  <2>2. CASE CloseListener
    BY <2>2, ListenerCloses DEF ServersReached, CloseListener, Main
  <2>3. CASE ~StartServer /\ ~CloseListener
    BY <2>3, ListenersKept DEF ServersReached
  <2>. QED BY <2>1, <2>2, <2>3
<1>3. \A p \in Protocols : servers[p].listener # "none" => servers'[p].listener # "none"
  <2>1. CASE StartServer
    BY <2>1, TurnFacts DEF StartServer, Servers
  <2>2. CASE CloseListener
    BY <2>2, ListenerCloses
  <2>3. CASE ~StartServer /\ ~CloseListener
    BY <2>3, ListenersKept
  <2>. QED BY <2>1, <2>2, <2>3
<1>4. \A p \in Protocols : servers[p].listener = "open" /\ ~CloseListener =>
                            servers'[p].listener = "open"
  <2>1. CASE StartServer
    BY <2>1, TurnFacts DEF StartServer, Servers
  <2>2. CASE ~StartServer
    BY <2>2, ListenersKept
  <2>. QED BY <2>1, <2>2
<1>. DEFINE Reached(c) == connections[c] # Unconnected =>
              /\ servers[connections[c].server].listener # "none"
              /\ connections[c].at = "queued" => servers[connections[c].server].listener = "open"
<1>5. \A c \in Connections : Reached(c)'
  <2>0. \A c \in Connections : connections[c] # Unconnected => connections[c].server \in Protocols
    BY DEF Open
  <2>1. CASE CloseListener
    <3>. SUFFICES ASSUME NEW c \in Connections, connections'[c] # Unconnected PROVE Reached(c)'
      OBVIOUS
    <3>1. connections'[c] = connections[c]
      BY <2>1 DEF CloseListener
    <3>2. connections[c].at = "queued" => connections[c].server # ServerTurn
      BY <2>1, <3>1 DEF CloseListener, Open
    <3>. QED BY <1>3, <2>0, <2>1, <3>1, <3>2, ListenerCloses DEF ServersReached
  <2>2. CASE UNCHANGED connections /\ ~CloseListener
    BY <1>3, <1>4, <2>0, <2>2 DEF ServersReached
  <2>3. ASSUME NEW d \in Connections, ConnectionMoves(d), UNCHANGED servers
        PROVE  \A c \in Connections : Reached(c)'
    <3>1. ASSUME NEW q \in Protocols, servers[q].listener = "open",
                 connections' = [connections EXCEPT ![d] = [at |-> "queued", server |-> q]]
          PROVE  \A c \in Connections : Reached(c)'
      BY <2>3, <3>1 DEF ServersReached
    <3>2. ASSUME connections[d].at # "none", NEW at \in {"reading", "routing", "answering"},
                 connections' = [connections EXCEPT ![d].at = at]
          PROVE  \A c \in Connections : Reached(c)'
      <4>1. connections[d] \in Open /\ connections[d] # Unconnected
        BY <3>2 DEF Unconnected
      <4>2. connections'[d].at # "queued" /\ connections'[d].server = connections[d].server
        BY <3>2, <4>1 DEF Open
      <4>3. \A c \in Connections \ {d} : connections'[c] = connections[c]
        BY <3>2
      <4>. QED BY <2>3, <4>1, <4>2, <4>3 DEF ServersReached
    <3>3. ASSUME connections' = [connections EXCEPT ![d] = Unconnected]
          PROVE  \A c \in Connections : Reached(c)'
      BY <2>3, <3>3 DEF ServersReached
    <3>. QED BY <2>3, <3>1, <3>2, <3>3 DEF ConnectionMoves
  <2>. QED BY <2>1, <2>2, <2>3, ConnectionSteps
<1>. QED BY <1>1, <1>2, <1>5 DEF ServersReached

-------------------------------------------------------------------------------
(* Who meets a closed store. *)

LEMMA ClosedStoreIsLeftAlone ==
  ASSUME Typed, ClosedLast, ServersGone, database = "closed", ~failed, NEW c \in Connections
  PROVE  connections[c] = Unconnected
<1>1. main.at \in AfterServers
  BY DEF ClosedLast, AfterServers
<1>2. \A p \in Protocols : Quiet(p)
  BY <1>1 DEF ServersGone
<1>3. connections[c] # Unconnected => connections[c].server \in Protocols
  BY DEF Typed, Open
<1>. QED BY <1>2, <1>3 DEF Quiet

LEMMA LateAreExcusedKept ==
  ASSUME IInv, ProcNext PROVE LateAreExcused'
<1>. Typed /\ LateAreExcused
  BY DEF IInv
<1>0. failed => failed'
  BY FailedTyped
<1>1. CASE UNCHANGED late
  BY <1>0, <1>1 DEF LateAreExcused
<1>2. ASSUME NEW g \in Goroutines, GoroutineUsesStore(g) PROVE LateAreExcused'
  <2>1. Alive /\ goroutines[g] = "busy" /\ UNCHANGED failed /\ Uses(g)
    BY <1>2 DEF GoroutineUsesStore
  <2>2. CASE database = "closed"
    <3>1. main.at = "cancel"
      BY <2>1, <2>2 DEF IInv, ClosedLast, Alive
    <3>2. goroutines["worker"] \in {"none", "exited"} /\ goroutines["reEval"] = "exited"
      BY <3>1 DEF IInv, LoopsGone, AfterEngine
    <3>3. g \in {"relay", "scheduler"}
      BY <2>1, <3>2 DEF Goroutines
    <3>. QED BY <2>1, <2>2, <3>3 DEF LateAreExcused, Uses
  <2>3. CASE database # "closed"
    BY <1>1, <2>1, <2>3 DEF Uses
  <2>. QED BY <2>2, <2>3
<1>3. ASSUME NEW c \in Connections, RouteRequest(c) PROVE LateAreExcused'
  <2>1. connections[c].at = "routing" /\ UNCHANGED failed /\ Uses(connections[c].server)
    BY <1>3 DEF RouteRequest
  <2>2. connections[c] # Unconnected
    BY <2>1 DEF Unconnected
  <2>3. connections[c].server \in Protocols
    BY <2>2 DEF Typed, Open
  <2>4. CASE database = "closed"
    <3>1. failed
      BY <2>2, <2>4, ClosedStoreIsLeftAlone DEF IInv
    <3>. QED BY <2>1, <2>3, <2>4, <3>1 DEF LateAreExcused, Uses
  <2>5. CASE database # "closed"
    BY <1>1, <2>1, <2>5 DEF Uses
  <2>. QED BY <2>4, <2>5
<1>4. \/ UNCHANGED late
      \/ \E g \in Goroutines : GoroutineUsesStore(g)
      \/ \E c \in Connections : RouteRequest(c)
  <2>1. DOMAIN goroutines = Goroutines
    BY DEF Typed
  <2>. QED
    BY <2>1 DEF ProcNext, MainStep, Signal, OpenStore, StartRetention, StartEngine, StartServer,
                NoServers, CancelServer, CloseListener, AwaitServer, StopEngine, AwaitEngine,
                StopRetention, AwaitRetention, CloseStore, Exit, GoroutineBegins, GoroutineExits,
                AcceptorExits, Connect, Accept, HandleConnection, ReadRequest, Answer
<1>. QED BY <1>1, <1>2, <1>3, <1>4

LEMMA InvariantIsKept == ASSUME IInv, [ProcNext]_procVars PROVE IInv'
<1>1. CASE ProcNext
  <2>1. Typed /\ ClosedLast /\ LoopsGone /\ ServersReached /\ ServersGone
    BY DEF IInv
  <2>2. Typed' /\ ClosedLast' /\ LoopsGone'
    BY <1>1, <2>1, TypesAreKept, StoreClosedLast, LoopsEnd
  <2>3. ServersReached' /\ ServersGone'
    BY <1>1, <2>1, ServersReachedKept, ServersGoneKept
  <2>4. LateAreExcused'
    BY <1>1, LateAreExcusedKept
  <2>. QED BY <2>2, <2>3, <2>4 DEF IInv
<1>2. CASE UNCHANGED procVars
  BY <1>2 DEF procVars, IInv, Typed, ClosedLast, LoopsGone, ServersReached, ServersGone, Quiet,
              LateAreExcused, ServerTurn
<1>. QED BY <1>1, <1>2

LEMMA InvariantSuffices == ASSUME IInv PROVE StoreOutlivesItsUsers
<1>1. database = "closed" /\ ~failed => \A c \in Connections : connections[c] = Unconnected
  BY ClosedStoreIsLeftAlone DEF IInv
<1>. QED BY <1>1 DEF IInv, LateAreExcused, StoreOutlivesItsUsers, Unconnected

\* For any number of connections, any order of the servers and any configuration,
\* nobody but the goroutines that no Stop waits for meets a closed store, and when
\* every server was started each accepted request has been answered by then (run,
\* and Stop and acceptConnections of the servers).
THEOREM StoreIsClosedLast == ProcSpec => []StoreOutlivesItsUsers
<1>1. ProcInit => IInv
  BY InitEstablishes
<1>2. IInv /\ [ProcNext]_procVars => IInv'
  BY InvariantIsKept
<1>3. IInv => StoreOutlivesItsUsers
  BY InvariantSuffices
<1>. QED BY <1>1, <1>2, <1>3, PTL DEF ProcSpec

LEMMA DatabaseTyped ==
  ASSUME database \in {"none", "open", "closed"}, [ProcNext]_procVars
  PROVE  database' \in {"none", "open", "closed"}
<1>1. CASE MainStep \/ Signal
  BY <1>1 DEF MainStep, Signal, OpenStore, StartRetention, StartEngine, StartServer, NoServers,
              CancelServer, CloseListener, AwaitServer, StopEngine, AwaitEngine, StopRetention,
              AwaitRetention, CloseStore, Exit
<1>2. CASE \E g \in DOMAIN goroutines : GoroutineBegins(g) \/ GoroutineUsesStore(g) \/ GoroutineExits(g)
  BY <1>2 DEF GoroutineBegins, GoroutineUsesStore, GoroutineExits
<1>3. CASE \E p \in Protocols : AcceptorExits(p) \/ \E c \in Connections : Connect(c, p)
  BY <1>3 DEF AcceptorExits, Connect
<1>4. CASE \E c \in Connections : Accept(c) \/ HandleConnection(c)
  BY <1>4 DEF Accept, HandleConnection, ReadRequest, RouteRequest, Answer
<1>. QED BY <1>1, <1>2, <1>3, <1>4 DEF ProcNext, procVars

\* Every connection belongs to a server that the configuration asks for, and no
\* goroutine is anywhere else than its loop says (run, Start and acceptConnections).
THEOREM ProcessTypes == ProcSpec => []ProcTypeOK
<1>. DEFINE DatabaseOK == database \in {"none", "open", "closed"}
<1>1. ProcInit => IInv /\ DatabaseOK
  BY InitEstablishes DEF ProcInit, ProcStart
<1>2. (IInv /\ DatabaseOK) /\ [ProcNext]_procVars => (IInv /\ DatabaseOK)'
  BY InvariantIsKept, DatabaseTyped
<1>3. IInv /\ DatabaseOK => ProcTypeOK
  <2>. SUFFICES ASSUME IInv, DatabaseOK PROVE ProcTypeOK
    OBVIOUS
  <2>1. ASSUME NEW c \in Connections, connections[c].at # "none"
        PROVE  connections[c].server \in config.servers
    <3>1. connections[c] # Unconnected /\ connections[c].server \in Protocols
      BY <2>1 DEF IInv, Typed, Unconnected, Open
    <3>. QED BY <3>1 DEF IInv, ServersReached
  <2>2. \A g \in DOMAIN goroutines : goroutines[g] \in {"none", "idle", "busy", "exited"}
    BY DEF IInv, Typed
  <2>3. main.server \in DOMAIN ServerOrder
    BY DEF IInv, Typed
  <2>. QED BY <2>1, <2>2, <2>3 DEF ProcTypeOK
<1>. QED BY <1>1, <1>2, <1>3, PTL DEF ProcSpec

-------------------------------------------------------------------------------
(* The static exporters: what a query of the store returns. *)

\* No two of the events were created at the same place of the order.
Distinct(S) ==
  /\ \A e \in S : e.created \in Nat
  /\ \A e, f \in S : e.created = f.created => e = f

Newer(S, e) == {f \in S : f.created > e.created}

LEMMA NewerCounts ==
  ASSUME NEW S, IsFiniteSet(S), Distinct(S), NEW e \in S
  PROVE  /\ IsFiniteSet(Newer(S, e)) /\ Newer(S, e) \subseteq S
         /\ Cardinality(Newer(S, e)) \in 0 .. Cardinality(S) - 1
<1>1. Newer(S, e) \subseteq S \ {e}
  BY DEF Newer, Distinct
<1>2. IsFiniteSet(S \ {e}) /\ Cardinality(S \ {e}) = Cardinality(S) - 1
  BY FS_RemoveElement
<1>3. /\ IsFiniteSet(Newer(S, e))
      /\ Cardinality(Newer(S, e)) <= Cardinality(S \ {e})
  BY <1>1, <1>2, FS_Subset
<1>4. Cardinality(Newer(S, e)) \in Nat /\ Cardinality(S) \in Nat
  BY <1>3, FS_CardinalityType
<1>. QED BY <1>1, <1>2, <1>3, <1>4

LEMMA NewerFollowsOrder ==
  ASSUME NEW S, IsFiniteSet(S), Distinct(S), NEW e \in S, NEW f \in S, e.created > f.created
  PROVE  Cardinality(Newer(S, e)) < Cardinality(Newer(S, f))
<1>1. Newer(S, e) \subseteq Newer(S, f) \ {e}
  BY DEF Newer, Distinct
<1>2. e \in Newer(S, f)
  BY DEF Newer
<1>3. IsFiniteSet(Newer(S, f)) /\ Cardinality(Newer(S, f)) \in Nat
  BY NewerCounts, FS_CardinalityType
<1>4. IsFiniteSet(Newer(S, f) \ {e}) /\ Cardinality(Newer(S, f) \ {e}) = Cardinality(Newer(S, f)) - 1
  BY <1>2, <1>3, FS_RemoveElement
<1>5. Cardinality(Newer(S, e)) <= Cardinality(Newer(S, f) \ {e})
  BY <1>1, <1>4, FS_Subset
<1>6. Cardinality(Newer(S, e)) \in Nat
  BY NewerCounts, FS_CardinalityType
<1>. QED BY <1>3, <1>4, <1>5, <1>6

LEMMA NewerTellsApart ==
  ASSUME NEW S, IsFiniteSet(S), Distinct(S), NEW e \in S, NEW f \in S,
         Cardinality(Newer(S, e)) = Cardinality(Newer(S, f))
  PROVE  e = f
<1>1. Cardinality(Newer(S, e)) \in Nat /\ Cardinality(Newer(S, f)) \in Nat
  BY NewerCounts, FS_CardinalityType
<1>2. ~(e.created > f.created) /\ ~(f.created > e.created)
  BY <1>1, NewerFollowsOrder
<1>. QED BY <1>2 DEF Distinct

\* Each event stands at the place that those newer than it leave.
LEMMA NewestFirstPlaces ==
  ASSUME NEW S, IsFiniteSet(S), Distinct(S)
  PROVE  /\ NewestFirst(S) \in Seq(S) /\ Len(NewestFirst(S)) = Cardinality(S)
         /\ \A e \in S : /\ Cardinality(Newer(S, e)) + 1 \in 1 .. Len(NewestFirst(S))
                         /\ NewestFirst(S)[Cardinality(Newer(S, e)) + 1] = e
<1>. DEFINE size == Cardinality(S)
            place == [e \in S |-> Cardinality(Newer(S, e)) + 1]
            Placed(n) == CHOOSE e \in S : Cardinality(Newer(S, e)) = n - 1
<1>0. size \in Nat
  BY FS_CardinalityType
<1>1. place \in [S -> 1 .. size]
  BY <1>0, NewerCounts
<1>2. \A e, f \in S : place[e] = place[f] => e = f
  <2>. SUFFICES ASSUME NEW e \in S, NEW f \in S, place[e] = place[f] PROVE e = f
    OBVIOUS
  <2>1. Cardinality(Newer(S, e)) \in Nat /\ Cardinality(Newer(S, f)) \in Nat
    BY NewerCounts, FS_CardinalityType
  <2>2. Cardinality(Newer(S, e)) = Cardinality(Newer(S, f))
    BY <2>1
  <2>. QED BY <2>2, NewerTellsApart
<1>3. place \in Injection(S, 1 .. size)
  BY <1>1, <1>2 DEF Injection, IsInjective
<1>4. IsFiniteSet(1 .. size) /\ Cardinality(1 .. size) = size
  BY <1>0, FS_Interval
<1>. HIDE DEF place
<1>5. place \in Surjection(S, 1 .. size)
  BY <1>3, <1>4, FS_Injection
<1>6. \A n \in 1 .. size : \E e \in S : Cardinality(Newer(S, e)) = n - 1
  <2>. SUFFICES ASSUME NEW n \in 1 .. size PROVE \E e \in S : Cardinality(Newer(S, e)) = n - 1
    OBVIOUS
  <2>1. PICK e \in S : place[e] = n
    BY <1>5 DEF Surjection
  <2>2. Cardinality(Newer(S, e)) \in Nat
    BY NewerCounts, FS_CardinalityType
  <2>. QED BY <2>1, <2>2 DEF place
<1>7. \A n \in 1 .. size : Placed(n) \in S /\ Cardinality(Newer(S, Placed(n))) = n - 1
  BY <1>6
<1>8. NewestFirst(S) = [n \in 1 .. size |-> Placed(n)]
  BY DEF NewestFirst, Ranked, Newer
<1>. HIDE DEF Placed
<1>9. NewestFirst(S) \in Seq(S) /\ Len(NewestFirst(S)) = size
  BY <1>0, <1>7, <1>8
<1>10. ASSUME NEW e \in S
       PROVE  /\ Cardinality(Newer(S, e)) + 1 \in 1 .. size
              /\ NewestFirst(S)[Cardinality(Newer(S, e)) + 1] = e
  <2>1. Cardinality(Newer(S, e)) \in Nat /\ Cardinality(Newer(S, e)) + 1 \in 1 .. size
    BY <1>0, NewerCounts
  <2>. DEFINE n == Cardinality(Newer(S, e)) + 1
  <2>2. Placed(n) \in S /\ Cardinality(Newer(S, Placed(n))) = Cardinality(Newer(S, e))
    BY <1>7, <2>1
  <2>3. Placed(n) = e
    BY <2>2, NewerTellsApart
  <2>. QED BY <1>8, <2>1, <2>3
<1>. QED BY <1>9, <1>10

\* What is left of the events when the newest are taken.
LEMMA NewestKept ==
  ASSUME NEW S, IsFiniteSet(S), Distinct(S), NEW limit \in Nat
  PROVE  /\ Cut(NewestFirst(S), limit) \in Seq(S)
         /\ \A e \in S : Cardinality(Newer(S, e)) < limit =>
              \E i \in DOMAIN Cut(NewestFirst(S), limit) : Cut(NewestFirst(S), limit)[i] = e
<1>. DEFINE all == NewestFirst(S)
            n == Smaller(Len(all), limit)
<1>1. all \in Seq(S) /\ Len(all) \in Nat
  BY NewestFirstPlaces
<1>2. /\ \A e \in S : /\ Cardinality(Newer(S, e)) + 1 \in 1 .. Len(all)
                      /\ all[Cardinality(Newer(S, e)) + 1] = e
  BY NewestFirstPlaces
<1>. HIDE DEF all
<1>3. n \in Nat /\ n <= Len(all) /\ n <= limit /\ (n = Len(all) \/ n = limit)
  BY <1>1 DEF Smaller
<1>4. Cut(all, limit) = SubSeq(all, 1, n)
  BY DEF Cut
<1>. HIDE DEF n
<1>5. SubSeq(all, 1, n) \in Seq(S) /\ Len(SubSeq(all, 1, n)) = n
      /\ \A i \in 1 .. n : SubSeq(all, 1, n)[i] = all[i]
  BY <1>1, <1>3
<1>6. ASSUME NEW e \in S, Cardinality(Newer(S, e)) < limit
      PROVE  \E i \in DOMAIN SubSeq(all, 1, n) : SubSeq(all, 1, n)[i] = e
  <2>. DEFINE i == Cardinality(Newer(S, e)) + 1
  <2>1. Cardinality(Newer(S, e)) \in Nat
    BY NewerCounts, FS_CardinalityType
  <2>2. i \in 1 .. n /\ all[i] = e
    BY <1>1, <1>2, <1>3, <1>6, <2>1
  <2>3. i \in DOMAIN SubSeq(all, 1, n)
    BY <1>5, <2>2
  <2>. QED BY <1>5, <2>2, <2>3
<1>. QED BY <1>4, <1>5, <1>6 DEF all

-------------------------------------------------------------------------------
(* The inductive invariant of the exporters. *)

Tops == {<< >>, <<"notes">>, <<"articles">>}

Pages == {<<section, id>> : section \in {"notes", "articles"}, id \in DOMAIN Post}

\* Inside the mutex; with the notes, and the articles too, in hand; writing; and with
\* the index of the notes written.
Busy == {"notes", "articles", "root", "noteIndex", "articleIndex", "pages"}
NotesRead == Busy \ {"notes"}
ArticlesRead == NotesRead \ {"articles"}
Writing == ArticlesRead \ {"root"}
NotesListed == Writing \ {"noteIndex"}

Job == [pc: Busy \cup {"idle", "handle", "lock"}, turn: 0 .. Len(Exporters),
        id: DOMAIN Post \cup {Nobody}, notes: Seq(Events(DOMAIN Post)),
        articles: Seq(Events(DOMAIN Post)), todo: Seq(Pages)]

ExportTyped ==
  /\ posts \subseteq DOMAIN Post /\ pruned \subseteq DOMAIN Post
  /\ DOMAIN files = Sites
  /\ mutex \in [Sites -> ExportWorkers \cup {Nobody}]
  /\ jobs \in [ExportWorkers -> Job]
  /\ mishaps \in 0 .. MaxMishaps
  /\ exported \in [Sites -> SUBSET DOMAIN Post]
  /\ intact \in [Sites -> BOOLEAN]

\* A worker inside an exporter holds its mutex, and only an event of the owner brings
\* it there.
Held(w) ==
  /\ jobs[w].pc # "idle" => jobs[w].turn \in DOMAIN Exporters /\ jobs[w].id \in posts \cup pruned
  /\ jobs[w].pc \notin {"idle", "handle"} => isOwnerRootEvent(Post[jobs[w].id])
  /\ jobs[w].pc \in Busy => mutex[SiteOf(w)] = w

ExportedRoots(s) == \A id \in exported[s] : id \in posts \cup pruned /\ isOwnerRootEvent(Post[id])

\* What a site is to list of a kind when the export of the worker is done.
Promised(w, kind) ==
  {id \in (exported[SiteOf(w)] \cup {jobs[w].id}) \ pruned : Post[id].kind = kind /\ Due(Post[id])}

\* A worker has in hand what its site is to list, however the store changed since.
InHand(w) ==
  /\ jobs[w].pc \in NotesRead => \A id \in Promised(w, 1) :
       \E i \in DOMAIN jobs[w].notes : jobs[w].notes[i] = Post[id]
  /\ jobs[w].pc \in ArticlesRead => \A id \in Promised(w, 30023) :
       \E i \in DOMAIN jobs[w].articles : jobs[w].articles[i] = Post[id]

Written(s, path, links) == path \in DOMAIN files[s] /\ files[s][path] = links

\* A page that is on the site or about to be.
Comes(w, path) ==
  path \in DOMAIN files[SiteOf(w)] \/ \E i \in DOMAIN jobs[w].todo : jobs[w].todo[i] = path

\* What a worker has written is what it read.
WrittenSoFar(w) ==
  /\ jobs[w].pc \in Writing =>
       /\ intact[SiteOf(w)] = FALSE
       /\ Written(SiteOf(w), << >>, RootIndex(jobs[w].notes, jobs[w].articles))
  /\ jobs[w].pc \in NotesListed =>
       Written(SiteOf(w), <<"notes">>, SectionIndex("notes", jobs[w].notes))
  /\ jobs[w].pc = "pages" =>
       /\ Written(SiteOf(w), <<"articles">>, SectionIndex("articles", jobs[w].articles))
       /\ \A i \in DOMAIN jobs[w].notes : Comes(w, <<"notes", jobs[w].notes[i].id>>)
       /\ \A i \in DOMAIN jobs[w].articles : Comes(w, <<"articles", jobs[w].articles[i].id>>)

\* A page comes after the three files above it, and no file is removed.
PagesBelowTops(s) ==
  \A path \in DOMAIN files[s] \ Tops :
    path \in Pages /\ Written(s, path, PageLinks(s, path[1])) /\ Tops \subseteq DOMAIN files[s]

\* SiteListsNewestRoots, site by site.
LinksLead(s) ==
  \A path \in DOMAIN files[s] : \A i \in DOMAIN files[s][path] : files[s][path][i] \in DOMAIN files[s]

ListsPromised(s) ==
  \A id \in exported[s] \ pruned : Due(Post[id]) =>
    /\ <<SectionOf(Post[id]), id>> \in Listed(s, SectionOf(Post[id]))
    /\ \E i \in DOMAIN files[s][<< >>] : files[s][<< >>][i] = <<SectionOf(Post[id])>>

ListsNewest(s) == intact[s] = TRUE => LinksLead(s) /\ ListsPromised(s)

ExportIInv ==
  /\ ExportTyped
  /\ \A w \in ExportWorkers : Held(w) /\ InHand(w) /\ WrittenSoFar(w)
  /\ \A s \in Sites : ExportedRoots(s) /\ PagesBelowTops(s) /\ ListsNewest(s)

-------------------------------------------------------------------------------
(* What an export lists. *)

\* The owner's events of the kind that are newer than e, among those with the ids.
Crowd(ids, e) == {f \in Events(ids) : f.kind = e.kind /\ f.author = Owner /\ f.created > e.created}

HasPlace(ids, e) ==
  /\ Cardinality({f \in Crowd(ids, e) : isRootEvent(f)}) < MaxItems
  /\ Cardinality(Crowd(ids, e)) < Smaller(2 * MaxItems, EngineLimit)

LEMMA DueIsPlace ==
  ASSUME NEW e PROVE Due(e) <=> HasPlace(posts \cup pruned, e)
BY DEF Due, HasPlace, Crowd

LEMMA FewEvents ==
  ASSUME NEW S, S \subseteq Events(DOMAIN Post)
  PROVE  IsFiniteSet(S) /\ Distinct(S)
<1>1. IsFiniteSet(Events(DOMAIN Post))
  BY ExportAssumption DEF Events
<1>2. Distinct(Events(DOMAIN Post))
  BY ExportAssumption DEF Events, Distinct
<1>. QED BY <1>1, <1>2, FS_Subset DEF Distinct

LEMMA MoreCrowdLess ==
  ASSUME NEW A, NEW B, A \subseteq B, B \subseteq DOMAIN Post, NEW e, HasPlace(B, e)
  PROVE  HasPlace(A, e)
<1>1. /\ Crowd(A, e) \subseteq Crowd(B, e) /\ Crowd(B, e) \subseteq Events(DOMAIN Post)
      /\ {f \in Crowd(A, e) : isRootEvent(f)} \subseteq {f \in Crowd(B, e) : isRootEvent(f)}
      /\ {f \in Crowd(B, e) : isRootEvent(f)} \subseteq Events(DOMAIN Post)
  BY DEF Crowd, Events
<1>. DEFINE roots(S) == {f \in Crowd(S, e) : isRootEvent(f)}
<1>. HIDE DEF roots
<1>2. roots(A) \subseteq roots(B) /\ roots(B) \subseteq Events(DOMAIN Post)
  BY <1>1 DEF roots
<1>3. IsFiniteSet(Crowd(B, e)) /\ IsFiniteSet(roots(B))
  BY <1>1, <1>2, FewEvents
<1>4. /\ IsFiniteSet(Crowd(A, e)) /\ IsFiniteSet(roots(A))
      /\ Cardinality(Crowd(A, e)) <= Cardinality(Crowd(B, e))
      /\ Cardinality(roots(A)) <= Cardinality(roots(B))
  BY <1>1, <1>2, <1>3, FS_Subset
<1>5. /\ Cardinality(Crowd(A, e)) \in Nat /\ Cardinality(Crowd(B, e)) \in Nat
      /\ Cardinality(roots(A)) \in Nat /\ Cardinality(roots(B)) \in Nat
  BY <1>3, <1>4, FS_CardinalityType
<1>6. Smaller(2 * MaxItems, EngineLimit) \in Nat
  BY ExportAssumption DEF Smaller
<1>7. Cardinality(roots(B)) < MaxItems /\ Cardinality(Crowd(B, e)) < Smaller(2 * MaxItems, EngineLimit)
  BY DEF HasPlace, roots
<1>8. Cardinality(roots(A)) < MaxItems /\ Cardinality(Crowd(A, e)) < Smaller(2 * MaxItems, EngineLimit)
  BY <1>4, <1>5, <1>6, <1>7, ExportAssumption
<1>. QED BY <1>8 DEF HasPlace, roots

\* The listing holds stored events only, and every root of the owner that newer
\* events leave a place.
LEMMA RootsAreListed ==
  ASSUME NEW ids, ids \subseteq DOMAIN Post, NEW kind
  PROVE  /\ queryOwnerRoots(Events(ids), kind) \in Seq(Events(DOMAIN Post))
         /\ \A e \in Events(ids) :
              e.kind = kind /\ isOwnerRootEvent(e) /\ HasPlace(ids, e) =>
                \E i \in DOMAIN queryOwnerRoots(Events(ids), kind) :
                  queryOwnerRoots(Events(ids), kind)[i] = e
<1>. DEFINE filter == [Everything EXCEPT !.kinds = {kind}, !.authors = {Owner}, !.limit = 2 * MaxItems]
            found == {e \in Events(ids) : Matches(e, filter)}
            limit == Smaller(2 * MaxItems, EngineLimit)
            asked == Cut(NewestFirst(found), limit)
            roots == {asked[i] : i \in {j \in DOMAIN asked : isRootEvent(asked[j])}}
<1>1. limit \in Nat /\ MaxItems \in Nat
  BY ExportAssumption DEF Smaller
<1>2. filter.limit = 2 * MaxItems /\ ~(filter.limit < 1)
  BY ExportAssumption DEF Everything
<1>3. QueryEvents(Events(ids), filter) = asked
  BY <1>2 DEF QueryEvents
<1>4. queryOwnerRoots(Events(ids), kind) = Cut(NewestFirst(roots), MaxItems)
  BY <1>3 DEF queryOwnerRoots
<1>5. \A e \in Events(ids) : Matches(e, filter) <=> e.kind = kind /\ e.author = Owner
  BY DEF Matches, Admits, Everything, NoTime
<1>6. found = {e \in Events(ids) : e.kind = kind /\ e.author = Owner}
  BY <1>5
<1>. HIDE DEF filter, limit
<1>7. Events(ids) \subseteq Events(DOMAIN Post)
  BY DEF Events
<1>8. found \subseteq Events(DOMAIN Post)
  BY <1>7
<1>. HIDE DEF found
<1>9. IsFiniteSet(found) /\ Distinct(found)
  BY <1>8, FewEvents
<1>10. /\ asked \in Seq(found)
       /\ \A e \in found : Cardinality(Newer(found, e)) < limit => \E i \in DOMAIN asked : asked[i] = e
  BY <1>1, <1>9, NewestKept
<1>. HIDE DEF asked
<1>11. roots \subseteq found /\ \A e \in roots : isRootEvent(e)
  BY <1>10
<1>12. \A e \in found : isRootEvent(e) /\ Cardinality(Newer(found, e)) < limit => e \in roots
  BY <1>10
<1>. HIDE DEF roots
<1>13. IsFiniteSet(roots) /\ Distinct(roots) /\ roots \subseteq Events(DOMAIN Post)
  BY <1>8, <1>11, FewEvents
<1>. DEFINE kept == Cut(NewestFirst(roots), MaxItems)
<1>14. /\ kept \in Seq(roots)
       /\ \A e \in roots : Cardinality(Newer(roots, e)) < MaxItems => \E i \in DOMAIN kept : kept[i] = e
  BY <1>1, <1>13, NewestKept
<1>. HIDE DEF kept
<1>15. kept \in Seq(Events(DOMAIN Post))
  BY <1>13, <1>14
<1>16. ASSUME NEW e \in Events(ids), e.kind = kind, isOwnerRootEvent(e), HasPlace(ids, e)
       PROVE  \E i \in DOMAIN kept : kept[i] = e
  <2>1. e \in found /\ isRootEvent(e)
    BY <1>6, <1>16 DEF isOwnerRootEvent
  <2>2. Newer(found, e) = Crowd(ids, e)
    BY <1>6, <1>16 DEF Newer, Crowd
  <2>3. e \in roots
    BY <1>12, <1>16, <2>1, <2>2 DEF HasPlace, limit
  <2>4. Newer(roots, e) \subseteq {f \in Crowd(ids, e) : isRootEvent(f)}
    BY <1>11, <2>2 DEF Newer
  <2>. DEFINE crowd == {f \in Crowd(ids, e) : isRootEvent(f)}
  <2>5. crowd \subseteq Events(DOMAIN Post)
    BY <1>7 DEF Crowd
  <2>6. Cardinality(crowd) < MaxItems
    BY <1>16 DEF HasPlace
  <2>. HIDE DEF crowd
  <2>7. IsFiniteSet(crowd) /\ Newer(roots, e) \subseteq crowd
    BY <2>4, <2>5, FewEvents DEF crowd
  <2>8. IsFiniteSet(Newer(roots, e)) /\ Cardinality(Newer(roots, e)) <= Cardinality(crowd)
    BY <2>7, FS_Subset
  <2>9. Cardinality(Newer(roots, e)) < MaxItems
    BY <1>1, <2>6, <2>7, <2>8, FS_CardinalityType
  <2>. QED BY <1>14, <2>3, <2>9
<1>. QED BY <1>4, <1>15, <1>16 DEF kept

-------------------------------------------------------------------------------
(* What a step that happens elsewhere leaves as it was. *)

\* Ids are only ever added to those seen, and to those removed.
StoreMoves == posts \cup pruned \subseteq posts' \cup pruned' /\ pruned \subseteq pruned'

\* Nothing about the site has changed.
SiteStays(s) == files'[s] = files[s] /\ exported'[s] = exported[s] /\ intact'[s] = intact[s]

LEMMA DueIsPlaceNext ==
  ASSUME NEW e PROVE Due(e)' <=> HasPlace(posts' \cup pruned', e)
BY DEF Due, HasPlace, Crowd

LEMMA DueBefore ==
  ASSUME ExportTyped', StoreMoves, NEW e, Due(e)'
  PROVE  Due(e)
<1>1. posts' \cup pruned' \subseteq DOMAIN Post
  BY DEF ExportTyped
<1>2. HasPlace(posts' \cup pruned', e)
  BY DueIsPlaceNext
<1>. DEFINE A == posts \cup pruned
            B == posts' \cup pruned'
<1>3. A \subseteq B /\ B \subseteq DOMAIN Post /\ HasPlace(B, e)
  BY <1>1, <1>2 DEF StoreMoves
<1>. HIDE DEF A, B
<1>4. HasPlace(A, e)
  BY <1>3, MoreCrowdLess
<1>. QED BY <1>4, DueIsPlace DEF A

LEMMA PromisesKept ==
  ASSUME ExportTyped', StoreMoves, NEW w, jobs'[w] = jobs[w],
         exported'[SiteOf(w)] = exported[SiteOf(w)], InHand(w)
  PROVE  InHand(w)'
<1>1. SiteOf(w)' = SiteOf(w)
  BY DEF SiteOf
<1>2. \A kind : Promised(w, kind)' \subseteq Promised(w, kind)
  <2>. SUFFICES ASSUME NEW kind, NEW id \in Promised(w, kind)' PROVE id \in Promised(w, kind)
    OBVIOUS
  <2>1. /\ id \in (exported[SiteOf(w)] \cup {jobs[w].id}) \ pruned'
        /\ Post[id].kind = kind /\ Due(Post[id])'
    BY <1>1 DEF Promised
  <2>2. Due(Post[id])
    BY <2>1, DueBefore
  <2>. QED BY <2>1, <2>2 DEF Promised, StoreMoves
<1>. QED BY <1>2 DEF InHand

LEMMA WorkKept ==
  ASSUME NEW w, jobs'[w] = jobs[w], files'[SiteOf(w)] = files[SiteOf(w)],
         intact'[SiteOf(w)] = intact[SiteOf(w)], WrittenSoFar(w)
  PROVE  WrittenSoFar(w)'
<1>1. SiteOf(w)' = SiteOf(w)
  BY DEF SiteOf
<1>. QED BY <1>1 DEF WrittenSoFar, Written, Comes

LEMMA RootsKept ==
  ASSUME StoreMoves, NEW s, exported'[s] = exported[s], ExportedRoots(s)
  PROVE  ExportedRoots(s)'
BY DEF ExportedRoots, StoreMoves

LEMMA SiteKept ==
  ASSUME ExportTyped', StoreMoves, NEW s, SiteStays(s),
         ExportedRoots(s), PagesBelowTops(s), ListsNewest(s)
  PROVE  ExportedRoots(s)' /\ PagesBelowTops(s)' /\ ListsNewest(s)'
<1>1. ExportedRoots(s)'
  BY RootsKept DEF SiteStays
<1>2. PagesBelowTops(s)'
  BY DEF PagesBelowTops, Written, SiteStays
<1>3. LinksLead(s) => LinksLead(s)'
  BY DEF LinksLead, SiteStays
<1>4. ListsPromised(s) => ListsPromised(s)'
  <2>. SUFFICES ASSUME ListsPromised(s), NEW id \in exported'[s] \ pruned', Due(Post[id])'
                PROVE  /\ <<SectionOf(Post[id]), id>> \in Listed(s, SectionOf(Post[id]))'
                       /\ \E i \in DOMAIN files'[s][<< >>] : files'[s][<< >>][i] = <<SectionOf(Post[id])>>
    BY DEF ListsPromised
  <2>1. id \in exported[s] \ pruned /\ Due(Post[id])
    BY DueBefore DEF SiteStays, StoreMoves
  <2>. QED BY <2>1 DEF ListsPromised, SiteStays, Listed
<1>. QED BY <1>1, <1>2, <1>3, <1>4 DEF ListsNewest, SiteStays

-------------------------------------------------------------------------------
(* Types of the exporters. *)

\* A worker that is about to enter the exporter of a turn.
Arrival(turn, id) == [NoJob EXCEPT !.pc = "handle", !.turn = turn, !.id = id]

LEMMA ArrivalTyped ==
  ASSUME NEW turn \in DOMAIN Exporters, NEW id \in DOMAIN Post \cup {Nobody}
  PROVE  /\ Arrival(turn, id) \in Job /\ Arrival(turn, id).pc = "handle"
         /\ Arrival(turn, id).turn = turn /\ Arrival(turn, id).id = id
<1>. DEFINE job == Arrival(turn, id)
<1>1. turn \in 0 .. Len(Exporters)
  BY ExportAssumption
<1>2. NoJob \in [pc: {"idle", "handle"}, turn: 0 .. Len(Exporters), id: DOMAIN Post \cup {Nobody},
                 notes: Seq(Events(DOMAIN Post)), articles: Seq(Events(DOMAIN Post)), todo: Seq(Pages)]
  BY ExportAssumption DEF NoJob
<1>3. job \in [pc: {"idle", "handle"}, turn: 0 .. Len(Exporters), id: DOMAIN Post \cup {Nobody},
               notes: Seq(Events(DOMAIN Post)), articles: Seq(Events(DOMAIN Post)), todo: Seq(Pages)]
  BY <1>1, <1>2 DEF Arrival
<1>4. job.pc = "handle" /\ job.turn = turn /\ job.id = id
  BY <1>1, <1>2 DEF Arrival
<1>. QED BY <1>3, <1>4 DEF Job

LEMMA TopsTyped ==
  /\ NoJob \in Job
  /\ \A e, f \in Sites : {e, f} \subseteq Sites
  /\ \A w \in ExportWorkers : ExportTyped /\ jobs[w].turn \in DOMAIN Exporters => SiteOf(w) \in Sites
<1>1. NoJob \in Job
  BY ExportAssumption DEF NoJob, Job, Busy
<1>. QED BY <1>1 DEF Sites, SiteOf

\* Where a worker goes when it leaves an exporter.
LEMMA LeavingTyped ==
  ASSUME ExportTyped, NEW w \in ExportWorkers, Held(w), jobs[w].pc # "idle", Leaves(w)
  PROVE  /\ jobs' \in [ExportWorkers -> Job]
         /\ \A v \in ExportWorkers \ {w} : jobs'[v] = jobs[v]
         /\ jobs'[w].pc \in {"idle", "handle"}
         /\ jobs'[w].pc = "handle" => jobs'[w].turn \in DOMAIN Exporters /\ jobs'[w].id = jobs[w].id
<1>. DEFINE turn == jobs[w].turn + 1
            id == jobs[w].id
            next == Arrival(turn, id)
<1>1. jobs[w] \in Job /\ jobs[w].turn \in DOMAIN Exporters /\ Len(Exporters) \in Nat
      /\ DOMAIN Exporters = 1 .. Len(Exporters)
  BY ExportAssumption DEF ExportTyped, Held
<1>2. jobs[w].id \in DOMAIN Post \cup {Nobody}
  BY <1>1 DEF Job
<1>3. ASSUME jobs[w].turn < Len(Exporters)
      PROVE  next \in Job /\ next.pc = "handle" /\ next.turn \in DOMAIN Exporters /\ next.id = jobs[w].id
  <2>1. turn \in DOMAIN Exporters /\ id \in DOMAIN Post \cup {Nobody}
    BY <1>1, <1>2, <1>3
  <2>. HIDE DEF turn, id
  <2>2. next \in Job /\ next.pc = "handle" /\ next.turn = turn /\ next.id = id
    BY <2>1, ArrivalTyped
  <2>. QED BY <2>1, <2>2 DEF id
<1>4. NoJob \in Job /\ NoJob.pc = "idle"
  BY TopsTyped DEF NoJob
<1>5. jobs' = [jobs EXCEPT ![w] = IF jobs[w].turn < Len(Exporters) THEN next ELSE NoJob]
  BY DEF Leaves, Arrival
<1>6. jobs \in [ExportWorkers -> Job]
  BY DEF ExportTyped
<1>. HIDE DEF next
<1>7. CASE jobs[w].turn < Len(Exporters)
  <2>1. jobs' = [jobs EXCEPT ![w] = next]
    BY <1>5, <1>7
  <2>. QED BY <1>3, <1>6, <1>7, <2>1
<1>8. CASE ~(jobs[w].turn < Len(Exporters))
  <2>1. jobs' = [jobs EXCEPT ![w] = NoJob]
    BY <1>5, <1>8
  <2>. QED BY <1>4, <1>6, <2>1
<1>. QED BY <1>7, <1>8

LEMMA PagesNamed ==
  ASSUME NEW events \in Seq(Events(DOMAIN Post)), NEW section \in {"notes", "articles"}
  PROVE  /\ SectionIndex(section, events) \in Seq(Pages)
         /\ DOMAIN SectionIndex(section, events) = DOMAIN events
         /\ \A i \in DOMAIN events : SectionIndex(section, events)[i] = <<section, events[i].id>>
<1>1. \A i \in DOMAIN events : events[i].id \in DOMAIN Post
  BY ExportAssumption DEF Events
<1>2. \A i \in DOMAIN events : <<section, events[i].id>> \in Pages
  BY <1>1 DEF Pages
<1>. QED BY <1>2 DEF SectionIndex

\* A job stays one when some of its fields are set.
LEMMA JobChanges ==
  ASSUME NEW job \in Job
  PROVE  /\ \A pc \in Busy \cup {"idle", "handle", "lock"} :
              /\ [job EXCEPT !.pc = pc] \in Job
              /\ \A list \in Seq(Events(DOMAIN Post)) :
                   /\ [job EXCEPT !.pc = pc, !.notes = list] \in Job
                   /\ [job EXCEPT !.pc = pc, !.articles = list] \in Job
              /\ \A todo \in Seq(Pages) : [job EXCEPT !.pc = pc, !.todo = todo] \in Job
         /\ \A todo \in Seq(Pages) : [job EXCEPT !.todo = todo] \in Job
<1>. DEFINE pcs == Busy \cup {"idle", "handle", "lock"}
            turns == 0 .. Len(Exporters)
            ids == DOMAIN Post \cup {Nobody}
            lists == Seq(Events(DOMAIN Post))
            todos == Seq(Pages)
<1>1. Job = [pc: pcs, turn: turns, id: ids, notes: lists, articles: lists, todo: todos]
  BY DEF Job
<1>. HIDE DEF pcs, turns, ids, lists, todos
<1>2. job \in [pc: pcs, turn: turns, id: ids, notes: lists, articles: lists, todo: todos]
  BY <1>1
<1>3. ASSUME NEW pc \in pcs PROVE [job EXCEPT !.pc = pc] \in Job
  BY <1>1, <1>2
<1>4. ASSUME NEW pc \in pcs, NEW list \in lists
      PROVE  /\ [job EXCEPT !.pc = pc, !.notes = list] \in Job
             /\ [job EXCEPT !.pc = pc, !.articles = list] \in Job
  BY <1>1, <1>2
<1>5. ASSUME NEW pc \in pcs, NEW todo \in todos PROVE [job EXCEPT !.pc = pc, !.todo = todo] \in Job
  BY <1>1, <1>2
<1>6. ASSUME NEW todo \in todos PROVE [job EXCEPT !.todo = todo] \in Job
  BY <1>1, <1>2
<1>. QED BY <1>3, <1>4, <1>5, <1>6 DEF pcs, lists, todos

LEMMA GotoTyped ==
  ASSUME NEW w \in ExportWorkers, jobs \in [ExportWorkers -> Job],
         NEW pc \in Busy \cup {"idle", "handle", "lock"}, Goto(w, pc)
  PROVE  jobs' \in [ExportWorkers -> Job]
<1>. DEFINE job == [jobs[w] EXCEPT !.pc = pc]
<1>1. jobs[w] \in Job
  OBVIOUS
<1>2. job \in Job
  BY <1>1, JobChanges
<1>3. jobs' = [jobs EXCEPT ![w] = job]
  BY DEF Goto
<1>. HIDE DEF job
<1>. QED BY <1>2, <1>3

LEMMA ExportTypesAreKept ==
  ASSUME ExportTyped, \A w \in ExportWorkers : Held(w), ExportNext
  PROVE  ExportTyped'
<1>0. /\ posts \subseteq DOMAIN Post /\ pruned \subseteq DOMAIN Post /\ DOMAIN files = Sites
      /\ mutex \in [Sites -> ExportWorkers \cup {Nobody}] /\ jobs \in [ExportWorkers -> Job]
      /\ mishaps \in 0 .. MaxMishaps /\ MaxMishaps \in Nat
      /\ exported \in [Sites -> SUBSET DOMAIN Post] /\ intact \in [Sites -> BOOLEAN]
  BY ExportAssumption DEF ExportTyped
<1>1. ASSUME NEW w \in ExportWorkers, NEW id \in DOMAIN Post, StorePost(w, id) PROVE ExportTyped'
  <2>. DEFINE job == Arrival(1, id)
  <2>1. job \in Job
    <3>1. 1 \in DOMAIN Exporters
      BY ExportAssumption
    <3>. QED BY <3>1, ArrivalTyped
  <2>2. jobs' = [jobs EXCEPT ![w] = job]
    BY <1>1 DEF StorePost, Arrival
  <2>. HIDE DEF job
  <2>3. jobs' \in [ExportWorkers -> Job]
    BY <1>0, <2>1, <2>2
  <2>. QED BY <1>0, <1>1, <2>3 DEF StorePost, ExportTyped
<1>2. ASSUME NEW w \in ExportWorkers, HandleEvent(w) PROVE ExportTyped'
  <2>1. CASE Goto(w, "lock")
    <3>1. jobs' \in [ExportWorkers -> Job]
      BY <1>0, <2>1, GotoTyped
    <3>. QED BY <1>0, <1>2, <3>1 DEF HandleEvent, ExportTyped
  <2>2. CASE Leaves(w)
    BY <1>0, <1>2, <2>2, LeavingTyped DEF HandleEvent, At, ExportTyped
  <2>. QED BY <1>2, <2>1, <2>2 DEF HandleEvent
<1>3. ASSUME NEW w \in ExportWorkers, LockExport(w) PROVE ExportTyped'
  <2>1. jobs' \in [ExportWorkers -> Job]
    BY <1>0, <1>3, GotoTyped DEF LockExport, Busy
  <2>. QED BY <1>0, <1>3, <2>1 DEF LockExport, ExportTyped
<1>4. ASSUME NEW w \in ExportWorkers, QueryNotes(w) \/ QueryArticles(w) PROVE ExportTyped'
  <2>. DEFINE found(kind) == queryOwnerRoots(Events(posts), kind)
  <2>1. \A kind : found(kind) \in Seq(Events(DOMAIN Post))
    BY <1>0, RootsAreListed
  <2>. HIDE DEF found
  <2>2. ASSUME jobs' = [jobs EXCEPT ![w].pc = "articles", ![w].notes = found(1)]
        PROVE  jobs' \in [ExportWorkers -> Job]
    <3>. DEFINE job == [jobs[w] EXCEPT !.pc = "articles", !.notes = found(1)]
    <3>1. job \in Job
      BY <1>0, <2>1, JobChanges DEF Busy
    <3>2. jobs' = [jobs EXCEPT ![w] = job]
      BY <2>2
    <3>. HIDE DEF job
    <3>. QED BY <1>0, <3>1, <3>2
  <2>3. ASSUME jobs' = [jobs EXCEPT ![w].pc = "root", ![w].articles = found(30023)]
        PROVE  jobs' \in [ExportWorkers -> Job]
    <3>. DEFINE listed == found(30023)
                job == [jobs[w] EXCEPT !.pc = "root", !.articles = listed]
    <3>0. listed \in Seq(Events(DOMAIN Post)) /\ jobs' = [jobs EXCEPT ![w].pc = "root", ![w].articles = listed]
      BY <2>1, <2>3
    <3>. HIDE DEF listed
    <3>1. job \in Job
      BY <1>0, <3>0, JobChanges DEF Busy
    <3>2. jobs' = [jobs EXCEPT ![w] = job]
      BY <3>0
    <3>. HIDE DEF job
    <3>. QED BY <1>0, <3>1, <3>2
  <2>4. jobs' \in [ExportWorkers -> Job]
    BY <1>4, <2>2, <2>3 DEF QueryNotes, QueryArticles, found
  <2>. QED BY <1>0, <1>4, <2>4 DEF QueryNotes, QueryArticles, ExportTyped
<1>5. ASSUME NEW w \in ExportWorkers, WriteRoot(w) \/ WriteNoteIndex(w) PROVE ExportTyped'
  <2>1. Goto(w, "noteIndex") \/ Goto(w, "articleIndex")
    BY <1>5 DEF WriteRoot, WriteNoteIndex
  <2>2. jobs' \in [ExportWorkers -> Job]
    BY <1>0, <2>1, GotoTyped DEF Busy
  <2>3. DOMAIN files' = Sites
    BY <1>0, <1>5 DEF WriteRoot, WriteNoteIndex, WriteFile
  <2>. QED BY <1>0, <1>5, <2>2, <2>3 DEF WriteRoot, WriteNoteIndex, ExportTyped
<1>6. ASSUME NEW w \in ExportWorkers, WriteArticleIndex(w) PROVE ExportTyped'
  <2>. DEFINE todo == SectionIndex("notes", jobs[w].notes) \o SectionIndex("articles", jobs[w].articles)
  <2>1. todo \in Seq(Pages)
    BY <1>0, PagesNamed DEF Job
  <2>2. jobs' = [jobs EXCEPT ![w].pc = "pages", ![w].todo = todo]
    BY <1>6 DEF WriteArticleIndex
  <2>. HIDE DEF todo
  <2>3. jobs' \in [ExportWorkers -> Job]
    <3>. DEFINE job == [jobs[w] EXCEPT !.pc = "pages", !.todo = todo]
    <3>1. job \in Job
      BY <1>0, <2>1, JobChanges DEF Busy
    <3>2. jobs' = [jobs EXCEPT ![w] = job]
      BY <2>2
    <3>. HIDE DEF job
    <3>. QED BY <1>0, <3>1, <3>2
  <2>4. DOMAIN files' = Sites
    BY <1>0, <1>6 DEF WriteArticleIndex, WriteFile
  <2>. QED BY <1>0, <1>6, <2>3, <2>4 DEF WriteArticleIndex, ExportTyped
<1>7. ASSUME NEW w \in ExportWorkers, WritePage(w) PROVE ExportTyped'
  <2>1. jobs[w].todo \in Seq(Pages) /\ jobs[w].todo # << >>
    BY <1>0, <1>7 DEF WritePage, Job
  <2>2. Tail(jobs[w].todo) \in Seq(Pages)
    BY <2>1
  <2>3. jobs' = [jobs EXCEPT ![w].todo = Tail(jobs[w].todo)]
    BY <1>7 DEF WritePage
  <2>4. jobs' \in [ExportWorkers -> Job]
    <3>. DEFINE job == [jobs[w] EXCEPT !.todo = Tail(jobs[w].todo)]
    <3>1. job \in Job
      BY <1>0, <2>2, JobChanges
    <3>2. jobs' = [jobs EXCEPT ![w] = job]
      BY <2>3
    <3>. HIDE DEF job
    <3>. QED BY <1>0, <3>1, <3>2
  <2>5. DOMAIN files' = Sites
    BY <1>0, <1>7 DEF WritePage, WriteFile
  <2>. QED BY <1>0, <1>7, <2>4, <2>5 DEF WritePage, ExportTyped
<1>8. ASSUME NEW w \in ExportWorkers, FinishExport(w) PROVE ExportTyped'
  <2>1. jobs' \in [ExportWorkers -> Job]
    BY <1>0, <1>8, LeavingTyped DEF FinishExport, At
  <2>2. jobs[w].id \in DOMAIN Post
    BY <1>0, <1>8 DEF Held, FinishExport, At
  <2>. QED BY <1>0, <1>8, <2>1, <2>2 DEF FinishExport, Unlock, ExportTyped
<1>9. ASSUME NEW w \in ExportWorkers, ExportFails(w) PROVE ExportTyped'
  <2>1. jobs' \in [ExportWorkers -> Job]
    BY <1>0, <1>9, LeavingTyped DEF ExportFails
  <2>2. mishaps' \in 0 .. MaxMishaps
    BY <1>0, <1>9 DEF ExportFails
  <2>3. mutex' \in [Sites -> ExportWorkers \cup {Nobody}]
    BY <1>0, <1>9 DEF ExportFails, Unlock
  <2>. QED BY <1>0, <1>9, <2>1, <2>2, <2>3 DEF ExportFails, ExportTyped
<1>10. ASSUME NEW id \in DOMAIN Post, PrunePost(id) PROVE ExportTyped'
  BY <1>0, <1>10 DEF PrunePost, ExportTyped
<1>11. ASSUME ExportCrash PROVE ExportTyped'
  BY <1>0, <1>11, TopsTyped DEF ExportCrash, ExportTyped
<1>. QED
  BY <1>1, <1>2, <1>3, <1>4, <1>5, <1>6, <1>7, <1>8, <1>9, <1>10, <1>11 DEF ExportNext, ExportStep

-------------------------------------------------------------------------------
(* The steps.  A worker disturbs its own work and the site it is at. *)

\* Two workers are never inside the same exporter, so what one does there disturbs
\* the work of no other.
LEMMA OthersAreKept ==
  ASSUME ExportIInv, ExportTyped', StoreMoves, NEW w \in ExportWorkers,
         \A v \in ExportWorkers \ {w} : jobs'[v] = jobs[v],
         \A s \in Sites \ {SiteOf(w)} : SiteStays(s) /\ mutex'[s] = mutex[s],
         \/ jobs[w].pc \in Busy
         \/ mutex[SiteOf(w)] = Nobody
         \/ SiteStays(SiteOf(w)) /\ mutex'[SiteOf(w)] = mutex[SiteOf(w)]
  PROVE  /\ \A v \in ExportWorkers \ {w} : Held(v)' /\ InHand(v)' /\ WrittenSoFar(v)'
         /\ \A s \in Sites \ {SiteOf(w)} :
              ExportedRoots(s)' /\ PagesBelowTops(s)' /\ ListsNewest(s)'
<1>1. ASSUME NEW v \in ExportWorkers \ {w}, jobs[v].pc \in Busy
      PROVE  SiteStays(SiteOf(v)) /\ mutex'[SiteOf(v)] = mutex[SiteOf(v)]
  <2>1. SiteOf(v) \in Sites /\ mutex[SiteOf(v)] = v
    BY <1>1 DEF ExportIInv, Held, Busy, Sites, SiteOf
  <2>2. jobs[w].pc \in Busy \/ mutex[SiteOf(w)] = Nobody => SiteOf(v) # SiteOf(w)
    BY <2>1, ExportAssumption DEF ExportIInv, Held
  <2>. QED BY <2>1, <2>2
<1>2. ASSUME NEW v \in ExportWorkers \ {w} PROVE Held(v)' /\ InHand(v)' /\ WrittenSoFar(v)'
  <2>1. jobs'[v] = jobs[v] /\ SiteOf(v)' = SiteOf(v)
    BY DEF SiteOf
  <2>2. Held(v) /\ InHand(v) /\ WrittenSoFar(v)
    BY DEF ExportIInv
  <2>3. Held(v)'
    BY <1>1, <2>1, <2>2 DEF Held, StoreMoves
  <2>4. CASE jobs[v].pc \in Busy
    BY <1>1, <2>1, <2>2, <2>3, <2>4, PromisesKept, WorkKept DEF SiteStays
  <2>5. CASE jobs[v].pc \notin Busy
    BY <2>1, <2>3, <2>5 DEF InHand, WrittenSoFar, NotesListed, Writing, ArticlesRead, NotesRead, Busy
  <2>. QED BY <2>4, <2>5
<1>3. ASSUME NEW s \in Sites \ {SiteOf(w)}
      PROVE  ExportedRoots(s)' /\ PagesBelowTops(s)' /\ ListsNewest(s)'
  BY SiteKept DEF ExportIInv
<1>. QED BY <1>2, <1>3

\* A worker that is not inside an exporter has nothing in hand.
LEMMA EmptyHanded ==
  ASSUME NEW w, jobs'[w].pc \notin NotesRead
  PROVE  InHand(w)' /\ WrittenSoFar(w)'
BY DEF InHand, WrittenSoFar, NotesListed, Writing, ArticlesRead, NotesRead, Busy

\* A step at which nothing is written.
LEMMA QuietStep ==
  ASSUME ExportIInv, ExportTyped', StoreMoves, NEW w \in ExportWorkers,
         \A v \in ExportWorkers \ {w} : jobs'[v] = jobs[v],
         UNCHANGED <<files, exported, intact>>,
         \/ mutex' = mutex
         \/ /\ jobs[w].pc \in Busy \/ mutex[SiteOf(w)] = Nobody
            /\ \A s \in Sites \ {SiteOf(w)} : mutex'[s] = mutex[s],
         Held(w)', InHand(w)', WrittenSoFar(w)'
  PROVE  ExportIInv'
<1>1. \A s : SiteStays(s)
  BY DEF SiteStays
<1>2. \A v \in ExportWorkers \ {w} : Held(v)' /\ InHand(v)' /\ WrittenSoFar(v)'
  BY <1>1, OthersAreKept
<1>3. \A s \in Sites : ExportedRoots(s)' /\ PagesBelowTops(s)' /\ ListsNewest(s)'
  BY <1>1, SiteKept DEF ExportIInv
<1>. QED BY <1>2, <1>3 DEF ExportIInv

LEMMA StorePostStep ==
  ASSUME ExportIInv, ExportTyped', NEW w \in ExportWorkers, NEW id \in DOMAIN Post, StorePost(w, id)
  PROVE  ExportIInv'
<1>. DEFINE job == Arrival(1, id)
<1>1. 1 \in DOMAIN Exporters
  BY ExportAssumption
<1>2. job \in Job /\ job.pc = "handle" /\ job.turn = 1 /\ job.id = id
  BY <1>1, ArrivalTyped
<1>3. jobs' = [jobs EXCEPT ![w] = job] /\ jobs \in [ExportWorkers -> Job]
  BY DEF StorePost, Arrival, ExportIInv, ExportTyped
<1>. HIDE DEF job
<1>4. jobs'[w] = job /\ \A v \in ExportWorkers \ {w} : jobs'[v] = jobs[v]
  BY <1>3
<1>5. StoreMoves /\ UNCHANGED <<files, exported, intact>> /\ mutex' = mutex
  BY DEF StorePost, StoreMoves
<1>6. Held(w)'
  BY <1>1, <1>2, <1>4 DEF StorePost, Held, Busy
<1>7. InHand(w)' /\ WrittenSoFar(w)'
  BY <1>2, <1>4, EmptyHanded DEF NotesRead, Busy
<1>. QED BY <1>4, <1>5, <1>6, <1>7, QuietStep

\* What holds of a worker that has left an exporter.
LEMMA LeavingHolds ==
  ASSUME ExportIInv, StoreMoves, NEW w \in ExportWorkers, jobs[w].pc # "idle", Leaves(w)
  PROVE  /\ \A v \in ExportWorkers \ {w} : jobs'[v] = jobs[v]
         /\ Held(w)' /\ InHand(w)' /\ WrittenSoFar(w)'
<1>1. /\ \A v \in ExportWorkers \ {w} : jobs'[v] = jobs[v]
      /\ jobs'[w].pc \in {"idle", "handle"}
      /\ jobs'[w].pc = "handle" => jobs'[w].turn \in DOMAIN Exporters /\ jobs'[w].id = jobs[w].id
  BY LeavingTyped DEF ExportIInv
<1>2. jobs[w].id \in posts \cup pruned
  BY DEF ExportIInv, Held
<1>3. Held(w)'
  BY <1>1, <1>2 DEF Held, Busy, StoreMoves
<1>4. InHand(w)' /\ WrittenSoFar(w)'
  BY <1>1, EmptyHanded DEF NotesRead, Busy
<1>. QED BY <1>1, <1>3, <1>4

LEMMA HandleStep ==
  ASSUME ExportIInv, ExportTyped', NEW w \in ExportWorkers, HandleEvent(w)
  PROVE  ExportIInv'
<1>1. StoreMoves /\ UNCHANGED <<files, exported, intact>> /\ mutex' = mutex
  BY DEF HandleEvent, StoreMoves
<1>2. CASE Leaves(w)
  BY <1>1, <1>2, LeavingHolds, QuietStep DEF HandleEvent, At
<1>3. CASE isOwnerRootEvent(Post[jobs[w].id]) /\ Goto(w, "lock")
  <2>1. /\ \A v \in ExportWorkers \ {w} : jobs'[v] = jobs[v]
        /\ jobs'[w].pc = "lock" /\ jobs'[w].turn = jobs[w].turn /\ jobs'[w].id = jobs[w].id
    BY <1>3 DEF Goto, ExportIInv, ExportTyped, Job
  <2>2. Held(w) /\ jobs[w].pc = "handle"
    BY DEF ExportIInv, HandleEvent, At
  <2>3. Held(w)'
    BY <1>1, <1>3, <2>1, <2>2 DEF Held, Busy, StoreMoves
  <2>4. InHand(w)' /\ WrittenSoFar(w)'
    BY <2>1, EmptyHanded DEF NotesRead, Busy
  <2>. QED BY <1>1, <2>1, <2>3, <2>4, QuietStep
<1>. QED BY <1>2, <1>3 DEF HandleEvent

LEMMA LockStep ==
  ASSUME ExportIInv, ExportTyped', NEW w \in ExportWorkers, LockExport(w)
  PROVE  ExportIInv'
<1>1. StoreMoves /\ UNCHANGED <<files, exported, intact>>
  BY DEF LockExport, StoreMoves
<1>2. /\ \A v \in ExportWorkers \ {w} : jobs'[v] = jobs[v]
      /\ jobs'[w].pc = "notes" /\ jobs'[w].turn = jobs[w].turn /\ jobs'[w].id = jobs[w].id
  BY DEF LockExport, Goto, ExportIInv, ExportTyped, Job
<1>3. Held(w) /\ jobs[w].pc = "lock"
  BY DEF ExportIInv, LockExport, At
<1>4. SiteOf(w) \in Sites /\ SiteOf(w)' = SiteOf(w)
  BY <1>2, <1>3 DEF Held, Sites, SiteOf
<1>5. /\ mutex[SiteOf(w)] = Nobody /\ mutex'[SiteOf(w)] = w
      /\ \A s \in Sites \ {SiteOf(w)} : mutex'[s] = mutex[s]
  BY <1>4 DEF LockExport, ExportIInv, ExportTyped
<1>6. Held(w)'
  BY <1>1, <1>2, <1>3, <1>4, <1>5 DEF Held, StoreMoves
<1>7. InHand(w)' /\ WrittenSoFar(w)'
  BY <1>2, EmptyHanded DEF NotesRead
<1>. QED BY <1>1, <1>2, <1>5, <1>6, <1>7, QuietStep

LEMMA FailStep ==
  ASSUME ExportIInv, ExportTyped', NEW w \in ExportWorkers, ExportFails(w)
  PROVE  ExportIInv'
<1>1. StoreMoves /\ UNCHANGED <<files, exported, intact>>
  BY DEF ExportFails, StoreMoves
<1>2. jobs[w].pc \in Busy /\ jobs[w].pc # "idle" /\ Leaves(w)
  BY DEF ExportFails, ExportIInv, ExportTyped, Job, Busy
<1>3. \A s \in Sites \ {SiteOf(w)} : mutex'[s] = mutex[s]
  BY DEF ExportFails, Unlock, ExportIInv, ExportTyped
<1>. QED BY <1>1, <1>2, <1>3, LeavingHolds, QuietStep

LEMMA RootIsListed ==
  ASSUME NEW ids, ids \subseteq DOMAIN Post, NEW kind, NEW e \in Events(ids),
         e.kind = kind, isOwnerRootEvent(e), HasPlace(ids, e)
  PROVE  \E i \in DOMAIN queryOwnerRoots(Events(ids), kind) :
           queryOwnerRoots(Events(ids), kind)[i] = e
<1>1. \A f \in Events(ids) : f.kind = kind /\ isOwnerRootEvent(f) /\ HasPlace(ids, f) =>
        \E i \in DOMAIN queryOwnerRoots(Events(ids), kind) :
          queryOwnerRoots(Events(ids), kind)[i] = f
  BY RootsAreListed
<1>. QED BY <1>1

\* A query finds all that its site is to list.
LEMMA PromisesAreFound ==
  ASSUME ExportIInv, NEW w \in ExportWorkers, jobs[w].pc \notin {"idle", "handle"},
         SiteOf(w) \in Sites, NEW kind, NEW id \in Promised(w, kind)
  PROVE  \E i \in DOMAIN queryOwnerRoots(Events(posts), kind) :
           queryOwnerRoots(Events(posts), kind)[i] = Post[id]
<1>1. /\ id \in exported[SiteOf(w)] \cup {jobs[w].id} /\ id \notin pruned
      /\ Post[id].kind = kind /\ Due(Post[id])
  BY DEF Promised
<1>2. id \in posts \cup pruned /\ isOwnerRootEvent(Post[id])
  BY <1>1 DEF ExportIInv, Held, ExportedRoots
<1>3. id \in posts /\ posts \subseteq DOMAIN Post /\ posts \cup pruned \subseteq DOMAIN Post
  BY <1>1, <1>2 DEF ExportIInv, ExportTyped
<1>4. Post[id] \in Events(posts)
  BY <1>3 DEF Events
<1>5. HasPlace(posts \cup pruned, Post[id])
  BY <1>1, DueIsPlace
<1>. DEFINE seen == posts \cup pruned
<1>6. posts \subseteq seen /\ seen \subseteq DOMAIN Post /\ HasPlace(seen, Post[id])
  BY <1>3, <1>5
<1>. HIDE DEF seen
<1>7. HasPlace(posts, Post[id])
  BY <1>6, MoreCrowdLess
<1>8. PICK ids : ids = posts
  OBVIOUS
<1>9. /\ ids \subseteq DOMAIN Post /\ Post[id] \in Events(ids) /\ Post[id].kind = kind
      /\ isOwnerRootEvent(Post[id]) /\ HasPlace(ids, Post[id])
  BY <1>1, <1>2, <1>3, <1>4, <1>7, <1>8
<1>10. \E i \in DOMAIN queryOwnerRoots(Events(ids), kind) :
         queryOwnerRoots(Events(ids), kind)[i] = Post[id]
  BY <1>9, RootIsListed
<1>. QED BY <1>8, <1>10

\* The site a worker is at.
LEMMA AtASite ==
  ASSUME ExportIInv, NEW w \in ExportWorkers, jobs[w].pc \in Busy
  PROVE  SiteOf(w) \in Sites /\ mutex[SiteOf(w)] = w
BY DEF ExportIInv, Held, Busy, Sites, SiteOf

\* A step inside an exporter at which the worker keeps its event.
LEMMA WorkerStays ==
  ASSUME ExportIInv, NEW w \in ExportWorkers, jobs[w].pc \in Busy, jobs'[w].pc \in Busy,
         jobs'[w].turn = jobs[w].turn, jobs'[w].id = jobs[w].id,
         UNCHANGED <<posts, mutex, pruned, exported>>
  PROVE  /\ StoreMoves /\ Held(w)' /\ SiteOf(w)' = SiteOf(w)
         /\ \A kind : Promised(w, kind)' = Promised(w, kind)
<1>1. SiteOf(w)' = SiteOf(w)
  BY DEF SiteOf
<1>2. Held(w)
  BY DEF ExportIInv
<1>3. Held(w)'
  BY <1>1, <1>2 DEF Held, Busy
<1>4. \A e : Due(e)' <=> Due(e)
  BY DEF Due
<1>. QED BY <1>1, <1>3, <1>4 DEF Promised, StoreMoves

LEMMA QueryNotesStep ==
  ASSUME ExportIInv, ExportTyped', NEW w \in ExportWorkers, QueryNotes(w)
  PROVE  ExportIInv'
<1>. DEFINE listed == queryOwnerRoots(Events(posts), 1)
<1>1. jobs' = [jobs EXCEPT ![w].pc = "articles", ![w].notes = listed]
  BY DEF QueryNotes
<1>2. \A id \in Promised(w, 1) : \E i \in DOMAIN listed : listed[i] = Post[id]
  BY PromisesAreFound, AtASite DEF QueryNotes, At, Busy
<1>. HIDE DEF listed
<1>3. /\ jobs'[w].pc = "articles" /\ jobs'[w].turn = jobs[w].turn /\ jobs'[w].id = jobs[w].id
      /\ jobs'[w].notes = listed /\ \A v \in ExportWorkers \ {w} : jobs'[v] = jobs[v]
  BY <1>1 DEF ExportIInv, ExportTyped, Job
<1>4. jobs[w].pc = "notes" /\ UNCHANGED <<posts, files, mutex, pruned, exported, intact>>
  BY DEF QueryNotes, At
<1>5. StoreMoves /\ Held(w)' /\ \A kind : Promised(w, kind)' = Promised(w, kind)
  BY <1>3, <1>4, WorkerStays DEF Busy
<1>6. InHand(w)'
  BY <1>2, <1>3, <1>5 DEF InHand, ArticlesRead
<1>7. WrittenSoFar(w)'
  BY <1>3 DEF WrittenSoFar, NotesListed, Writing, ArticlesRead
<1>. QED BY <1>3, <1>4, <1>5, <1>6, <1>7, QuietStep

LEMMA QueryArticlesStep ==
  ASSUME ExportIInv, ExportTyped', NEW w \in ExportWorkers, QueryArticles(w)
  PROVE  ExportIInv'
<1>. DEFINE listed == queryOwnerRoots(Events(posts), 30023)
<1>1. jobs' = [jobs EXCEPT ![w].pc = "root", ![w].articles = listed]
  BY DEF QueryArticles
<1>2. \A id \in Promised(w, 30023) : \E i \in DOMAIN listed : listed[i] = Post[id]
  BY PromisesAreFound, AtASite DEF QueryArticles, At, Busy
<1>. HIDE DEF listed
<1>3. /\ jobs'[w].pc = "root" /\ jobs'[w].turn = jobs[w].turn /\ jobs'[w].id = jobs[w].id
      /\ jobs'[w].notes = jobs[w].notes /\ jobs'[w].articles = listed
      /\ \A v \in ExportWorkers \ {w} : jobs'[v] = jobs[v]
  BY <1>1 DEF ExportIInv, ExportTyped, Job
<1>4. jobs[w].pc = "articles" /\ UNCHANGED <<posts, files, mutex, pruned, exported, intact>>
  BY DEF QueryArticles, At
<1>5. StoreMoves /\ Held(w)' /\ \A kind : Promised(w, kind)' = Promised(w, kind)
  BY <1>3, <1>4, WorkerStays DEF Busy
<1>6. \A id \in Promised(w, 1) : \E i \in DOMAIN jobs[w].notes : jobs[w].notes[i] = Post[id]
  BY <1>4 DEF ExportIInv, InHand, NotesRead, Busy
<1>7. InHand(w)'
  BY <1>2, <1>3, <1>5, <1>6 DEF InHand
<1>8. WrittenSoFar(w)'
  BY <1>3 DEF WrittenSoFar, NotesListed, Writing
<1>. QED BY <1>3, <1>4, <1>5, <1>7, <1>8, QuietStep

\* What writing a file does to the sites.
LEMMA FileShape ==
  ASSUME ExportIInv, NEW w \in ExportWorkers, SiteOf(w) \in Sites, NEW path, NEW links,
         WriteFile(w, path, links)
  PROVE  /\ DOMAIN files'[SiteOf(w)] = DOMAIN files[SiteOf(w)] \cup {path}
         /\ files'[SiteOf(w)][path] = links
         /\ \A p \in DOMAIN files[SiteOf(w)] \ {path} : files'[SiteOf(w)][p] = files[SiteOf(w)][p]
         /\ \A s \in Sites \ {SiteOf(w)} : files'[s] = files[s]
BY DEF WriteFile, ExportIInv, ExportTyped

\* What a step that writes a file leaves in order, once the worker's own account of
\* what it wrote is.
LEMMA WritingStep ==
  ASSUME ExportIInv, ExportTyped', NEW w \in ExportWorkers,
         jobs[w].pc \in ArticlesRead, jobs'[w].pc \in ArticlesRead,
         jobs'[w].turn = jobs[w].turn, jobs'[w].id = jobs[w].id,
         jobs'[w].notes = jobs[w].notes, jobs'[w].articles = jobs[w].articles,
         \A v \in ExportWorkers \ {w} : jobs'[v] = jobs[v],
         UNCHANGED <<posts, mutex, pruned, exported>>,
         intact'[SiteOf(w)] = FALSE, \A s \in Sites \ {SiteOf(w)} : intact'[s] = intact[s],
         NEW path, NEW links, WriteFile(w, path, links),
         \/ path \in Tops
         \/ /\ path \in Pages /\ links = PageLinks(SiteOf(w), path[1])
            /\ Tops \subseteq DOMAIN files[SiteOf(w)],
         WrittenSoFar(w)'
  PROVE  ExportIInv'
<1>1. jobs[w].pc \in Busy /\ jobs'[w].pc \in Busy
      /\ jobs[w].pc \in NotesRead /\ jobs'[w].pc \in NotesRead
  BY DEF ArticlesRead, NotesRead
<1>2. SiteOf(w) \in Sites
  BY <1>1, AtASite
<1>3. StoreMoves /\ Held(w)' /\ \A kind : Promised(w, kind)' = Promised(w, kind)
  BY <1>1, WorkerStays
<1>4. InHand(w)'
  BY <1>1, <1>3 DEF ExportIInv, InHand
<1>5. \A s \in Sites \ {SiteOf(w)} : SiteStays(s) /\ mutex'[s] = mutex[s]
  BY <1>2, FileShape DEF SiteStays
<1>6. /\ \A v \in ExportWorkers \ {w} : Held(v)' /\ InHand(v)' /\ WrittenSoFar(v)'
      /\ \A s \in Sites \ {SiteOf(w)} : ExportedRoots(s)' /\ PagesBelowTops(s)' /\ ListsNewest(s)'
  BY <1>1, <1>3, <1>5, OthersAreKept
<1>11. PICK s \in Sites : s = SiteOf(w)
  BY <1>2
<1>7. /\ s \in Sites /\ intact'[s] = FALSE /\ exported'[s] = exported[s]
      /\ DOMAIN files'[s] = DOMAIN files[s] \cup {path} /\ files'[s][path] = links
      /\ \A p \in DOMAIN files[s] \ {path} : files'[s][p] = files[s][p]
      /\ path \in Tops \/ (/\ path \in Pages /\ links = PageLinks(s, path[1])
                           /\ Tops \subseteq DOMAIN files[s])
  BY <1>2, <1>11, FileShape
<1>8. ExportedRoots(s)'
  BY <1>3, <1>7, RootsKept DEF ExportIInv
<1>9. PagesBelowTops(s)'
  <2>1. PagesBelowTops(s)
    BY <1>7 DEF ExportIInv
  <2>2. ASSUME NEW p \in DOMAIN files'[s] \ Tops
        PROVE  /\ p \in Pages /\ p \in DOMAIN files'[s] /\ files'[s][p] = PageLinks(s, p[1])
               /\ Tops \subseteq DOMAIN files'[s]
    BY <1>7, <2>1 DEF PagesBelowTops, Written
  <2>. QED BY <2>2 DEF PagesBelowTops, Written
<1>10. ListsNewest(s)'
  BY <1>7 DEF ListsNewest
<1>. QED BY <1>3, <1>4, <1>6, <1>8, <1>9, <1>10, <1>11 DEF ExportIInv

LEMMA PathsDiffer ==
  /\ << >> # <<"notes">> /\ << >> # <<"articles">> /\ <<"notes">> # <<"articles">>
  /\ \A path \in Pages : path \notin Tops
<1>1. << >> # <<"notes">> /\ << >> # <<"articles">> /\ <<"notes">> # <<"articles">>
  OBVIOUS
<1>2. ASSUME NEW path \in Pages PROVE path \notin Tops
  BY DEF Pages, Tops
<1>. QED BY <1>1, <1>2

LEMMA WriteRootStep ==
  ASSUME ExportIInv, ExportTyped', NEW w \in ExportWorkers, WriteRoot(w)
  PROVE  ExportIInv'
<1>. DEFINE links == RootIndex(jobs[w].notes, jobs[w].articles)
<1>1. /\ jobs'[w].pc = "noteIndex" /\ jobs'[w].turn = jobs[w].turn /\ jobs'[w].id = jobs[w].id
      /\ jobs'[w].notes = jobs[w].notes /\ jobs'[w].articles = jobs[w].articles
      /\ \A v \in ExportWorkers \ {w} : jobs'[v] = jobs[v]
  BY DEF WriteRoot, Goto, ExportIInv, ExportTyped, Job
<1>2. /\ jobs[w].pc = "root" /\ UNCHANGED <<posts, mutex, pruned, exported>>
      /\ WriteFile(w, << >>, links)
  BY DEF WriteRoot, At
<1>3. jobs[w].pc \in ArticlesRead /\ jobs[w].pc \in Busy /\ jobs'[w].pc \in ArticlesRead
  BY <1>1, <1>2 DEF ArticlesRead, NotesRead, Busy
<1>4. SiteOf(w) \in Sites /\ SiteOf(w)' = SiteOf(w)
  BY <1>1, <1>3, AtASite DEF SiteOf
<1>5. intact'[SiteOf(w)] = FALSE /\ \A s \in Sites \ {SiteOf(w)} : intact'[s] = intact[s]
  BY <1>4 DEF WriteRoot, ExportIInv, ExportTyped
<1>6. Written(SiteOf(w), << >>, links)'
  BY <1>1, <1>2, <1>4, FileShape DEF Written
<1>7. WrittenSoFar(w)'
  BY <1>1, <1>4, <1>5, <1>6 DEF WrittenSoFar, NotesListed
<1>8. << >> \in Tops
  BY DEF Tops
<1>. QED BY <1>1, <1>2, <1>3, <1>5, <1>7, <1>8, WritingStep

\* A file that is not written again stays as it is.
LEMMA StaysWritten ==
  ASSUME ExportIInv, NEW w \in ExportWorkers, SiteOf(w) \in Sites, SiteOf(w)' = SiteOf(w),
         NEW path, NEW links, WriteFile(w, path, links),
         NEW other, NEW old, other # path, Written(SiteOf(w), other, old)
  PROVE  other \in DOMAIN files'[SiteOf(w)] /\ files'[SiteOf(w)][other] = old
BY FileShape DEF Written

LEMMA WriteNoteIndexStep ==
  ASSUME ExportIInv, ExportTyped', NEW w \in ExportWorkers, WriteNoteIndex(w)
  PROVE  ExportIInv'
<1>. DEFINE links == SectionIndex("notes", jobs[w].notes)
            root == RootIndex(jobs[w].notes, jobs[w].articles)
<1>1. /\ jobs'[w].pc = "articleIndex" /\ jobs'[w].turn = jobs[w].turn /\ jobs'[w].id = jobs[w].id
      /\ jobs'[w].notes = jobs[w].notes /\ jobs'[w].articles = jobs[w].articles
      /\ \A v \in ExportWorkers \ {w} : jobs'[v] = jobs[v]
  BY DEF WriteNoteIndex, Goto, ExportIInv, ExportTyped, Job
<1>2. /\ jobs[w].pc = "noteIndex" /\ UNCHANGED <<posts, mutex, pruned, exported, intact>>
      /\ WriteFile(w, <<"notes">>, links)
  BY DEF WriteNoteIndex, At
<1>3. /\ jobs[w].pc \in ArticlesRead /\ jobs[w].pc \in Busy /\ jobs'[w].pc \in ArticlesRead
      /\ jobs[w].pc \in Writing
  BY <1>1, <1>2 DEF Writing, ArticlesRead, NotesRead, Busy
<1>4. SiteOf(w) \in Sites /\ SiteOf(w)' = SiteOf(w)
  BY <1>1, <1>3, AtASite DEF SiteOf
<1>5. intact[SiteOf(w)] = FALSE /\ Written(SiteOf(w), << >>, root)
  BY <1>3 DEF ExportIInv, WrittenSoFar
<1>6. Written(SiteOf(w), <<"notes">>, links)'
  BY <1>1, <1>2, <1>4, FileShape DEF Written
<1>7. Written(SiteOf(w), << >>, root)'
  <2>1. PICK old : old = root
    OBVIOUS
  <2>2. Written(SiteOf(w), << >>, old) /\ << >> # <<"notes">> /\ root' = old
    BY <1>1, <1>5, <2>1, PathsDiffer
  <2>3. << >> \in DOMAIN files'[SiteOf(w)] /\ files'[SiteOf(w)][<< >>] = old
    <3>1. PICK path, written : path = <<"notes">> /\ written = links
      OBVIOUS
    <3>2. WriteFile(w, path, written) /\ << >> # path
      BY <1>2, <2>2, <3>1
    <3>. QED BY <1>4, <2>2, <3>2, StaysWritten
  <2>. QED BY <1>4, <2>2, <2>3 DEF Written
<1>8. WrittenSoFar(w)'
  BY <1>1, <1>2, <1>4, <1>5, <1>6, <1>7 DEF WrittenSoFar
<1>9. <<"notes">> \in Tops
  BY DEF Tops
<1>. QED BY <1>1, <1>2, <1>3, <1>5, <1>8, <1>9, WritingStep

LEMMA WriteArticleIndexStep ==
  ASSUME ExportIInv, ExportTyped', NEW w \in ExportWorkers, WriteArticleIndex(w)
  PROVE  ExportIInv'
<1>. DEFINE notes == SectionIndex("notes", jobs[w].notes)
            links == SectionIndex("articles", jobs[w].articles)
            root == RootIndex(jobs[w].notes, jobs[w].articles)
            todo == notes \o links
<1>0. /\ notes \in Seq(Pages) /\ links \in Seq(Pages)
      /\ DOMAIN notes = DOMAIN jobs[w].notes /\ DOMAIN links = DOMAIN jobs[w].articles
      /\ \A i \in DOMAIN jobs[w].notes : notes[i] = <<"notes", jobs[w].notes[i].id>>
      /\ \A i \in DOMAIN jobs[w].articles : links[i] = <<"articles", jobs[w].articles[i].id>>
  BY PagesNamed DEF ExportIInv, ExportTyped, Job
<1>1. /\ jobs' = [jobs EXCEPT ![w].pc = "pages", ![w].todo = todo]
      /\ WriteFile(w, <<"articles">>, links)
      /\ jobs[w].pc = "articleIndex" /\ UNCHANGED <<posts, mutex, pruned, exported, intact>>
  BY DEF WriteArticleIndex, At
<1>2. /\ jobs[w].pc \in ArticlesRead /\ jobs[w].pc \in Busy
      /\ jobs[w].pc \in Writing /\ jobs[w].pc \in NotesListed
  BY <1>1 DEF NotesListed, Writing, ArticlesRead, NotesRead, Busy
<1>3. /\ intact[SiteOf(w)] = FALSE /\ Written(SiteOf(w), << >>, root)
      /\ Written(SiteOf(w), <<"notes">>, notes)
  BY <1>2 DEF ExportIInv, WrittenSoFar
<1>4. /\ \A i \in DOMAIN notes : i \in DOMAIN todo /\ todo[i] = notes[i]
      /\ \A i \in DOMAIN links : Len(notes) + i \in DOMAIN todo /\ todo[Len(notes) + i] = links[i]
  <2>. HIDE DEF notes, links
  <2>. QED BY <1>0
<1>. HIDE DEF todo
<1>5. /\ jobs'[w].pc = "pages" /\ jobs'[w].turn = jobs[w].turn /\ jobs'[w].id = jobs[w].id
      /\ jobs'[w].notes = jobs[w].notes /\ jobs'[w].articles = jobs[w].articles
      /\ jobs'[w].todo = todo /\ \A v \in ExportWorkers \ {w} : jobs'[v] = jobs[v]
  BY <1>1 DEF ExportIInv, ExportTyped, Job
<1>6. jobs'[w].pc \in ArticlesRead
  BY <1>5 DEF ArticlesRead, NotesRead, Busy
<1>7. SiteOf(w) \in Sites /\ SiteOf(w)' = SiteOf(w)
  BY <1>2, <1>5, AtASite DEF SiteOf
<1>8. Written(SiteOf(w), << >>, root)' /\ Written(SiteOf(w), <<"notes">>, notes)'
  BY <1>1, <1>3, <1>5, <1>7, PathsDiffer, StaysWritten DEF Written
<1>9. Written(SiteOf(w), <<"articles">>, links)'
  BY <1>1, <1>5, <1>7, FileShape DEF Written
<1>10. /\ \A i \in DOMAIN jobs[w].notes : \E k \in DOMAIN todo : todo[k] = <<"notes", jobs[w].notes[i].id>>
       /\ \A i \in DOMAIN jobs[w].articles :
            \E k \in DOMAIN todo : todo[k] = <<"articles", jobs[w].articles[i].id>>
  <2>. HIDE DEF notes, links
  <2>. QED BY <1>0, <1>4
<1>11. WrittenSoFar(w)'
  <2>1. intact'[SiteOf(w)'] = FALSE
    BY <1>1, <1>3, <1>7
  <2>2. /\ \A i \in DOMAIN jobs'[w].notes : Comes(w, <<"notes", jobs[w].notes[i].id>>)'
        /\ \A i \in DOMAIN jobs'[w].articles : Comes(w, <<"articles", jobs[w].articles[i].id>>)'
    BY <1>5, <1>10 DEF Comes
  <2>. QED BY <1>5, <1>8, <1>9, <2>1, <2>2 DEF WrittenSoFar
<1>12. <<"articles">> \in Tops
  BY DEF Tops
<1>. QED BY <1>1, <1>2, <1>3, <1>5, <1>6, <1>11, <1>12, WritingStep

LEMMA WritePageStep ==
  ASSUME ExportIInv, ExportTyped', NEW w \in ExportWorkers, WritePage(w)
  PROVE  ExportIInv'
<1>. PICK todo, notes, articles, s :
       /\ todo = jobs[w].todo /\ notes = jobs[w].notes /\ articles = jobs[w].articles
       /\ s = SiteOf(w)
  OBVIOUS
<1>. DEFINE path == Head(todo)
<1>1. /\ jobs' = [jobs EXCEPT ![w].todo = Tail(todo)] /\ todo # << >>
      /\ WriteFile(w, path, PageLinks(s, path[1]))
      /\ jobs[w].pc = "pages" /\ UNCHANGED <<posts, mutex, pruned, exported, intact>>
  BY DEF WritePage, At
<1>2. todo \in Seq(Pages)
  BY DEF ExportIInv, ExportTyped, Job
<1>3. /\ jobs[w].pc \in ArticlesRead /\ jobs[w].pc \in Busy
      /\ jobs[w].pc \in Writing /\ jobs[w].pc \in NotesListed
  BY <1>1 DEF NotesListed, Writing, ArticlesRead, NotesRead, Busy
<1>4. /\ jobs'[w].pc = "pages" /\ jobs'[w].turn = jobs[w].turn /\ jobs'[w].id = jobs[w].id
      /\ jobs'[w].notes = notes /\ jobs'[w].articles = articles
      /\ jobs'[w].todo = Tail(todo) /\ \A v \in ExportWorkers \ {w} : jobs'[v] = jobs[v]
  BY <1>1 DEF ExportIInv, ExportTyped, Job
<1>5. s \in Sites /\ SiteOf(w)' = s
  BY <1>3, <1>4, AtASite DEF SiteOf
<1>6. /\ intact[s] = FALSE /\ Written(s, << >>, RootIndex(notes, articles))
      /\ Written(s, <<"notes">>, SectionIndex("notes", notes))
      /\ Written(s, <<"articles">>, SectionIndex("articles", articles))
      /\ \A i \in DOMAIN notes : Comes(w, <<"notes", notes[i].id>>)
      /\ \A i \in DOMAIN articles : Comes(w, <<"articles", articles[i].id>>)
  BY <1>1, <1>3 DEF ExportIInv, WrittenSoFar
<1>7. path \in Pages /\ path \notin Tops /\ Tops \subseteq DOMAIN files[s]
  BY <1>1, <1>2, <1>6, PathsDiffer DEF Tops, Written
<1>8. \A i \in DOMAIN todo : todo[i] = path \/ \E k \in DOMAIN Tail(todo) : Tail(todo)[k] = todo[i]
  <2>. SUFFICES ASSUME NEW i \in DOMAIN todo, i # 1
                PROVE  \E k \in DOMAIN Tail(todo) : Tail(todo)[k] = todo[i]
    BY <1>1, <1>2
  <2>1. i - 1 \in DOMAIN Tail(todo) /\ Tail(todo)[i - 1] = todo[i]
    BY <1>1, <1>2
  <2>. QED BY <2>1
<1>. HIDE DEF path
<1>9. /\ DOMAIN files'[s] = DOMAIN files[s] \cup {path}
      /\ \A p \in DOMAIN files[s] \ {path} : files'[s][p] = files[s][p]
  BY <1>1, <1>5, FileShape
<1>10. \A p \in Tops : \A links : Written(s, p, links) => Written(s, p, links)'
  BY <1>7, <1>9 DEF Written
<1>11. /\ Written(s, << >>, RootIndex(notes, articles))'
       /\ Written(s, <<"notes">>, SectionIndex("notes", notes))'
       /\ Written(s, <<"articles">>, SectionIndex("articles", articles))'
  BY <1>6, <1>10 DEF Tops
<1>12. \A p : Comes(w, p) => Comes(w, p)'
  BY <1>4, <1>5, <1>8, <1>9 DEF Comes
<1>13. WrittenSoFar(w)'
  BY <1>1, <1>4, <1>5, <1>6, <1>11, <1>12 DEF WrittenSoFar
<1>. QED BY <1>1, <1>3, <1>4, <1>5, <1>6, <1>7, <1>13, WritingStep

LEMMA EitherAppended ==
  ASSUME NEW a, NEW b, NEW first \in {<< >>, <<a>>}, NEW second \in {<< >>, <<b>>}
  PROVE  /\ first = <<a>> => \E k \in DOMAIN (first \o second) : (first \o second)[k] = a
         /\ second = <<b>> => \E k \in DOMAIN (first \o second) : (first \o second)[k] = b
<1>1. /\ first \in Seq({a, b}) /\ second \in Seq({a, b})
      /\ Len(first) \in Nat /\ Len(second) \in Nat
      /\ DOMAIN (first \o second) = 1 .. Len(first) + Len(second)
      /\ \A k \in 1 .. Len(first) : (first \o second)[k] = first[k]
      /\ \A k \in 1 .. Len(second) : (first \o second)[Len(first) + k] = second[k]
  <2>0. << >> \in Seq({a, b}) /\ <<a>> \in Seq({a, b}) /\ <<b>> \in Seq({a, b})
    OBVIOUS
  <2>1. first \in Seq({a, b}) /\ second \in Seq({a, b})
    BY <2>0
  <2>2. PICK s \in Seq({a, b}), t \in Seq({a, b}) : s = first /\ t = second
    BY <2>1
  <2>3. /\ Len(s) \in Nat /\ Len(t) \in Nat
        /\ DOMAIN (s \o t) = 1 .. Len(s) + Len(t)
        /\ \A k \in 1 .. Len(s) : (s \o t)[k] = s[k]
        /\ \A k \in 1 .. Len(t) : (s \o t)[Len(s) + k] = t[k]
    OBVIOUS
  <2>. QED BY <2>1, <2>2, <2>3
<1>2. ASSUME first = <<a>> PROVE \E k \in DOMAIN (first \o second) : (first \o second)[k] = a
  <2>1. 1 \in DOMAIN (first \o second) /\ (first \o second)[1] = a
    BY <1>1, <1>2
  <2>. QED BY <2>1
<1>3. ASSUME second = <<b>> PROVE \E k \in DOMAIN (first \o second) : (first \o second)[k] = b
  <2>1. Len(first) + 1 \in DOMAIN (first \o second) /\ (first \o second)[Len(first) + 1] = b
    BY <1>1, <1>3
  <2>. QED BY <2>1
<1>. QED BY <1>2, <1>3

\* The root index links to a section that has a page.
Indexes(notes, articles, section) ==
  \E k \in DOMAIN RootIndex(notes, articles) : RootIndex(notes, articles)[k] = <<section>>

LEMMA RootsIndexed ==
  ASSUME NEW notes, NEW articles
  PROVE  /\ notes # << >> => Indexes(notes, articles, "notes")
         /\ articles # << >> => Indexes(notes, articles, "articles")
<1>. PICK a, b : a = <<"notes">> /\ b = <<"articles">>
  OBVIOUS
<1>. DEFINE first == IF notes = << >> THEN << >> ELSE <<a>>
            second == IF articles = << >> THEN << >> ELSE <<b>>
<1>1. RootIndex(notes, articles) = first \o second
  BY DEF RootIndex
<1>2. /\ first \in {<< >>, <<a>>} /\ second \in {<< >>, <<b>>}
      /\ notes # << >> => first = <<a>>
      /\ articles # << >> => second = <<b>>
  OBVIOUS
<1>. HIDE DEF first, second
<1>3. /\ notes # << >> => \E k \in DOMAIN (first \o second) : (first \o second)[k] = a
      /\ articles # << >> => \E k \in DOMAIN (first \o second) : (first \o second)[k] = b
  BY <1>2, EitherAppended
<1>. QED BY <1>1, <1>3 DEF Indexes

\* Between the export of an event and the next the site is whole, and lists what it is
\* to list.
LEMMA FinishStep ==
  ASSUME ExportIInv, ExportTyped', NEW w \in ExportWorkers, FinishExport(w)
  PROVE  ExportIInv'
<1>. PICK notes, articles, id, s :
       notes = jobs[w].notes /\ articles = jobs[w].articles /\ id = jobs[w].id /\ s = SiteOf(w)
  OBVIOUS
<1>1. /\ jobs[w].pc = "pages" /\ jobs[w].todo = << >> /\ UNCHANGED <<posts, files, pruned>>
      /\ Leaves(w)
  BY DEF FinishExport, At
<1>2. /\ jobs[w].pc \in Busy /\ jobs[w].pc # "idle" /\ jobs[w].pc \in ArticlesRead
      /\ jobs[w].pc \in NotesRead /\ jobs[w].pc \in Writing /\ jobs[w].pc \in NotesListed
      /\ jobs[w].pc \notin {"idle", "handle"}
  BY <1>1 DEF NotesListed, Writing, ArticlesRead, NotesRead, Busy
<1>3. s \in Sites
  BY <1>2, AtASite
<1>4. /\ exported'[s] = exported[s] \cup {id} /\ intact'[s] = TRUE
      /\ \A t \in Sites \ {s} : SiteStays(t) /\ mutex'[t] = mutex[t]
  BY <1>1, <1>3 DEF FinishExport, Unlock, SiteStays, ExportIInv, ExportTyped
<1>5. StoreMoves
  BY <1>1 DEF StoreMoves
<1>6. /\ Held(w)' /\ InHand(w)' /\ WrittenSoFar(w)'
      /\ \A v \in ExportWorkers \ {w} : jobs'[v] = jobs[v]
  BY <1>1, <1>2, <1>5, LeavingHolds
<1>7. /\ \A v \in ExportWorkers \ {w} : Held(v)' /\ InHand(v)' /\ WrittenSoFar(v)'
      /\ \A t \in Sites \ {s} : ExportedRoots(t)' /\ PagesBelowTops(t)' /\ ListsNewest(t)'
  BY <1>2, <1>4, <1>5, <1>6, OthersAreKept
<1>8. /\ id \in posts \cup pruned /\ isOwnerRootEvent(Post[id]) /\ ExportedRoots(s)
      /\ PagesBelowTops(s)
  BY <1>2, <1>3 DEF ExportIInv, Held
<1>9. ExportedRoots(s)'
  BY <1>1, <1>4, <1>8 DEF ExportedRoots
<1>10. PagesBelowTops(s)'
  BY <1>1, <1>8 DEF PagesBelowTops, Written
<1>11. /\ Written(s, << >>, RootIndex(notes, articles))
       /\ Written(s, <<"notes">>, SectionIndex("notes", notes))
       /\ Written(s, <<"articles">>, SectionIndex("articles", articles))
       /\ \A i \in DOMAIN notes : <<"notes", notes[i].id>> \in DOMAIN files[s]
       /\ \A i \in DOMAIN articles : <<"articles", articles[i].id>> \in DOMAIN files[s]
  BY <1>1, <1>2 DEF ExportIInv, WrittenSoFar, Comes
<1>12. /\ notes \in Seq(Events(DOMAIN Post)) /\ articles \in Seq(Events(DOMAIN Post))
       /\ DOMAIN SectionIndex("notes", notes) = DOMAIN notes
       /\ DOMAIN SectionIndex("articles", articles) = DOMAIN articles
       /\ \A i \in DOMAIN notes : SectionIndex("notes", notes)[i] = <<"notes", notes[i].id>>
       /\ \A i \in DOMAIN articles : SectionIndex("articles", articles)[i] = <<"articles", articles[i].id>>
  BY PagesNamed DEF ExportIInv, ExportTyped, Job
<1>13. LinksLead(s)
  <2>. SUFFICES ASSUME NEW path \in DOMAIN files[s], NEW i \in DOMAIN files[s][path]
                PROVE  files[s][path][i] \in DOMAIN files[s]
    BY DEF LinksLead
  <2>1. CASE path = << >>
    <3>1. \A k \in DOMAIN RootIndex(notes, articles) : RootIndex(notes, articles)[k] \in {<<"notes">>, <<"articles">>}
      BY DEF RootIndex
    <3>. QED BY <1>11, <2>1, <3>1 DEF Written
  <2>2. CASE path = <<"notes">>
    <3>1. files[s][path] = SectionIndex("notes", notes) /\ i \in DOMAIN notes
      BY <1>11, <1>12, <2>2 DEF Written
    <3>2. files[s][path][i] = <<"notes", notes[i].id>>
      BY <1>12, <3>1
    <3>. QED BY <1>11, <3>1, <3>2
  <2>3. CASE path = <<"articles">>
    <3>1. files[s][path] = SectionIndex("articles", articles) /\ i \in DOMAIN articles
      BY <1>11, <1>12, <2>3 DEF Written
    <3>2. files[s][path][i] = <<"articles", articles[i].id>>
      BY <1>12, <3>1
    <3>. QED BY <1>11, <3>1, <3>2
  <2>4. CASE path \notin Tops
    <3>1. path \in Pages /\ files[s][path] = PageLinks(s, path[1]) /\ Tops \subseteq DOMAIN files[s]
      BY <1>8, <2>4 DEF PagesBelowTops, Written
    <3>2. PICK section \in {"notes", "articles"}, page \in DOMAIN Post : path = <<section, page>>
      BY <3>1 DEF Pages
    <3>3. path[1] = section
      BY <3>2
    <3>4. files[s][path][i] \in {<<section>>, << >>}
      BY <3>1, <3>3 DEF PageLinks
    <3>. QED BY <3>1, <3>4 DEF Tops
  <2>. QED BY <2>1, <2>2, <2>3, <2>4 DEF Tops
<1>14. ListsPromised(s)'
  <2>. SUFFICES ASSUME NEW p \in exported'[s] \ pruned', Due(Post[p])'
                PROVE  /\ <<SectionOf(Post[p]), p>> \in Listed(s, SectionOf(Post[p]))'
                       /\ \E i \in DOMAIN files'[s][<< >>] : files'[s][<< >>][i] = <<SectionOf(Post[p])>>
    BY DEF ListsPromised
  <2>1. /\ p \in (exported[s] \cup {id}) \ pruned /\ Due(Post[p])
        /\ isOwnerRootEvent(Post[p]) /\ p \in DOMAIN Post
    BY <1>1, <1>4, <1>5, <1>8, DueBefore DEF ExportedRoots, ExportIInv, ExportTyped
  <2>2. Post[p].id = p /\ (Post[p].kind = 1 \/ Post[p].kind = 30023)
    BY <2>1, ExportAssumption DEF isOwnerRootEvent, isRootEvent
  <2>3. CASE Post[p].kind = 1
    <3>1. p \in Promised(w, 1)
      BY <2>1, <2>3 DEF Promised
    <3>2. PICK i \in DOMAIN notes : notes[i] = Post[p]
      BY <1>2, <3>1 DEF ExportIInv, InHand
    <3>3. SectionOf(Post[p]) = "notes" /\ <<"notes", p>> = SectionIndex("notes", notes)[i]
      BY <1>12, <2>2, <2>3, <3>2 DEF SectionOf
    <3>4. \E k \in DOMAIN RootIndex(notes, articles) : RootIndex(notes, articles)[k] = <<"notes">>
      <4>1. notes # << >>
        BY <3>2
      <4>2. Indexes(notes, articles, "notes")
        BY <4>1, RootsIndexed
      <4>. QED BY <4>2 DEF Indexes
    <3>5. files'[s] = files[s] /\ files[s][<< >>] = RootIndex(notes, articles)
          /\ files[s][<<"notes">>] = SectionIndex("notes", notes)
      BY <1>1, <1>11 DEF Written
    <3>6. \E k \in DOMAIN files[s][<<"notes">>] : files[s][<<"notes">>][k] = <<"notes", p>>
      BY <1>12, <3>2, <3>3, <3>5
    <3>. QED BY <3>3, <3>4, <3>5, <3>6 DEF Listed
  <2>4. CASE Post[p].kind = 30023
    <3>1. p \in Promised(w, 30023)
      BY <2>1, <2>4 DEF Promised
    <3>2. PICK i \in DOMAIN articles : articles[i] = Post[p]
      BY <1>2, <3>1 DEF ExportIInv, InHand
    <3>3. SectionOf(Post[p]) = "articles" /\ <<"articles", p>> = SectionIndex("articles", articles)[i]
      BY <1>12, <2>2, <2>4, <3>2 DEF SectionOf
    <3>4. \E k \in DOMAIN RootIndex(notes, articles) : RootIndex(notes, articles)[k] = <<"articles">>
      <4>1. articles # << >>
        BY <3>2
      <4>2. Indexes(notes, articles, "articles")
        BY <4>1, RootsIndexed
      <4>. QED BY <4>2 DEF Indexes
    <3>5. files'[s] = files[s] /\ files[s][<< >>] = RootIndex(notes, articles)
          /\ files[s][<<"articles">>] = SectionIndex("articles", articles)
      BY <1>1, <1>11 DEF Written
    <3>6. \E k \in DOMAIN files[s][<<"articles">>] : files[s][<<"articles">>][k] = <<"articles", p>>
      BY <1>12, <3>2, <3>3, <3>5
    <3>. QED BY <3>3, <3>4, <3>5, <3>6 DEF Listed
  <2>. QED BY <2>2, <2>3, <2>4
<1>15. ListsNewest(s)'
  BY <1>1, <1>13, <1>14 DEF ListsNewest, LinksLead
<1>. QED BY <1>6, <1>7, <1>9, <1>10, <1>15 DEF ExportIInv

LEMMA PruneStep ==
  ASSUME ExportIInv, ExportTyped', NEW id \in DOMAIN Post, PrunePost(id)
  PROVE  ExportIInv'
<1>1. StoreMoves /\ UNCHANGED <<files, mutex, jobs, exported, intact>>
  BY DEF PrunePost, StoreMoves
<1>2. ASSUME NEW w \in ExportWorkers PROVE Held(w)' /\ InHand(w)' /\ WrittenSoFar(w)'
  <2>1. Held(w) /\ InHand(w) /\ WrittenSoFar(w)
    BY DEF ExportIInv
  <2>2. Held(w)'
    BY <1>1, <2>1 DEF Held, SiteOf, StoreMoves
  <2>. QED BY <1>1, <2>1, <2>2, PromisesKept, WorkKept
<1>3. \A s \in Sites : ExportedRoots(s)' /\ PagesBelowTops(s)' /\ ListsNewest(s)'
  BY <1>1, SiteKept DEF ExportIInv, SiteStays
<1>. QED BY <1>2, <1>3 DEF ExportIInv

LEMMA CrashStep ==
  ASSUME ExportIInv, ExportTyped', ExportCrash
  PROVE  ExportIInv'
<1>1. StoreMoves /\ UNCHANGED <<posts, files, pruned, exported, intact>>
  BY DEF ExportCrash, StoreMoves
<1>2. ASSUME NEW w \in ExportWorkers PROVE Held(w)' /\ InHand(w)' /\ WrittenSoFar(w)'
  <2>1. jobs'[w].pc = "idle"
    BY DEF ExportCrash, NoJob
  <2>. QED BY <2>1, EmptyHanded DEF Held, NotesRead, Busy
<1>3. \A s \in Sites : ExportedRoots(s)' /\ PagesBelowTops(s)' /\ ListsNewest(s)'
  BY <1>1, SiteKept DEF ExportIInv, SiteStays
<1>. QED BY <1>2, <1>3 DEF ExportIInv

LEMMA StutterStep ==
  ASSUME ExportIInv, UNCHANGED exportVars
  PROVE  ExportIInv'
<1>1. /\ UNCHANGED <<posts, files, mutex, jobs, mishaps, pruned, exported, intact>>
      /\ StoreMoves /\ ExportTyped'
  BY DEF exportVars, StoreMoves, ExportIInv, ExportTyped
<1>2. ASSUME NEW w \in ExportWorkers PROVE Held(w)' /\ InHand(w)' /\ WrittenSoFar(w)'
  <2>1. Held(w) /\ InHand(w) /\ WrittenSoFar(w)
    BY DEF ExportIInv
  <2>2. Held(w)'
    BY <1>1, <2>1 DEF Held, SiteOf
  <2>. QED BY <1>1, <2>1, <2>2, PromisesKept, WorkKept
<1>3. \A s \in Sites : ExportedRoots(s)' /\ PagesBelowTops(s)' /\ ListsNewest(s)'
  BY <1>1, SiteKept DEF ExportIInv, SiteStays
<1>. QED BY <1>1, <1>2, <1>3 DEF ExportIInv

LEMMA ExportBegins == ExportInit => ExportIInv
<1>. SUFFICES ASSUME ExportInit PROVE ExportIInv
  OBVIOUS
<1>1. ExportTyped
  BY ExportAssumption, TopsTyped DEF ExportInit, ExportTyped
<1>2. ASSUME NEW w \in ExportWorkers PROVE Held(w) /\ InHand(w) /\ WrittenSoFar(w)
  <2>1. jobs[w].pc = "idle"
    BY DEF ExportInit, NoJob
  <2>. QED BY <2>1 DEF Held, InHand, WrittenSoFar, NotesListed, Writing, ArticlesRead, NotesRead, Busy
<1>3. ASSUME NEW s \in Sites PROVE ExportedRoots(s) /\ PagesBelowTops(s) /\ ListsNewest(s)
  <2>1. files[s] = << >> /\ exported[s] = {} /\ DOMAIN files[s] = {}
    BY DEF ExportInit
  <2>. QED BY <2>1 DEF ExportedRoots, PagesBelowTops, ListsNewest, LinksLead, ListsPromised
<1>. QED BY <1>1, <1>2, <1>3 DEF ExportIInv

LEMMA ExportGoesOn == ExportIInv /\ [ExportNext]_exportVars => ExportIInv'
<1>. SUFFICES ASSUME ExportIInv, [ExportNext]_exportVars PROVE ExportIInv'
  OBVIOUS
<1>1. CASE UNCHANGED exportVars
  BY <1>1, StutterStep
<1>2. CASE ExportNext
  <2>1. ExportTyped'
    BY <1>2, ExportTypesAreKept DEF ExportIInv
  <2>2. ASSUME NEW w \in ExportWorkers, ExportStep(w) PROVE ExportIInv'
    BY <2>1, <2>2, HandleStep, LockStep, QueryNotesStep, QueryArticlesStep, WriteRootStep,
       WriteNoteIndexStep, WriteArticleIndexStep, WritePageStep, FinishStep, FailStep
       DEF ExportStep
  <2>. QED BY <1>2, <2>1, <2>2, StorePostStep, PruneStep, CrashStep DEF ExportNext
<1>. QED BY <1>1, <1>2

LEMMA ExportKeeps == ExportSpec => []ExportIInv
BY ExportBegins, ExportGoesOn, PTL DEF ExportSpec

\* Whatever the workers do to each other, whatever fails, is pruned or crashes: a site
\* whose exports were not cut short has no dead link and still lists every root that was
\* exported to it, until the root is pruned or newer ones crowd it out (Export,
\* queryOwnerRoots).
THEOREM SitesListNewestRoots == ExportSpec => []SiteListsNewestRoots
<1>1. ExportIInv => SiteListsNewestRoots
  BY DEF ExportIInv, ListsNewest, LinksLead, ListsPromised, SiteListsNewestRoots
<1>. QED BY <1>1, ExportKeeps, PTL

\* The store, the mutexes, the history and the count of mishaps stay what they are
\* declared to be.
THEOREM ExportTypes == ExportSpec => []ExportTypeOK
<1>1. ExportIInv => ExportTypeOK
  BY DEF ExportIInv, ExportTyped, ExportedRoots, ExportTypeOK
<1>. QED BY <1>1, ExportKeeps, PTL
===============================================================================
