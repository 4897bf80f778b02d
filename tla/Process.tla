-------------------------------- MODULE Process -------------------------------
(***************************************************************************)
(* The life of the process: run() of cmd/nophr/main.go, which opens the    *)
(* store, starts what the configuration asks for, waits for a signal,      *)
(* stops the servers in order and then runs its deferred calls; and the    *)
(* three servers (gopher/server.go, gemini/server.go, finger/server.go),   *)
(* which share their shape: an accept loop, a goroutine per connection, a  *)
(* wait group over both, and Stop.                                         *)
(*                                                                         *)
(* The sync engine and the retention manager appear as the goroutines that *)
(* use the store: the engine's workers and the re-evaluation loop are      *)
(* waited for by Stop, relay goroutines and the pruning scheduler are not. *)
(* That Stop of the engine may panic is in SyncEngine.                     *)
(***************************************************************************)
EXTENDS Integers, Sequences, FiniteSets

CONSTANTS
  ServerOrder,   \* the protocols, in the order run() starts them
  Connections    \* connections that may be open at a time

VARIABLES
  main,          \* [at, server]: where run() is; server counts in ServerOrder
  config,        \* [servers, sync, pruning, reEval]
  database,      \* "none", "open" or "closed"
  failed,        \* run() returns an error
  engineStops,   \* e.ctx of the sync engine is cancelled
  retentionStops,\* stopChan of the retention manager is closed
  goroutines,    \* [worker, relay, reEval, scheduler -> "none", "idle", "busy" or "exited"]
  servers,       \* [protocol -> [cancelled, listener, acceptor]]
  connections,   \* [connection -> [server, at]]
  late           \* history: who used the store after it was closed

procVars == <<main, config, database, failed, engineStops, retentionStops, goroutines,
              servers, connections, late>>

Protocols == {ServerOrder[i] : i \in DOMAIN ServerOrder}

ASSUME ServerOrderAssumption == ServerOrder \in Seq(Protocols) /\ ServerOrder # << >>

NotStarted == [cancelled |-> FALSE, listener |-> "none", acceptor |-> "none"]
Unconnected == [at |-> "none"]

ProcStart(at, configs) ==
  /\ main = [at |-> at, server |-> 1]
  /\ config \in configs
  /\ database = "none"
  /\ failed = FALSE /\ engineStops = FALSE /\ retentionStops = FALSE
  /\ goroutines = [g \in {"worker", "relay", "reEval", "scheduler"} |-> "none"]
  /\ servers = [p \in Protocols |-> NotStarted]
  /\ connections = [k \in Connections |-> Unconnected]
  /\ late = {}

ProcInit ==
  ProcStart("openStore",
            [servers: SUBSET Protocols, sync: BOOLEAN, pruning: BOOLEAN, reEval: BOOLEAN])

ProcEnded == ProcStart("exited", {[servers |-> {}, sync |-> FALSE, pruning |-> FALSE, reEval |-> FALSE]})

Main(at) == main.at = at
MainGoes(at) == main' = [at |-> at, server |-> 1]

\* The last deferred call that was registered comes first.
EngineStopped == IF config.sync THEN "stopEngine" ELSE "stopRetention"

-------------------------------------------------------------------------------
(* run(): start. *)

OpenStore ==
  /\ Main("openStore")
  /\ \/ database' = "open" /\ MainGoes("startRetention") /\ UNCHANGED failed
     \/ failed' = TRUE /\ MainGoes("exited") /\ UNCHANGED database
  /\ UNCHANGED <<config, engineStops, retentionStops, goroutines, servers, connections, late>>

\* Prune on start, the re-evaluation worker, the scheduler.  An exporter that
\* cannot be made ends run() here.
StartRetention ==
  /\ Main("startRetention")
  /\ goroutines' = [goroutines EXCEPT !["reEval"] = IF config.reEval THEN "idle" ELSE "none",
                                      !["scheduler"] = IF config.pruning THEN "idle" ELSE "none"]
  /\ \/ MainGoes(IF config.sync THEN "startEngine" ELSE "startServer") /\ UNCHANGED failed
     \/ MainGoes("stopRetention") /\ failed' = TRUE
  /\ UNCHANGED <<config, database, engineStops, retentionStops, servers, connections, late>>

StartEngine ==
  /\ Main("startEngine")
  /\ \/ /\ goroutines' = [goroutines EXCEPT !["worker"] = "idle", !["relay"] = "idle"]
        /\ MainGoes("startServer") /\ UNCHANGED failed
     \/ MainGoes("stopRetention") /\ failed' = TRUE /\ UNCHANGED goroutines
  /\ UNCHANGED <<config, database, engineStops, retentionStops, servers, connections, late>>

ServerTurn == ServerOrder[main.server]

NextServer(at, then) ==
  main' = IF main.server < Len(ServerOrder) THEN [at |-> at, server |-> main.server + 1]
          ELSE [at |-> then, server |-> 1]

\* Start listens and starts the accept loop.  When it fails run() returns at
\* once, and the servers that were started before go on until the process ends.
StartServer ==
  /\ Main("startServer")
  /\ \/ /\ ServerTurn \in config.servers
        /\ servers' = [servers EXCEPT ![ServerTurn].listener = "open", ![ServerTurn].acceptor = "running"]
        /\ NextServer("startServer", "serving") /\ UNCHANGED failed
     \/ /\ ServerTurn \in config.servers
        /\ failed' = TRUE /\ MainGoes(EngineStopped) /\ UNCHANGED servers
     \/ /\ ServerTurn \notin config.servers
        /\ NextServer("startServer", "serving") /\ UNCHANGED <<failed, servers>>
  /\ UNCHANGED <<config, database, engineStops, retentionStops, goroutines, connections, late>>

NoServers ==
  /\ Main("serving") /\ config.servers = {}
  /\ failed' = TRUE
  /\ MainGoes(EngineStopped)
  /\ UNCHANGED <<config, database, engineStops, retentionStops, goroutines, servers, connections, late>>

Signal ==
  /\ Main("serving") /\ config.servers # {}
  /\ MainGoes("cancelServer")
  /\ UNCHANGED <<config, database, failed, engineStops, retentionStops, goroutines, servers,
                 connections, late>>

-------------------------------------------------------------------------------
(* run(): stop. *)

\* Stop of one server: cancel, close the listener, wait for the wait group.  A
\* connection nobody has accepted yet is reset with the listener.
CancelServer ==
  /\ Main("cancelServer")
  /\ IF ServerTurn \in config.servers
     THEN /\ servers' = [servers EXCEPT ![ServerTurn].cancelled = TRUE]
          /\ main' = [main EXCEPT !.at = "closeListener"]
     ELSE NextServer("cancelServer", EngineStopped) /\ UNCHANGED servers
  /\ UNCHANGED <<config, database, failed, engineStops, retentionStops, goroutines, connections, late>>

\* Variant of CloseListener: the accept loop is left to see the context.
LeaveListenerOpen ==
  /\ Main("closeListener")
  /\ main' = [main EXCEPT !.at = "awaitServer"]
  /\ UNCHANGED <<config, database, failed, engineStops, retentionStops, goroutines, servers,
                 connections, late>>

CloseListener ==
  /\ Main("closeListener")
  /\ servers' = [servers EXCEPT ![ServerTurn].listener = "closed"]
  /\ connections' = [c \in Connections |->
       IF connections[c] = [at |-> "queued", server |-> ServerTurn] THEN Unconnected ELSE connections[c]]
  /\ main' = [main EXCEPT !.at = "awaitServer"]
  /\ UNCHANGED <<config, database, failed, engineStops, retentionStops, goroutines, late>>

OpenAt(p) == {c \in Connections : /\ connections[c].at \notin {"none", "queued"}
                                  /\ connections[c].server = p}

\* Variant of AwaitServer: the wait group counts the accept loop only.
AwaitAcceptor ==
  /\ Main("awaitServer")
  /\ servers[ServerTurn].acceptor = "exited"
  /\ NextServer("cancelServer", EngineStopped)
  /\ UNCHANGED <<config, database, failed, engineStops, retentionStops, goroutines, servers,
                 connections, late>>

AwaitServer ==
  /\ Main("awaitServer")
  /\ servers[ServerTurn].acceptor = "exited" /\ OpenAt(ServerTurn) = {}
  /\ NextServer("cancelServer", EngineStopped)
  /\ UNCHANGED <<config, database, failed, engineStops, retentionStops, goroutines, servers,
                 connections, late>>

\* The engine's Stop cancels and waits for the workers.
StopEngine ==
  /\ Main("stopEngine")
  /\ engineStops' = TRUE
  /\ MainGoes("awaitEngine")
  /\ UNCHANGED <<config, database, failed, retentionStops, goroutines, servers, connections, late>>

AwaitEngine ==
  /\ Main("awaitEngine") /\ goroutines["worker"] = "exited"
  /\ MainGoes("stopRetention")
  /\ UNCHANGED <<config, database, failed, engineStops, retentionStops, goroutines, servers,
                 connections, late>>

StopRetention ==
  /\ Main("stopRetention")
  /\ retentionStops' = TRUE
  /\ MainGoes("awaitRetention")
  /\ UNCHANGED <<config, database, failed, engineStops, goroutines, servers, connections, late>>

\* doneChan is closed by the re-evaluation loop, if that was ever started.
AwaitRetention ==
  /\ Main("awaitRetention") /\ goroutines["reEval"] = "exited"
  /\ MainGoes("closeStore")
  /\ UNCHANGED <<config, database, failed, engineStops, retentionStops, goroutines, servers,
                 connections, late>>

CloseStore ==
  /\ Main("closeStore")
  /\ database' = "closed"
  /\ MainGoes("cancel")
  /\ UNCHANGED <<config, failed, engineStops, retentionStops, goroutines, servers, connections, late>>

\* cancel() is deferred first and runs last; the process ends with it.
Exit ==
  /\ Main("cancel")
  /\ MainGoes("exited")
  /\ UNCHANGED <<config, database, failed, engineStops, retentionStops, goroutines, servers,
                 connections, late>>

-------------------------------------------------------------------------------
(* The goroutines. *)

Alive == main.at # "exited"

Uses(user) == late' = IF database = "closed" THEN late \cup {user} ELSE late

StopsFor(g) == IF g \in {"worker", "relay"} THEN engineStops ELSE retentionStops

\* A goroutine of the engine or of retention begins something that uses the
\* store, and finishes it; a loop that is told to stop does so between the two.
GoroutineBegins(g) ==
  /\ Alive /\ goroutines[g] = "idle"
  /\ goroutines' = [goroutines EXCEPT ![g] = "busy"]
  /\ UNCHANGED <<main, config, database, failed, engineStops, retentionStops, servers, connections, late>>

GoroutineUsesStore(g) ==
  /\ Alive /\ goroutines[g] = "busy"
  /\ Uses(g)
  /\ goroutines' = [goroutines EXCEPT ![g] = "idle"]
  /\ UNCHANGED <<main, config, database, failed, engineStops, retentionStops, servers, connections>>

GoroutineExits(g) ==
  /\ Alive /\ goroutines[g] = "idle" /\ StopsFor(g)
  /\ goroutines' = [goroutines EXCEPT ![g] = "exited"]
  /\ UNCHANGED <<main, config, database, failed, engineStops, retentionStops, servers, connections, late>>

ConnectionGoes(c, at) == connections' = [connections EXCEPT ![c].at = at]

Connect(c, p) ==
  /\ Alive /\ connections[c] = Unconnected /\ servers[p].listener = "open"
  /\ connections' = [connections EXCEPT ![c] = [at |-> "queued", server |-> p]]
  /\ UNCHANGED <<main, config, database, failed, engineStops, retentionStops, goroutines, servers, late>>

\* The cancelled context does not matter as long as Accept succeeds.
Accept(c) ==
  /\ Alive /\ connections[c].at = "queued"
  /\ servers[connections[c].server].acceptor = "running"
  /\ ConnectionGoes(c, "reading")
  /\ UNCHANGED <<main, config, database, failed, engineStops, retentionStops, goroutines, servers, late>>

AcceptorExits(p) ==
  /\ Alive /\ servers[p].acceptor = "running"
  /\ servers[p].listener = "closed" /\ servers[p].cancelled
  /\ servers' = [servers EXCEPT ![p].acceptor = "exited"]
  /\ UNCHANGED <<main, config, database, failed, engineStops, retentionStops, goroutines,
                 connections, late>>

\* A line arrives, or the client leaves or lets ten seconds pass.
ReadRequest(c) ==
  /\ Alive /\ connections[c].at = "reading"
  /\ \E at \in {"routing", "answering"} : ConnectionGoes(c, at)
  /\ UNCHANGED <<main, config, database, failed, engineStops, retentionStops, goroutines, servers, late>>

RouteRequest(c) ==
  /\ Alive /\ connections[c].at = "routing"
  /\ Uses(connections[c].server)
  /\ ConnectionGoes(c, "answering")
  /\ UNCHANGED <<main, config, database, failed, engineStops, retentionStops, goroutines, servers>>

\* The response, if there is one, is written and the connection closed.
Answer(c) ==
  /\ Alive /\ connections[c].at = "answering"
  /\ connections' = [connections EXCEPT ![c] = Unconnected]
  /\ UNCHANGED <<main, config, database, failed, engineStops, retentionStops, goroutines, servers, late>>

-------------------------------------------------------------------------------
MainStep ==
  \/ OpenStore \/ StartRetention \/ StartEngine \/ StartServer \/ NoServers
  \/ CancelServer \/ CloseListener \/ AwaitServer \/ StopEngine \/ AwaitEngine
  \/ StopRetention \/ AwaitRetention \/ CloseStore \/ Exit

HandleConnection(c) == ReadRequest(c) \/ RouteRequest(c) \/ Answer(c)

ProcNext ==
  \/ MainStep \/ Signal
  \/ \E g \in DOMAIN goroutines : GoroutineBegins(g) \/ GoroutineUsesStore(g) \/ GoroutineExits(g)
  \/ \E p \in Protocols : AcceptorExits(p) \/ \E c \in Connections : Connect(c, p)
  \/ \E c \in Connections : Accept(c) \/ HandleConnection(c)

\* Every goroutine is scheduled: reads and writes have deadlines, a query and a
\* pass over the store end, and a loop whose select also has a closed stop
\* channel does not choose the other case for ever.
ProcFairness ==
  /\ WF_procVars(MainStep)
  /\ \A g \in {"worker", "relay", "reEval", "scheduler"} :
       WF_procVars(GoroutineUsesStore(g)) /\ SF_procVars(GoroutineExits(g))
  /\ \A p \in Protocols : WF_procVars(AcceptorExits(p))
  /\ \A c \in Connections : WF_procVars(HandleConnection(c))

ProcSpec == ProcInit /\ [][ProcNext]_procVars /\ ProcFairness

ProcTypeOK ==
  /\ main.server \in DOMAIN ServerOrder
  /\ database \in {"none", "open", "closed"}
  /\ \A g \in DOMAIN goroutines : goroutines[g] \in {"none", "idle", "busy", "exited"}
  /\ \A c \in Connections : connections[c].at # "none" => connections[c].server \in config.servers

\* Nobody meets a closed store but the two kinds of goroutine that no Stop waits
\* for; and when every server was started, every request that a server accepted
\* has been answered by then, also one that was accepted between the cancellation
\* and the closing of the listener (run, and Stop and acceptConnections of the
\* three servers).
StoreOutlivesItsUsers ==
  /\ late \subseteq {"relay", "scheduler"} \cup (IF failed THEN Protocols ELSE {})
  /\ database = "closed" /\ ~failed =>
       \A c \in Connections : connections[c].at \in {"none"}

\* After the signal the process ends, whatever its servers, its workers and its
\* clients are doing; provided that the re-evaluation worker was started, without
\* which the retention manager's Stop never returns.
ShutdownFinishes == (Main("cancelServer") /\ config.reEval) ~> Main("exited")
===============================================================================
