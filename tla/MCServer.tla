------------------------------- MODULE MCServer -------------------------------
(***************************************************************************)
(* The HTTP server and the thread pool it hands its connections to.  The   *)
(* server's own steps are those of HttpServer, which knows of a pool what  *)
(* TaskExecutor says of it; ThreadPool is the pool, and implements that.   *)
(* So the two are checked side by side: a behaviour is one of one of them, *)
(* the other stays as it was made.                                         *)
(***************************************************************************)
EXTENDS ThreadPool

CONSTANTS Servers, Stops, Visitors, Port, None, Overlap, WakerMayFail   \* of the server

VARIABLES
  component,
  server_running, srv_listening, srv_port, server, got, stop, target, conn, at, told

ASSUME HttpServerAssumption ==
  /\ Stops \cap Visitors = {}
  /\ DOMAIN Port = Servers
  /\ None \notin Servers \cup Stops \cup Visitors
  /\ Overlap \in BOOLEAN
  /\ WakerMayFail \in BOOLEAN

Srv == INSTANCE HttpServer WITH Clients <- Visitors

http ==
  <<server_running, srv_listening, srv_port, server, got, stop, target, conn, at, told>>
allVars == <<component, vars, http>>

MCInit ==
  /\ component \in {"pool", "server"}
  /\ Init /\ Srv!Init

PoolTakes == component = "pool" /\ UNCHANGED <<component, http>>
ServerTakes == component = "server" /\ UNCHANGED <<component, vars>>

MCNext ==
  \/ Next /\ PoolTakes
  \/ Srv!Next /\ ServerTakes

\* The fairness of ThreadPool!FairSpec
PoolFairness ==
  /\ WF_allVars(StartWorker /\ PoolTakes)
  /\ WF_allVars(JoinWorker /\ PoolTakes)
  /\ WF_allVars(FreePool /\ PoolTakes)
  /\ \A w \in Workers : WF_allVars(WorkerNext(w) /\ PoolTakes)
  /\ \A c \in Clients : WF_allVars(ClientNext(c) /\ PoolTakes)

\* The fairness of HttpServer!FairSpec
ServerFairness ==
  /\ \A s \in Servers : /\ WF_allVars(Srv!ServerStep(s) /\ ServerTakes)
                        /\ SF_allVars(Srv!Accept(s) /\ ServerTakes)
  /\ \A p \in Stops : WF_allVars(Srv!Wake(p) /\ ServerTakes)
  /\ \A c \in Stops \cup Visitors : /\ WF_allVars(Srv!BeginConn(c) /\ ServerTakes)
                                    /\ WF_allVars(Srv!FinishConn(c) /\ ServerTakes)

MCSpec == MCInit /\ [][MCNext]_allVars /\ PoolFairness /\ ServerFairness

-----------------------------------------------------------------------------
(* Each server uses its pool as TaskExecutor allows: the jobs it queued are  *)
(* the accepted tasks, the ones it served itself the refused ones.          *)

Pool(s) ==
  INSTANCE TaskExecutor WITH
    Tasks <- Srv!Conns,
    open <- Srv!PoolOpen(s),
    state <- [c \in Srv!Conns |-> Srv!JobState(s, c)]

\* Every server's jobs are a behaviour of TaskExecutor: none is served twice, by
\* the pool and inline, and none is queued on a pool that is drained.
UsesPoolAsExecutor ==
  /\ \A s \in Servers : Pool(s)!Init
  /\ [][ \A s \in Servers : [Pool(s)!Next]_(Pool(s)!vars) ]_allVars

\* A connection is served or dropped once: by the pool or by the loop that accepted it,
\* never by both, and never again after it was closed.
ServedOnce == Srv!ClosedOnce /\ UsesPoolAsExecutor

\* A stop that finds srv_listening connects to a socket that is open, and it finds a
\* server for as long as that server accepts connections.
PublishedIsOpen == Srv!PublishedIsOpen

\* When the server returns, every connection it took has been closed, and the
\* pool, by then destroyed, has none left.
DrainedBeforeReturn == Srv!DrainedBeforeReturn

\* A server that was told to stop serves nothing that it accepts from then on.
StopSticks == Srv!StopSticks

\* http_stop_server makes the server it found return, unless its own connection
\* fails and nobody else connects.
StopEndsServer == Srv!StopEndsServer

\* The instance in which a server is restarted on the port of the one before it
SamePort == [s \in Servers |-> 1]
===============================================================================
