------------------------------ MODULE HttpServer ------------------------------
(***************************************************************************)
(* The life of the HTTP server of network/http.c: calls of                 *)
(* http_start_server_ex, each with its own listening socket and pool, all  *)
(* publishing their state in the same static variables; calls of           *)
(* http_stop_server, which clear the run flag and then wake the accept     *)
(* loop with a connection of their own; and the clients' connections.      *)
(*                                                                         *)
(* Sections under srv_lock are single steps.  The pool is represented by   *)
(* what TaskExecutor says of it: an accepted connection is started and     *)
(* served, and thread_pool_wait returns when none is left.                 *)
(***************************************************************************)
EXTENDS Naturals, FiniteSets

CONSTANTS
  Servers,        \* calls of http_start_server_ex
  Stops,          \* calls of http_stop_server; each is also its own waker
  Clients,        \* connections that clients open
  Port,           \* the port of each server
  None,
  Overlap,        \* a server may be started before the previous call returned
  WakerMayFail    \* the waker's socket or connection may fail

Conns == Stops \cup Clients

VARIABLES
  server_running,
  srv_listening,
  srv_port,      \* a server whose Port is the published one, or None
  server,        \* where each call of http_start_server_ex is
  got,           \* the connection its last accept returned, or None
  stop,          \* where each call of http_stop_server is
  target,        \* whose port it read
  conn,          \* what became of each connection
  at,            \* the server whose listening socket it reached
  told           \* history: servers listening when a stop cleared the flag

vars == <<server_running, srv_listening, srv_port, server, got, stop, target,
          conn, at, told>>
flags == <<server_running, srv_listening, srv_port>>

Bound == {"bound", "published", "accept", "flag", "dispatch", "inline",
          "drain", "unpublish", "close"}
Serving == {"published", "accept", "flag", "dispatch", "inline"}

Init ==
  /\ server_running = FALSE
  /\ srv_listening = FALSE
  /\ srv_port = None
  /\ server = [s \in Servers |-> "off"]
  /\ got = [s \in Servers |-> None]
  /\ stop = [p \in Stops |-> "idle"]
  /\ target = [p \in Stops |-> None]
  /\ conn = [c \in Conns |-> "new"]
  /\ at = [c \in Conns |-> None]
  /\ told = {}

Goto(s, next) == server' = [server EXCEPT ![s] = next]
Becomes(c, state) == conn' = [conn EXCEPT ![c] = state]
Backlog(s) == {c \in Conns : at[c] = s /\ conn[c] = "backlog"}
InFlight(s) == {c \in Conns : at[c] = s /\ conn[c] \in {"queued", "serving"}}

-----------------------------------------------------------------------------
(* http_start_server_ex                                                    *)

\* tcp_init, tcp_bind and tcp_listen: from here on clients can connect.
StartServer(s) ==
  /\ server[s] = "off"
  /\ Overlap \/ \A r \in Servers : server[r] \in {"off", "returned"}
  /\ IF \E r \in Servers : server[r] \in Bound /\ Port[r] = Port[s]
     THEN Goto(s, "returned")
     ELSE Goto(s, "bound")
  /\ UNCHANGED <<flags, got, stop, target, conn, at, told>>

PublishServer(s) ==
  /\ server[s] = "bound"
  /\ srv_port' = s
  /\ srv_listening' = TRUE
  /\ server_running' = TRUE
  /\ Goto(s, "published")
  /\ UNCHANGED <<got, stop, target, conn, at, told>>

\* thread_pool_create, which may fail
CreatePool(s) ==
  /\ server[s] = "published"
  /\ \/ Goto(s, "accept") /\ UNCHANGED flags
     \/ /\ Goto(s, "close")
        /\ srv_listening' = FALSE
        /\ server_running' = FALSE
        /\ UNCHANGED srv_port
  /\ UNCHANGED <<got, stop, target, conn, at, told>>

\* tcp_accept returns a connection, or a transient error.
Accept(s) ==
  /\ server[s] = "accept"
  /\ Goto(s, "flag")
  /\ \E c \in Backlog(s) :
       /\ got' = [got EXCEPT ![s] = c]
       /\ Becomes(c, "accepted")
  /\ UNCHANGED <<flags, stop, target, at, told>>

AcceptError(s) ==
  /\ server[s] = "accept"
  /\ Goto(s, "flag")
  /\ got' = [got EXCEPT ![s] = None]
  /\ UNCHANGED <<flags, stop, target, conn, at, told>>

\* Mutant: a connection in hand is served without looking at the flag again.
ReadRunFlagWhenIdle(s) ==
  /\ server[s] = "flag"
  /\ Goto(s, IF got[s] # None THEN "dispatch"
             ELSE IF server_running THEN "accept" ELSE "drain")
  /\ UNCHANGED <<flags, got, stop, target, conn, at, told>>

\* The flag is read after the accept: a stop ends the loop, and the connection
\* in hand, taken for the waker's, is closed whoever opened it.
ReadRunFlag(s) ==
  /\ server[s] = "flag"
  /\ IF server_running
     THEN /\ Goto(s, IF got[s] = None THEN "accept" ELSE "dispatch")
          /\ UNCHANGED conn
     ELSE /\ Goto(s, "drain")
          /\ IF got[s] = None THEN UNCHANGED conn ELSE Becomes(got[s], "dropped")
  /\ UNCHANGED <<flags, got, stop, target, at, told>>

\* Mutant: a refused job is served inline although it was also queued.
DispatchTwice(s) ==
  /\ server[s] = "dispatch"
  /\ Becomes(got[s], "queued")
  /\ \E next \in {"accept", "inline"} : Goto(s, next)
  /\ UNCHANGED <<flags, got, stop, target, at, told>>

\* Queued on the pool, refused by it and served here, or shed for lack of memory.
Dispatch(s) ==
  /\ server[s] = "dispatch"
  /\ \/ Becomes(got[s], "queued") /\ Goto(s, "accept")
     \/ Becomes(got[s], "inline") /\ Goto(s, "inline")
     \/ Becomes(got[s], "dropped") /\ Goto(s, "accept")
  /\ UNCHANGED <<flags, got, stop, target, at, told>>

ServeInline(s) ==
  /\ server[s] = "inline"
  /\ Becomes(got[s], "servedInline")
  /\ Goto(s, "accept")
  /\ UNCHANGED <<flags, got, stop, target, at, told>>

\* A worker of the pool: hp_serve_conn, up to tcp_close
BeginConn(c) ==
  /\ conn[c] = "queued"
  /\ Becomes(c, "serving")
  /\ UNCHANGED <<flags, server, got, stop, target, at, told>>

FinishConn(c) ==
  /\ conn[c] = "serving"
  /\ Becomes(c, "served")
  /\ UNCHANGED <<flags, server, got, stop, target, at, told>>

\* Mutant: the pool is not drained before the server goes on to return.
DrainNothing(s) ==
  /\ server[s] = "drain"
  /\ Goto(s, "unpublish")
  /\ UNCHANGED <<flags, got, stop, target, conn, at, told>>

\* thread_pool_wait and thread_pool_destroy
Drain(s) ==
  /\ server[s] = "drain"
  /\ InFlight(s) = {}
  /\ Goto(s, "unpublish")
  /\ UNCHANGED <<flags, got, stop, target, conn, at, told>>

\* Mutant: the listening socket is closed while it is still published.
UnpublishNothing(s) ==
  /\ server[s] = "unpublish"
  /\ Goto(s, "close")
  /\ UNCHANGED <<flags, got, stop, target, conn, at, told>>

Unpublish(s) ==
  /\ server[s] = "unpublish"
  /\ srv_listening' = FALSE
  /\ Goto(s, "close")
  /\ UNCHANGED <<server_running, srv_port, got, stop, target, conn, at, told>>

\* tcp_close: the platform resets what was never accepted.
CloseListener(s) ==
  /\ server[s] = "close"
  /\ Goto(s, "returned")
  /\ conn' = [c \in Conns |-> IF c \in Backlog(s) THEN "dropped" ELSE conn[c]]
  /\ UNCHANGED <<flags, got, stop, target, at, told>>

-----------------------------------------------------------------------------
(* http_stop_server                                                        *)

ClearRunFlag(p) ==
  /\ stop[p] = "idle"
  /\ server_running' = FALSE
  /\ target' = [target EXCEPT ![p] = srv_port]
  /\ stop' = [stop EXCEPT ![p] = IF srv_listening THEN "wake" ELSE "returned"]
  /\ told' = IF srv_listening THEN told \cup {srv_port} ELSE told
  /\ UNCHANGED <<srv_listening, srv_port, server, got, conn, at>>

\* Mutant: the stop only clears the flag.
WakeNobody(p) ==
  /\ stop[p] = "wake"
  /\ stop' = [stop EXCEPT ![p] = "returned"]
  /\ UNCHANGED <<flags, server, got, target, conn, at, told>>

\* The waker connects to whoever listens on the port by now, if anybody does.
Wake(p) ==
  LET open == {s \in Servers : server[s] \in Bound /\ Port[s] = Port[target[p]]}
  IN  /\ stop[p] = "wake"
      /\ stop' = [stop EXCEPT ![p] = "returned"]
      /\ \/ \E s \in open :
              /\ Becomes(p, "backlog")
              /\ at' = [at EXCEPT ![p] = s]
         \/ /\ open = {} \/ WakerMayFail
            /\ Becomes(p, "dropped")
            /\ UNCHANGED at
      /\ UNCHANGED <<flags, server, got, target, told>>

Connect(c) ==
  /\ conn[c] = "new"
  /\ \E s \in Servers :
       /\ server[s] \in Bound
       /\ at' = [at EXCEPT ![c] = s]
  /\ Becomes(c, "backlog")
  /\ UNCHANGED <<flags, server, got, stop, target, told>>

-----------------------------------------------------------------------------

ServerStep(s) ==
  \/ PublishServer(s)
  \/ CreatePool(s)
  \/ Accept(s)
  \/ ReadRunFlag(s)
  \/ Dispatch(s)
  \/ ServeInline(s)
  \/ Drain(s)
  \/ Unpublish(s)
  \/ CloseListener(s)

Done ==
  /\ \A s \in Servers : server[s] = "returned"
  /\ \A p \in Stops : stop[p] = "returned"
  /\ \A c \in Conns : conn[c] \in {"new", "served", "servedInline", "dropped"}
  /\ UNCHANGED vars

Next ==
  \/ \E s \in Servers : StartServer(s) \/ ServerStep(s) \/ AcceptError(s)
  \/ \E p \in Stops : ClearRunFlag(p) \/ Wake(p)
  \/ \E c \in Clients : Connect(c)
  \/ \E c \in Conns : BeginConn(c) \/ FinishConn(c)
  \/ Done

Spec == Init /\ [][Next]_vars

\* Threads are scheduled, a handler returns (every read of it has a timeout) and
\* an accept with a connection waiting for it takes one.
FairSpec ==
  /\ Spec
  /\ \A s \in Servers : WF_vars(ServerStep(s)) /\ SF_vars(Accept(s))
  /\ \A p \in Stops : WF_vars(Wake(p))
  /\ \A c \in Conns : WF_vars(BeginConn(c)) /\ WF_vars(FinishConn(c))

-----------------------------------------------------------------------------

TypeOK ==
  /\ server_running \in BOOLEAN
  /\ srv_listening \in BOOLEAN
  /\ srv_port \in Servers \cup {None}
  /\ server \in [Servers -> Bound \cup {"off", "returned"}]
  /\ got \in [Servers -> Conns \cup {None}]
  /\ stop \in [Stops -> {"idle", "wake", "returned"}]
  /\ target \in [Stops -> Servers \cup {None}]
  /\ conn \in [Conns -> {"new", "backlog", "accepted", "queued", "inline",
                         "serving", "served", "servedInline", "dropped"}]
  /\ at \in [Conns -> Servers \cup {None}]
  /\ told \subseteq Servers

\* A stop that finds srv_listening connects to a socket that is open, and it finds a
\* server for as long as that server accepts connections.
PublishedIsOpen ==
  /\ TypeOK
  /\ srv_listening => srv_port # None /\ server[srv_port] \in Bound
  /\ (\E s \in Servers : server[s] \in {"accept", "flag", "dispatch", "inline"}) => srv_listening

\* When the server returns, every connection it took has been closed, and the
\* pool, by then destroyed, has none left.
DrainedBeforeReturn ==
  \A s \in Servers : server[s] \in {"unpublish", "close", "returned"} =>
    \A c \in Conns : at[c] = s => conn[c] \notin {"accepted", "inline", "queued", "serving"}

\* A server that was told to stop serves nothing that it accepts from then on.
StopSticks ==
  [][ \A s \in told : server[s] = "flag" => server'[s] # "dispatch" ]_vars

\* A connection that was answered or closed is never touched again.
ClosedOnce ==
  [][ \A c \in Conns : conn[c] \in {"served", "servedInline", "dropped"} => conn'[c] = conn[c] ]_vars

-----------------------------------------------------------------------------
(* A server's connections as the jobs it has given to its pool              *)

PoolOpen(s) == server[s] \notin {"unpublish", "close", "returned"}

JobState(s, c) ==
  IF at[c] # s THEN "new"
  ELSE CASE conn[c] = "queued" -> "accepted"
         [] conn[c] = "serving" -> "running"
         [] conn[c] = "served" -> "finished"
         [] conn[c] \in {"inline", "servedInline"} -> "refused"
         [] OTHER -> "new"

-----------------------------------------------------------------------------

WakerFailed(s) == \E p \in Stops : target[p] = s /\ conn[p] = "dropped" /\ at[p] = None

\* http_stop_server makes the server it found return, unless its own connection
\* fails and nobody else connects.
StopEndsServer ==
  \A s \in Servers : s \in told ~> server[s] = "returned" \/ WakerFailed(s)
================================================================================
