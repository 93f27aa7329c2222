----------------------------- MODULE TlsSessions -----------------------------
(***************************************************************************)
(* The TLS part of network/tcp.c: one process-wide context, and a table of *)
(* fixed size from socket descriptors to SSL objects.  Threads open client *)
(* connections with tcp_connect_tls, which is a sequence of sections under *)
(* tcp_mutex, enable TLS on sockets they have accepted, and close them     *)
(* with tcp_ssl_close or with tcp_close, which does not know the table;    *)
(* the platform hands a closed descriptor out again.                       *)
(***************************************************************************)
EXTENDS Naturals, FiniteSets

CONSTANTS
  Threads,
  Sockets,      \* descriptors
  Slots,        \* the entries of sslMappings: MAX_SSL_CONNECTIONS of them
  Objects,      \* bounds the SSL objects that are ever created
  None,
  MayCleanUp    \* whether tcp_ssl_cleanup is called while connections are open

VARIABLES
  ssl_ctx,      \* None, or "server" or "client" by the method it was made for
  verify_mode,  \* SSL_VERIFY_PEER is set in the context
  table,        \* sslMappings: the socket and the object of each slot
  open,         \* the sockets that are open
  object,       \* "new", "live" or "freed"; leaked objects stay live
  pc,
  call,         \* the arguments and the locals of each thread's call
  left          \* history: the sockets whose session tcp_close left in the table

vars == <<ssl_ctx, verify_mode, table, open, object, pc, call, left>>

Empty == [socket |-> None, ssl |-> None]
Idle == [verify |-> FALSE, trusted |-> FALSE, socket |-> None, ssl |-> None]

Init ==
  /\ ssl_ctx = None
  /\ verify_mode = FALSE
  /\ table = [i \in Slots |-> Empty]
  /\ open = {}
  /\ object = [o \in Objects |-> "new"]
  /\ pc = [t \in Threads |-> "idle"]
  /\ call = [t \in Threads |-> Idle]
  /\ left = {}

-----------------------------------------------------------------------------
(* get_ssl_mapping, tcp_set_ssl, tcp_get_ssl                               *)

SlotsOf(s) == {i \in Slots : table[i].socket = s}

\* The slot of a socket, or one that is free; none if the table is full.
SlotsFor(s) == IF SlotsOf(s) # {} THEN SlotsOf(s) ELSE SlotsOf(None)

Mapped(s) == IF SlotsOf(s) = {} THEN None ELSE table[CHOOSE i \in SlotsOf(s) : TRUE].ssl

PutSsl(i, s, o) ==
  /\ table' = [table EXCEPT ![i] = [socket |-> s, ssl |-> o]]
  /\ left' = left \ {s}

\* An assignment that is silently dropped when the table is full.
SetSsl(s, o) ==
  IF SlotsFor(s) = {}
  THEN UNCHANGED <<table, left>>
  ELSE \E i \in SlotsFor(s) : PutSsl(i, s, o)

\* Mutant: the object is freed and the slot is kept.
KeepMapping(s) == table

RemoveMapping(s) == [i \in Slots |-> IF i \in SlotsOf(s) THEN Empty ELSE table[i]]

\* The next object: which one of those that are not used yet does not matter.
Fresh ==
  LET unused == {o \in Objects : object[o] = "new"}
  IN  IF unused = {} THEN {} ELSE {CHOOSE o \in unused : TRUE}

Returns(t) ==
  /\ pc' = [pc EXCEPT ![t] = "idle"]
  /\ call' = [call EXCEPT ![t] = Idle]

-----------------------------------------------------------------------------
(* The context                                                             *)

InitContext(method) ==
  /\ ssl_ctx = None
  /\ ssl_ctx' = method
  /\ verify_mode' = FALSE
  /\ table' = [i \in Slots |-> Empty]
  /\ left' = {}

\* tcp_ssl_init
InitServerContext ==
  /\ InitContext("server")
  /\ UNCHANGED <<open, object, pc, call>>

\* tcp_ssl_cleanup frees the context; the table and the objects stay.
CleanUp ==
  /\ MayCleanUp
  /\ ssl_ctx # None
  /\ ssl_ctx' = None
  /\ UNCHANGED <<verify_mode, table, open, object, pc, call, left>>

-----------------------------------------------------------------------------
(* tcp_connect_tls                                                         *)

CallConnect(t) ==
  /\ pc[t] = "idle"
  /\ pc' = [pc EXCEPT ![t] = "init"]
  /\ \E v, trusted \in BOOLEAN :
       call' = [call EXCEPT ![t] = [Idle EXCEPT !.verify = v, !.trusted = trusted]]
  /\ UNCHANGED <<ssl_ctx, verify_mode, table, open, object, left>>

\* tcp_ssl_init_client: a no-op if there is a context, of whatever method.
InitClient(t) ==
  /\ pc[t] = "init"
  /\ pc' = [pc EXCEPT ![t] = "verify"]
  /\ InitContext("client") \/ (ssl_ctx # None /\ UNCHANGED <<ssl_ctx, verify_mode, table, left>>)
  /\ UNCHANGED <<open, object, call>>

\* tcp_ssl_set_verify writes the mode of the context that all threads share.
SetVerify(t) ==
  /\ pc[t] = "verify"
  /\ IF ssl_ctx = None
     THEN Returns(t) /\ UNCHANGED verify_mode
     ELSE /\ verify_mode' = call[t].verify
          /\ pc' = [pc EXCEPT ![t] = "socket"]
          /\ UNCHANGED call
  /\ UNCHANGED <<ssl_ctx, table, open, object, left>>

\* tcp_socket_create and tcp_connect_timeout, either of which may fail
ConnectSocket(t) ==
  /\ pc[t] = "socket"
  /\ \/ \E s \in Sockets \ open :
          /\ open' = open \cup {s}
          /\ pc' = [pc EXCEPT ![t] = "handshake"]
          /\ call' = [call EXCEPT ![t].socket = s]
     \/ Returns(t) /\ UNCHANGED open
  /\ UNCHANGED <<ssl_ctx, verify_mode, table, object, left>>

\* The handshake of a client: not with a server's context, and not with a peer
\* that the mode in force when the object was made does not accept.
MayShake(t) == ssl_ctx = "client" /\ (verify_mode => call[t].trusted)

\* tcp_ssl_connect; where it fails tcp_connect_tls closes the socket.
Handshake(t) ==
  LET s == call[t].socket
  IN  /\ pc[t] = "handshake"
      /\ \/ \E o \in Fresh, i \in SlotsFor(s) :
              /\ MayShake(t)
              /\ object' = [object EXCEPT ![o] = "live"]
              /\ PutSsl(i, s, o)
              /\ pc' = [pc EXCEPT ![t] = "check"]
              /\ call' = [call EXCEPT ![t].ssl = o]
              /\ UNCHANGED open
         \/ /\ open' = open \ {s}
            /\ Returns(t)
            /\ UNCHANGED <<object, table, left>>
      /\ UNCHANGED <<ssl_ctx, verify_mode>>

\* tcp_ssl_close: the object is freed, the slot cleared and the socket closed in
\* one section; a socket without an object is only closed.
CloseTls(t) ==
  LET s == call[t].socket
  IN  /\ object' = IF Mapped(s) = None THEN object ELSE [object EXCEPT ![Mapped(s)] = "freed"]
      /\ table' = IF Mapped(s) = None THEN table ELSE RemoveMapping(s)
      /\ left' = left \ {s}
      /\ open' = open \ {s}
      /\ Returns(t)
      /\ UNCHANGED <<ssl_ctx, verify_mode>>

\* Mutant: the handshake is trusted to have verified the peer.
NoCheck(t) ==
  /\ pc[t] = "check"
  /\ pc' = [pc EXCEPT ![t] = "connected"]
  /\ UNCHANGED <<ssl_ctx, verify_mode, table, open, object, call, left>>

\* The result of the verification is looked at again after the handshake: the
\* mode may have been another thread's.
CheckPeer(t) ==
  /\ pc[t] = "check"
  /\ IF call[t].verify /\ ~(Mapped(call[t].socket) # None /\ call[t].trusted)
     THEN CloseTls(t)
     ELSE /\ pc' = [pc EXCEPT ![t] = "connected"]
          /\ UNCHANGED <<ssl_ctx, verify_mode, table, open, object, call, left>>

HasConnection(t) == pc[t] \in {"connected", "enabled", "plain"}

CallSslClose(t) == HasConnection(t) /\ CloseTls(t)

\* tcp_ssl_recv at an end of the stream that the peer did not announce
ReceiveEnd(t) ==
  /\ HasConnection(t)
  /\ Mapped(call[t].socket) # None
  /\ CloseTls(t)

\* tcp_close closes the descriptor of whatever socket, and leaves the table and the
\* object as they are: the next connection that gets the descriptor finds them.
CallClose(t) ==
  LET s == call[t].socket
  IN  /\ HasConnection(t)
      /\ open' = open \ {s}
      /\ left' = IF Mapped(s) = None THEN left ELSE left \cup {s}
      /\ Returns(t)
      /\ UNCHANGED <<ssl_ctx, verify_mode, table, object>>

-----------------------------------------------------------------------------
(* A server's side                                                         *)

AcceptSocket(t) ==
  /\ pc[t] = "idle"
  /\ \E s \in Sockets \ open :
       /\ open' = open \cup {s}
       /\ pc' = [pc EXCEPT ![t] = "plain"]
       /\ call' = [call EXCEPT ![t].socket = s]
  /\ UNCHANGED <<ssl_ctx, verify_mode, table, object, left>>

\* tcp_enable_ssl returns TCP_SUCCESS whether or not the table had room.
EnableSsl(t) ==
  /\ pc[t] = "plain"
  /\ ssl_ctx # None
  /\ \E o \in Fresh :
       /\ object' = [object EXCEPT ![o] = "live"]
       /\ SetSsl(call[t].socket, o)
       /\ call' = [call EXCEPT ![t].ssl = o]
  /\ pc' = [pc EXCEPT ![t] = "enabled"]
  /\ UNCHANGED <<ssl_ctx, verify_mode, open>>

\* tcp_ssl_accept makes an object of its own, also for a socket that was enabled; a
\* handshake that fails, or a table that is full, leaves the socket as it was.
AcceptTls(t) ==
  /\ pc[t] \in {"plain", "enabled"}
  /\ ssl_ctx = "server"
  /\ \E o \in Fresh, i \in SlotsFor(call[t].socket) :
       /\ object' = [object EXCEPT ![o] = "live"]
       /\ PutSsl(i, call[t].socket, o)
       /\ call' = [call EXCEPT ![t].ssl = o]
  /\ pc' = [pc EXCEPT ![t] = "enabled"]
  /\ UNCHANGED <<ssl_ctx, verify_mode, open>>

\* tcp_disable_ssl; without an object it answers TCP_ERR_NO_SSL.
DisableSsl(t) ==
  LET s == call[t].socket
  IN  /\ pc[t] \in {"plain", "enabled"}
      /\ Mapped(s) # None
      /\ object' = [object EXCEPT ![Mapped(s)] = "freed"]
      /\ table' = RemoveMapping(s)
      /\ left' = left \ {s}
      /\ pc' = [pc EXCEPT ![t] = "plain"]
      /\ call' = [call EXCEPT ![t].ssl = None]
      /\ UNCHANGED <<ssl_ctx, verify_mode, open>>

-----------------------------------------------------------------------------

Next ==
  \/ InitServerContext
  \/ CleanUp
  \/ \E t \in Threads :
       \/ CallConnect(t)
       \/ InitClient(t)
       \/ SetVerify(t)
       \/ ConnectSocket(t)
       \/ Handshake(t)
       \/ CheckPeer(t)
       \/ CallSslClose(t)
       \/ ReceiveEnd(t)
       \/ CallClose(t)
       \/ AcceptSocket(t)
       \/ EnableSsl(t)
       \/ AcceptTls(t)
       \/ DisableSsl(t)

Spec == Init /\ [][Next]_vars

-----------------------------------------------------------------------------

TypeOK ==
  /\ ssl_ctx \in {None, "server", "client"}
  /\ verify_mode \in BOOLEAN
  /\ table \in [Slots -> [socket : Sockets, ssl : Objects] \cup {Empty}]
  /\ open \subseteq Sockets
  /\ object \in [Objects -> {"new", "live", "freed"}]
  /\ left \subseteq Sockets
  /\ pc \in [Threads -> {"idle", "init", "verify", "socket", "handshake", "check",
                         "connected", "plain", "enabled"}]

\* The table never leads to an object that was freed, two sockets never share an
\* object, and a socket has one slot.
NoDanglingSession ==
  /\ TypeOK
  /\ \A i, j \in Slots :
       /\ table[i].ssl # None => object[table[i].ssl] = "live"
       /\ i # j /\ table[i] # Empty =>
            table[i].socket # table[j].socket /\ table[i].ssl # table[j].ssl

\* Every session of the table is that of the thread that has its socket open, except
\* for the descriptors of left: there, and nowhere else, tcp_get_ssl has an object for a
\* socket that none was associated with (its comment, tcp.c:1056, says NULL).
NoInheritedSession ==
  \A i \in Slots : table[i] # Empty /\ table[i].socket \notin left =>
    /\ table[i].socket \in open
    /\ \E t \in Threads : call[t].socket = table[i].socket /\ call[t].ssl = table[i].ssl

\* What a connection finds for its socket is its own session or none, whatever the
\* order in which threads enable, close, free and clean up and descriptors are handed
\* out again, unless an earlier connection of the descriptor was closed with tcp_close
\* over its session; and even that one is live, and nobody else's.
SessionsOfConnections == NoDanglingSession /\ NoInheritedSession

\* tcp_connect_tls with verify succeeds only with a peer that is trusted, although
\* other threads change the mode of the context under it.
VerifiedIsTrusted ==
  \A t \in Threads : pc[t] = "connected" /\ call[t].verify => call[t].trusted

================================================================================
