------------------------------- MODULE MCNetwork -------------------------------
(***************************************************************************)
(* The two parts of network/ that keep a state of their own between calls: *)
(* the reader of HTTP requests and the TLS sessions of tcp.c.  They share  *)
(* none of it: a behaviour is one of one of them, the other stays as it    *)
(* was made.                                                               *)
(***************************************************************************)
EXTENDS HttpRequestReader, FiniteSets

CONSTANTS Threads, Sockets, Slots, Objects, None, MayCleanUp   \* of the TLS sessions

VARIABLES
  component,
  ssl_ctx, verify_mode, table, open, object, pc, call, left

ASSUME TlsSessionsAssumption ==
  /\ IsFiniteSet(Objects)
  /\ None \notin Sockets \cup Objects
  /\ MayCleanUp \in BOOLEAN

Tls == INSTANCE TlsSessions

tls == <<ssl_ctx, verify_mode, table, open, object, pc, call, left>>
allVars == <<component, vars, tls>>

\* While the sessions take their steps the reader waits for one request.
OneRequest == CHOOSE r \in Requests : TRUE

MCInit ==
  /\ component \in {"reader", "tls"}
  /\ Init /\ Tls!Init
  /\ component = "tls" => request = OneRequest

MCNext ==
  \/ component = "reader" /\ Next /\ UNCHANGED <<component, tls>>
  \/ component = "tls" /\ Tls!Next /\ UNCHANGED <<component, vars>>

MCSpec == MCInit /\ [][MCNext]_allVars

-----------------------------------------------------------------------------

\* What a connection finds for its socket is its own session or none, whatever the
\* order in which threads enable, close, free and clean up and descriptors are handed
\* out again, unless an earlier connection of the descriptor was closed with tcp_close
\* over its session; and even that one is live, and nobody else's.
SessionsOfConnections == Tls!SessionsOfConnections

\* tcp_connect_tls with verify succeeds only with a peer that is trusted, although
\* other threads change the mode of the context under it.
VerifiedIsTrusted == Tls!VerifiedIsTrusted
================================================================================
