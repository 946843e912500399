---------------------------- MODULE HttpsServer -----------------------------
(***************************************************************************)
(* The accept loop of HttpsServer (https_server.cc): as that of HttpServer *)
(* with a TLS handshake between accept and fork, made by the server        *)
(* process itself.  Clients, children and stopListen are HttpServer's; the *)
(* specification of both classes is that of ServerProcess.                 *)
(***************************************************************************)
EXTENDS HttpServer

CONSTANTS Silent,       \* connections whose client never answers the handshake
          Refused       \* connections whose handshake fails

ASSUME HttpsServerAssumption ==
  Silent \subseteq Conns /\ Refused \subseteq Conns /\ Silent \cap Refused = {}

VARIABLE ssl            \* the SSL objects of the server process

httpsVars == <<vars, ssl>>

HttpsInit == Init /\ ssl = {}

(* A failed handshake that is dispatched all the same. *)
MutHandshakeFails ==
  /\ ppc = "handshake" /\ client \in Refused
  /\ ppc' = "dispatch"
  /\ UNCHANGED <<backlog, stopped, client, child, sockVars, idVars, late, ssl>>

(* sslHandshake fails: SSL_free, and the iteration ends. *)
HandshakeFails ==
  /\ ppc = "handshake" /\ client \in Refused
  /\ ppc' = "next"
  /\ UNCHANGED <<backlog, stopped, client, child, sockVars, idVars, late, ssl>>

(* SSL_accept writes to a client that is gone: SIGPIPE, which nobody       *)
(* handles, ends the server process, its children go on.                   *)
HandshakeKilled ==
  /\ ppc = "handshake" /\ client \in Refused
  /\ ppc' = "killed" /\ client' = NoConn
  /\ lfds' = lfds \ {Server}
  /\ fds' = [x \in Conns |-> fds[x] \ {Server}]
  /\ UNCHANGED <<backlog, stopped, child, idVars, late, ssl>>

(* The server process keeps its copy of the object; the child frees its    *)
(* own.                                                                    *)
HandshakeDone ==
  /\ ppc = "handshake" /\ client \notin Silent \cup Refused
  /\ ssl' = ssl \cup {client}
  /\ ppc' = "dispatch"
  /\ UNCHANGED <<backlog, stopped, client, child, sockVars, idVars, late>>

httpsIntakeCycle ==
  \/ /\ \/ CallAccept \/ AcceptFails \/ acceptConnection("handshake")
        \/ fork \/ forkFails \/ EndIteration
     /\ UNCHANGED ssl
  \/ HandshakeDone \/ HandshakeFails \/ HandshakeKilled

-----------------------------------------------------------------------------
(* The variables of HttpServer, and SSL objects of connections only. *)
HttpsTypeOK == TypeOK /\ ssl \subseteq Conns

(* Who has a child has completed its handshake, and has an SSL object. *)
ChildHasSsl == \A c \in Conns : child[c] # "none" => c \in ssl /\ c \notin Refused
=============================================================================
