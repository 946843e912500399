--------------------------- MODULE ServerProcess ----------------------------
(***************************************************************************)
(* A server process from listen() on: the search for a socket, then, once  *)
(* it listens, the accept loop of its class, HttpServer or HttpsServer,    *)
(* with the children, until stopListen.                                    *)
(***************************************************************************)
EXTENDS HttpsServer, ServerStart

VARIABLE tls            \* the object is an HttpsServer

processVars == <<httpsVars, startVars, tls>>

ProcessInit == HttpsInit /\ StartInit /\ tls \in BOOLEAN

(* listen() and the destructor; the loop has not begun. *)
Starts(step) == step /\ UNCHANGED <<httpsVars, tls>>

(* The loop, its clients and its children leave the start alone; the loop  *)
(* is that of the class.                                                   *)
Listening == pc \in {"accepting", "stopped"} /\ UNCHANGED <<startVars, tls>>

Intake ==
  /\ Listening
  /\ \/ tls /\ httpsIntakeCycle
     \/ ~tls /\ clientIntakeCycle /\ UNCHANGED ssl

Accepts ==
  /\ Listening /\ UNCHANGED ssl
  /\ \/ tls /\ acceptConnection("handshake")
     \/ ~tls /\ acceptConnection("dispatch")

ByChild(step) == Listening /\ UNCHANGED ssl /\ step

(* stopListen: closeConnection(sockfd_) in another thread. *)
Stops == StopAccepting /\ stopListen(sockfd_ > 0) /\ UNCHANGED <<ssl, tls>>

ProcessNext ==
  \/ Starts(listen \/ Destroy)
  \/ Intake
  \/ \E c \in Conns : ByChild(Connect(c) \/ Child(c))
  \/ Stops

(* A call of listen that has begun goes on, nobody has to call; the loop,  *)
(* accept and the children are as fair as in HttpServer.                   *)
ProcessFairness ==
  /\ WF_processVars(Starts(buildSocket))
  /\ WF_processVars(Starts(ListenFails \/ listenInternal))
  /\ WF_processVars(Intake)
  /\ SF_processVars(Accepts)
  /\ \A c \in Conns : WF_processVars(ByChild(Runs(c)))

ProcessSpec == ProcessInit /\ [][ProcessNext]_processVars /\ ProcessFairness

-----------------------------------------------------------------------------
(* An HttpsServer gives a child only to a connection whose handshake it    *)
(* completed, and the child finds its SSL object: the object outlives the  *)
(* fork that copies it.                                                    *)
TlsChildHasSsl == tls => ChildHasSsl

(* A connection that was accepted is closed by every process in the end,   *)
(* served or not, also when its handshake fails or no child can be forked. *)
(* Only its own client can keep it open: one that keeps process() waiting, *)
(* or over TLS one that stays silent in the handshake; no read or write    *)
(* has a timeout.                                                          *)
EventuallyClosed ==
  \A c \in Conns \ Idle :
    fds[c] # {} ~> (fds[c] = {} \/ (tls /\ ppc = "handshake" /\ c \in Silent))

(* The loop comes back to accept for every connection in the backlog until *)
(* stopListen, also when it cannot fork and while children wait for idle   *)
(* clients.  Over TLS the handshake, which the server process makes        *)
(* itself, may keep it from that in two ways: a silent client, whom no     *)
(* timeout ends, and SIGPIPE.                                              *)
EventuallyAccepted ==
  \A c \in Conns :
    c \in InBacklog ~>
      \/ c \in Accepted \/ stopped
      \/ tls /\ (ppc = "killed" \/ (ppc = "handshake" /\ client \in Silent))
=============================================================================
