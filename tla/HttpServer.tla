----------------------------- MODULE HttpServer -----------------------------
(***************************************************************************)
(* The accept loop of HttpServer (http_server.cc, clientIntakeCycle and    *)
(* acceptConnection) with the processes it forks.  The server process      *)
(* accepts a connection, forks a child for it, and drops its own copy of   *)
(* the socket; the child closes its copy of the listening socket, runs     *)
(* HttpConnection::process, destroys the connection and exits.  Nobody     *)
(* waits for the children.                                                 *)
(*                                                                         *)
(* A socket is open while some process holds a descriptor for it.  The     *)
(* generator behind generate_uuid_v4 is part of the process image: its     *)
(* state is the number of ids drawn since it was seeded, and fork copies   *)
(* it.                                                                     *)
(***************************************************************************)
EXTENDS Integers, Sequences, FiniteSets

CONSTANTS Conns,        \* the connections clients make
          Server,       \* the process that runs the accept loop
          NoConn,
          Backlog,      \* max_connections, the argument of ::listen
          MaxProcs,     \* the processes the system lets the server have
          Idle          \* connections whose client keeps process() waiting for
                        \* good: it sends nothing or stops at a full buffer,
                        \* or does not read its response

ASSUME HttpServerAssumption ==
  /\ Server \notin Conns /\ NoConn \notin Conns
  /\ Backlog \in Nat \ {0} /\ MaxProcs \in Nat
  /\ Idle \subseteq Conns

Procs == Conns \cup {Server}    \* a child is named after its connection

VARIABLES backlog,      \* established connections not accepted yet
          stopped,      \* stopListen was called: sockfd_ is kEmptyDescriptor
          ppc,          \* where the server process is in its loop
          client,       \* its local variable of that name
          child,        \* how far the child of a connection is
          lfds,         \* the processes that hold the listening socket
          fds,          \* the processes that hold a connection's socket
          gen,          \* each process's id generator
          cid, rid,     \* the id a connection and its response were given
          late          \* history: connections accepted after stopListen

sockVars == <<lfds, fds>>
idVars == <<gen, cid, rid>>
vars == <<backlog, stopped, ppc, client, child, sockVars, idVars, late>>

Accepted == {c \in Conns : cid[c] # 0}
Alive == {c \in Conns : child[c] \in {"started", "serving", "closing", "exiting"}}
Zombies == {c \in Conns : child[c] = "zombie"}

Init ==
  /\ backlog = <<>> /\ stopped = FALSE
  /\ ppc = "top" /\ client = NoConn
  /\ child = [c \in Conns |-> "none"]
  /\ lfds = {Server} /\ fds = [c \in Conns |-> {}]
  /\ gen = [p \in Procs |-> 0]
  /\ cid = [c \in Conns |-> 0] /\ rid = [c \in Conns |-> 0]
  /\ late = 0

InBacklog == {backlog[i] : i \in DOMAIN backlog}

(* A client connects; the kernel queues it while there is room. *)
Connect(c) ==
  /\ lfds # {} /\ c \notin InBacklog /\ c \notin Accepted
  /\ Len(backlog) < Backlog
  /\ backlog' = Append(backlog, c)
  /\ UNCHANGED <<stopped, ppc, client, child, sockVars, idVars, late>>

(* stopListen, called from another thread.  closes is FALSE for a listening *)
(* socket numbered 0, which closeConnection only forgets.                  *)
stopListen(closes) ==
  /\ ~stopped /\ ppc # "killed"
  /\ stopped' = TRUE
  /\ lfds' = IF closes THEN lfds \ {Server} ELSE lfds
  /\ UNCHANGED <<backlog, ppc, client, child, fds, idVars, late>>

-----------------------------------------------------------------------------
(* A loop that goes on with a copy of the descriptor. *)
MutCallAccept ==
  /\ ppc = "top" /\ Server \in lfds
  /\ ppc' = "accept"
  /\ UNCHANGED <<backlog, stopped, client, child, sockVars, idVars, late>>

(* The server process.  From "top" it calls accept with the descriptor it  *)
(* finds in sockfd_; once stopListen has cleared that, every call fails    *)
(* and the loop spins.  A call that is already waiting keeps the socket.   *)
CallAccept ==
  /\ ppc = "top" /\ ~stopped
  /\ ppc' = "accept"
  /\ UNCHANGED <<backlog, stopped, client, child, sockVars, idVars, late>>

(* accept fails: its socket was closed under it, a connection was aborted, *)
(* a signal came, the process has no descriptor left.                      *)
AcceptFails ==
  /\ ppc = "accept"
  /\ ppc' = "top"
  /\ UNCHANGED <<backlog, stopped, client, child, sockVars, idVars, late>>

(* A connection that goes without an id of its own: the last one is kept. *)
MutDraw(p) == [gen EXCEPT ![p] = IF @ = 0 THEN 1 ELSE @]

(* generate_uuid_v4 in process p: the state moves on, the new state names  *)
(* the id.                                                                 *)
Draw(p) == [gen EXCEPT ![p] = @ + 1]

(* acceptConnection returns; next is what the caller does then. *)
acceptConnection(next) ==
  /\ ppc = "accept" /\ backlog # <<>>
  /\ client' = Head(backlog)
  /\ backlog' = Tail(backlog)
  /\ fds' = [fds EXCEPT ![Head(backlog)] = {Server}]
  /\ gen' = Draw(Server)
  /\ cid' = [cid EXCEPT ![Head(backlog)] = gen'[Server]]
  /\ late' = IF stopped THEN late + 1 ELSE late
  /\ ppc' = next
  /\ UNCHANGED <<stopped, child, lfds, rid>>

(* The child is a copy of the server process, descriptors included. *)
Inherit(c) == [x \in Conns |-> IF Server \in fds[x] THEN fds[x] \cup {c} ELSE fds[x]]

(* fork: zombies count, they are never waited for. *)
fork ==
  /\ ppc = "dispatch"
  /\ 1 + Cardinality(Alive \cup Zombies) < MaxProcs
  /\ child' = [child EXCEPT ![client] = "started"]
  /\ lfds' = IF Server \in lfds THEN lfds \cup {client} ELSE lfds
  /\ fds' = Inherit(client)
  /\ gen' = [gen EXCEPT ![client] = gen[Server]]
  /\ ppc' = "next"
  /\ UNCHANGED <<backlog, stopped, client, cid, rid, late>>

(* A loop that gives up when it cannot fork. *)
MutforkFails ==
  /\ ppc = "dispatch"
  /\ ppc' = "returned"
  /\ UNCHANGED <<backlog, stopped, client, child, sockVars, idVars, late>>

(* fork returns -1, at the limit or for want of memory, which the code     *)
(* does not tell from a child's pid.                                       *)
forkFails ==
  /\ ppc = "dispatch"
  /\ ppc' = "next"
  /\ UNCHANGED <<backlog, stopped, client, child, sockVars, idVars, late>>

(* An iteration that ends without closing the server's copy. *)
MutEndIteration ==
  /\ ppc = "next"
  /\ client' = NoConn
  /\ ppc' = "top"
  /\ UNCHANGED <<backlog, stopped, child, sockVars, idVars, late>>

(* The end of an iteration: ~ClientConnection closes the server's copy. *)
EndIteration ==
  /\ ppc = "next"
  /\ fds' = [fds EXCEPT ![client] = @ \ {Server}]
  /\ client' = NoConn
  /\ ppc' = "top"
  /\ UNCHANGED <<backlog, stopped, child, lfds, idVars, late>>

-----------------------------------------------------------------------------
(* The child of connection c. *)

CloseListening(c) ==
  /\ child[c] = "started"
  /\ lfds' = lfds \ {c}
  /\ child' = [child EXCEPT ![c] = "serving"]
  /\ UNCHANGED <<backlog, stopped, ppc, client, fds, idVars, late>>

(* process() ends, unless its client keeps it waiting, having drawn some   *)
(* ids, the last of them for X-Request-Id of its response: none when the   *)
(* peer went away first, one for an error or a 404 (the request's own id   *)
(* or a fresh one), two when the request was given an id and its handler   *)
(* made a response with a fresh one.                                       *)
process(c) ==
  /\ child[c] = "serving" /\ c \notin Idle
  /\ \E draws \in 0..2 :
       /\ gen' = [gen EXCEPT ![c] = @ + draws]
       /\ rid' = [rid EXCEPT ![c] = IF draws = 0 THEN 0 ELSE gen'[c]]
  /\ child' = [child EXCEPT ![c] = "closing"]
  /\ UNCHANGED <<backlog, stopped, ppc, client, sockVars, cid, late>>

(* ~HttpConnection *)
CloseClient(c) ==
  /\ child[c] = "closing"
  /\ fds' = [fds EXCEPT ![c] = @ \ {c}]
  /\ child' = [child EXCEPT ![c] = "exiting"]
  /\ UNCHANGED <<backlog, stopped, ppc, client, lfds, idVars, late>>

(* The kernel closes what a process that ends still holds. *)
Ends(c) ==
  /\ lfds' = lfds \ {c}
  /\ fds' = [x \in Conns |-> fds[x] \ {c}]
  /\ child' = [child EXCEPT ![c] = "zombie"]
  /\ UNCHANGED <<backlog, stopped, ppc, client, idVars, late>>

(* _exit(0) *)
Exit(c) == child[c] = "exiting" /\ Ends(c)

(* An exception out of a noexcept function, or a signal, ends the child. *)
Killed(c) == child[c] = "serving" /\ Ends(c)

Runs(c) == CloseListening(c) \/ process(c) \/ CloseClient(c) \/ Exit(c)
Child(c) == Runs(c) \/ Killed(c)

clientIntakeCycle ==
  \/ CallAccept \/ AcceptFails
  \/ acceptConnection("dispatch")
  \/ fork \/ forkFails
  \/ EndIteration

Next ==
  \/ clientIntakeCycle
  \/ \E c \in Conns : Connect(c) \/ Child(c)
  \/ \E closes \in BOOLEAN : stopListen(closes)

(* Every process keeps running until it waits for its client; that         *)
(* process() of a client that is not Idle ends is what the connection      *)
(* models show.  An accept that has a connection to return does not fail   *)
(* forever.  Nobody has to be killed.                                      *)
Fairness ==
  /\ WF_vars(clientIntakeCycle)
  /\ SF_vars(acceptConnection("dispatch"))
  /\ \A c \in Conns : WF_vars(Runs(c))

Spec == Init /\ [][Next]_vars /\ Fairness

-----------------------------------------------------------------------------
(* The variables of clientIntakeCycle and of its children; the loop is     *)
(* always at one of its own places, it never returns, and over TLS a       *)
(* signal may end it.                                                      *)
TypeOK ==
  /\ backlog \in Seq(Conns) /\ stopped \in BOOLEAN
  /\ ppc \in {"top", "accept", "handshake", "dispatch", "next", "killed"}
  /\ client \in Conns \cup {NoConn}
  /\ child \in [Conns -> {"none", "started", "serving", "closing", "exiting", "zombie"}]
  /\ lfds \subseteq Procs /\ fds \in [Conns -> SUBSET Procs]
  /\ gen \in [Procs -> Nat] /\ cid \in [Conns -> Nat] /\ rid \in [Conns -> Nat]
  /\ late \in Nat

(* No process holds another connection's socket: the server process holds  *)
(* only that of the connection it is dispatching, and a child only its     *)
(* own, so a connection is closed as soon as its own child closes it.      *)
NoForeignSockets ==
  \A c \in Conns : /\ fds[c] \subseteq {Server, c}
                   /\ Server \in fds[c] => client = c

(* Two connections never have the same client id, although every child     *)
(* starts from a copy of the generator that makes them.                    *)
ClientIdsDistinct ==
  \A c, d \in Accepted : c # d => cid[c] # cid[d]

(* After stopListen at most one more connection is accepted: the one for   *)
(* which the loop was already waiting in accept.                           *)
AtMostOneLate == late <= 1

(* README, "Features": UUID v4 to trace requests, X-Request-Id in every    *)
(* response: the id of a response names that response.                     *)
ResponseIdsDistinct ==
  \A c, d \in Conns : c # d /\ rid[c] # 0 => rid[c] # rid[d]
=============================================================================
