---------------------------- MODULE ServerProofs ----------------------------
(***************************************************************************)
(* Proofs about the server process: the accept loops of HttpServer and     *)
(* HttpsServer, for every set of connections, backlog and limit on         *)
(* processes, and HttpServer::listen before them, for every number of      *)
(* addresses and of descriptors.  The two parts have no variable in        *)
(* common; ServerProcess composes them, and its steps are steps of one or  *)
(* the other, or of both.                                                  *)
(*                                                                         *)
(* The steps the two loops share are proved once, for both places          *)
(* acceptConnection may return to; the handshake comes on top of them.     *)
(***************************************************************************)
EXTENDS ServerProcess, TLAPS

(* The server process has a client exactly between accept and the end of   *)
(* the iteration, so that it cannot keep the socket of an earlier one.     *)
HasClient == client \in Conns <=> ppc \in {"handshake", "dispatch", "next"}

(* The ids given out so far lie below the generator the next comes from.   *)
IdsBelow == \A c \in Conns : cid[c] <= gen[Server]

(* What may come late is the one accept that was called before stopListen. *)
StopCloses ==
  /\ ~stopped => late = 0
  /\ stopped /\ ppc = "accept" => late = 0

IInv == TypeOK /\ HasClient /\ NoForeignSockets /\ IdsBelow /\ ClientIdsDistinct
        /\ StopCloses /\ AtMostOneLate

(* The initial states satisfy the invariant. *)
LEMMA InitIInv == Init => IInv
<1> SUFFICES ASSUME Init PROVE IInv OBVIOUS
<1>1. TypeOK
  <2>1. backlog \in Seq(Conns)
    BY DEF Init
  <2>2. fds \in [Conns -> SUBSET Procs]
    BY DEF Init
  <2>3. gen \in [Procs -> Nat] /\ cid \in [Conns -> Nat] /\ rid \in [Conns -> Nat] /\ late \in Nat
    BY DEF Init
  <2>4. lfds \subseteq Procs
    BY DEF Init, Procs
  <2>5. child \in [Conns -> {"none", "started", "serving", "closing", "exiting", "zombie"}]
    BY DEF Init
  <2> QED BY <2>1, <2>2, <2>3, <2>4, <2>5 DEF Init, TypeOK
<1>2. HasClient /\ NoForeignSockets
  BY HttpServerAssumption DEF Init, HasClient, NoForeignSockets
<1>3. IdsBelow /\ ClientIdsDistinct
  BY DEF Init, IdsBelow, ClientIdsDistinct, Accepted, Procs
<1>4. StopCloses /\ AtMostOneLate
  BY DEF Init, StopCloses, AtMostOneLate
<1> QED BY <1>1, <1>2, <1>3, <1>4 DEF IInv

(* The steps of the clients, of stopListen and of accept's callers that    *)
(* touch neither sockets nor ids preserve the invariant.                   *)
LEMMA QuietSteps ==
  ASSUME IInv, \/ CallAccept \/ AcceptFails \/ forkFails
               \/ \E c \in Conns : Connect(c)
               \/ \E closes \in BOOLEAN : stopListen(closes)
  PROVE  IInv'
<1> USE HttpServerAssumption DEF IInv, TypeOK, HasClient, NoForeignSockets, IdsBelow,
        ClientIdsDistinct, Accepted, StopCloses, AtMostOneLate, Procs, sockVars, idVars
<1>1. CASE CallAccept BY <1>1 DEF CallAccept
<1>2. CASE AcceptFails BY <1>2 DEF AcceptFails
<1>3. CASE forkFails BY <1>3 DEF forkFails
<1>4. CASE \E c \in Conns : Connect(c) BY <1>4 DEF Connect
<1>5. CASE \E closes \in BOOLEAN : stopListen(closes) BY <1>5 DEF stopListen
<1> QED BY <1>1, <1>2, <1>3, <1>4, <1>5

(* acceptConnection: the new id is above every other, and the process      *)
(* holds no socket but the new one.                                        *)
LEMMA AcceptStep ==
  ASSUME IInv, NEW next \in {"handshake", "dispatch"}, acceptConnection(next)
  PROVE  IInv'
<1> DEFINE h == Head(backlog)
<1>1. h \in Conns /\ backlog' \in Seq(Conns)
  BY DEF IInv, TypeOK, acceptConnection
<1>2. client' = h /\ ppc' = next /\ lfds' = lfds /\ stopped' = stopped /\ child' = child /\ rid' = rid
  BY DEF acceptConnection
<1>3. fds' = [fds EXCEPT ![h] = {Server}]
  BY DEF acceptConnection
<1>4. gen' = [gen EXCEPT ![Server] = gen[Server] + 1] /\ gen'[Server] = gen[Server] + 1
  BY DEF acceptConnection, Draw, IInv, TypeOK, Procs
<1>5. cid' = [cid EXCEPT ![h] = gen[Server] + 1]
  BY <1>4 DEF acceptConnection
<1>6. late' = (IF stopped THEN late + 1 ELSE late) /\ ppc = "accept"
  BY DEF acceptConnection
<1>7. TypeOK'
  BY <1>1, <1>2, <1>3, <1>4, <1>5, <1>6 DEF IInv, TypeOK, Procs
<1>8. HasClient'
  BY <1>1, <1>2 DEF HasClient
<1>9. NoForeignSockets'
  BY <1>1, <1>2, <1>3, <1>6 DEF IInv, TypeOK, NoForeignSockets, HasClient
<1>10. IdsBelow'
  BY <1>1, <1>4, <1>5 DEF IInv, TypeOK, IdsBelow, Procs
<1>11. ClientIdsDistinct'
  BY <1>1, <1>4, <1>5 DEF IInv, TypeOK, IdsBelow, ClientIdsDistinct, Accepted, Procs
<1>12. StopCloses' /\ AtMostOneLate'
  BY <1>2, <1>6 DEF IInv, TypeOK, StopCloses, AtMostOneLate
<1> QED BY <1>7, <1>8, <1>9, <1>10, <1>11, <1>12 DEF IInv

(* fork gives the child no socket but the client's: the process holds no   *)
(* other.                                                                  *)
LEMMA ForkStep ==
  ASSUME IInv, fork
  PROVE  IInv'
<1>1. client \in Conns
  BY DEF IInv, HasClient, fork
<1>2. fds' = [x \in Conns |-> IF Server \in fds[x] THEN fds[x] \cup {client} ELSE fds[x]]
  BY DEF fork, Inherit
<1>3. TypeOK'
  BY <1>1, <1>2, HttpServerAssumption DEF IInv, TypeOK, Procs, fork
<1>4. NoForeignSockets'
  BY <1>1, <1>2 DEF IInv, TypeOK, NoForeignSockets, fork
<1>5. gen'[Server] = gen[Server]
  BY <1>1, HttpServerAssumption DEF IInv, TypeOK, Procs, fork
<1>6. HasClient' /\ IdsBelow' /\ ClientIdsDistinct'
  BY <1>5 DEF IInv, HasClient, IdsBelow, ClientIdsDistinct, Accepted, fork
<1>7. StopCloses' /\ AtMostOneLate'
  BY <1>1, HttpServerAssumption DEF IInv, StopCloses, AtMostOneLate, fork
<1> QED BY <1>3, <1>4, <1>6, <1>7 DEF IInv

(* The end of the iteration closes the process's copy. *)
LEMMA EndStep ==
  ASSUME IInv, EndIteration
  PROVE  IInv'
<1>1. client \in Conns
  BY DEF IInv, HasClient, EndIteration
<1> QED
  BY <1>1, HttpServerAssumption
     DEF IInv, TypeOK, HasClient, NoForeignSockets, IdsBelow, ClientIdsDistinct, Accepted,
         StopCloses, AtMostOneLate, Procs, EndIteration, idVars

(* A child only gives sockets up, and draws from its own generator. *)
LEMMA ChildStep ==
  ASSUME IInv, NEW c \in Conns, Child(c)
  PROVE  IInv'
<1> USE HttpServerAssumption
<1>1. CASE CloseListening(c)
  BY <1>1 DEF CloseListening, IInv, TypeOK, HasClient, NoForeignSockets, IdsBelow, ClientIdsDistinct,
         Accepted, StopCloses, AtMostOneLate, Procs, idVars
<1>2. CASE process(c)
  <2>1. PICK draws \in 0..2 : /\ gen' = [gen EXCEPT ![c] = @ + draws]
                              /\ rid' = [rid EXCEPT ![c] = IF draws = 0 THEN 0 ELSE gen'[c]]
    BY <1>2 DEF process
  <2>2. gen' \in [Procs -> Nat] /\ gen'[Server] = gen[Server] /\ rid' \in [Conns -> Nat]
    BY <2>1 DEF IInv, TypeOK, Procs
  <2>3. TypeOK'
    BY <1>2, <2>2 DEF process, IInv, TypeOK, sockVars
  <2> QED
    BY <1>2, <2>2, <2>3 DEF process, IInv, HasClient, NoForeignSockets, IdsBelow, ClientIdsDistinct,
         Accepted, StopCloses, AtMostOneLate, sockVars
<1>3. CASE CloseClient(c)
  BY <1>3 DEF CloseClient, IInv, TypeOK, HasClient, NoForeignSockets, IdsBelow, ClientIdsDistinct,
         Accepted, StopCloses, AtMostOneLate, Procs, idVars
<1>4. CASE Exit(c) \/ Killed(c)
  <2>1. /\ lfds' = lfds \ {c} /\ fds' = [x \in Conns |-> fds[x] \ {c}]
        /\ child' = [child EXCEPT ![c] = "zombie"]
        /\ UNCHANGED <<backlog, stopped, ppc, client, gen, cid, rid, late>>
    BY <1>4 DEF Exit, Killed, Ends, idVars
  <2>2. TypeOK'
    BY <2>1 DEF IInv, TypeOK, Procs
  <2> QED
    BY <2>1, <2>2 DEF IInv, HasClient, NoForeignSockets, IdsBelow, ClientIdsDistinct,
         Accepted, StopCloses, AtMostOneLate
<1> QED BY <1>1, <1>2, <1>3, <1>4 DEF Child, Runs

(* The handshake's steps leave ids and the backlog alone, and a process    *)
(* that SIGPIPE ends gives its sockets up.                                 *)
LEMMA HandshakeSteps ==
  ASSUME IInv, HandshakeDone \/ HandshakeFails \/ HandshakeKilled
  PROVE  IInv'
<1> USE DEF IInv, TypeOK, HasClient, NoForeignSockets, IdsBelow, ClientIdsDistinct, Accepted,
            StopCloses, AtMostOneLate, sockVars, idVars
<1>1. CASE HandshakeDone \/ HandshakeFails
  BY <1>1 DEF HandshakeDone, HandshakeFails
<1>2. CASE HandshakeKilled
  BY <1>2, HttpServerAssumption DEF HandshakeKilled, Procs
<1> QED BY <1>1, <1>2

(* Every step of either loop and of the children preserves the invariant. *)
Loop ==
  \/ CallAccept \/ AcceptFails \/ fork \/ forkFails \/ EndIteration
  \/ \E next \in {"handshake", "dispatch"} : acceptConnection(next)
  \/ HandshakeDone \/ HandshakeFails \/ HandshakeKilled
  \/ \E c \in Conns : Connect(c) \/ Child(c)
  \/ \E closes \in BOOLEAN : stopListen(closes)

LEMMA LoopIInv ==
  ASSUME IInv, Loop \/ UNCHANGED vars
  PROVE  IInv'
<1>1. CASE UNCHANGED vars
  BY <1>1 DEF vars, sockVars, idVars, IInv, TypeOK, HasClient, NoForeignSockets, IdsBelow,
         ClientIdsDistinct, Accepted, StopCloses, AtMostOneLate
<1>2. CASE Loop
  BY <1>2, QuietSteps, AcceptStep, ForkStep, EndStep, ChildStep, HandshakeSteps DEF Loop
<1> QED BY <1>1, <1>2

-----------------------------------------------------------------------------
(* HttpsServer *)

(* What is dispatched has completed its handshake. *)
DispatchHasSsl == ppc = "dispatch" => client \in ssl /\ client \notin Refused

SslInv == ChildHasSsl /\ DispatchHasSsl

(* The steps of the clients, the children and stopListen give nobody a     *)
(* child and dispatch nothing.                                             *)
LEMMA OthersKeepSsl ==
  ASSUME IInv, SslInv, UNCHANGED ssl,
         (\E c \in Conns : Connect(c) \/ Child(c)) \/ (\E closes \in BOOLEAN : stopListen(closes))
  PROVE  SslInv'
<1> USE DEF SslInv, ChildHasSsl, DispatchHasSsl, IInv, TypeOK
<1>1. ASSUME NEW c \in Conns, Connect(c) PROVE SslInv'
  BY <1>1 DEF Connect
<1>2. ASSUME NEW c \in Conns, Child(c) PROVE SslInv'
  <2>1. child[c] # "none" /\ ppc' = ppc /\ client' = client
    BY <1>2 DEF Child, Runs, CloseListening, process, CloseClient, Exit, Killed, Ends
  <2>2. \A d \in Conns : d # c => child'[d] = child[d]
    BY <1>2 DEF Child, Runs, CloseListening, process, CloseClient, Exit, Killed, Ends
  <2> QED BY <2>1, <2>2
<1>3. CASE \E closes \in BOOLEAN : stopListen(closes)
  BY <1>3 DEF stopListen
<1> QED BY <1>1, <1>2, <1>3

(* Every step of the TLS loop keeps the SSL invariant; fork, which starts  *)
(* a child, needs that only a completed handshake leads to it.             *)
LEMMA IntakeKeepsSsl ==
  ASSUME IInv, SslInv, httpsIntakeCycle
  PROVE  SslInv'
<1> USE DEF SslInv, ChildHasSsl, DispatchHasSsl
<1>1. CASE (CallAccept \/ AcceptFails \/ forkFails) /\ UNCHANGED ssl
  BY <1>1 DEF CallAccept, AcceptFails, forkFails
<1>2. CASE acceptConnection("handshake") /\ UNCHANGED ssl
  BY <1>2 DEF acceptConnection
<1>3. CASE fork /\ UNCHANGED ssl
  BY <1>3 DEF IInv, TypeOK, fork
<1>4. CASE EndIteration /\ UNCHANGED ssl
  BY <1>4 DEF EndIteration
<1>5. CASE HandshakeDone \/ HandshakeFails \/ HandshakeKilled
  BY <1>5 DEF HandshakeDone, HandshakeFails, HandshakeKilled
<1> QED BY <1>1, <1>2, <1>3, <1>4, <1>5 DEF httpsIntakeCycle

-----------------------------------------------------------------------------
(* listen, up to the accept loop *)

USE ServerStartAssumption

(* Which sockets are open while a call is under way: the server's own and, *)
(* between socket and bind, the one being set up, which is another.  Number *)
(* 0 may be open besides: nothing closes it.                               *)
Trying == {"options", "bind"}
OwnSocket ==
  /\ pc \in Trying => /\ sockfd \in open /\ (sockfd # sockfd_ \/ sockfd = 0)
                      /\ open \subseteq {sockfd, sockfd_, 0}
  /\ pc \in {"idle", "loop", "bound", "accepting"} => open \subseteq {sockfd_, 0}
  /\ pc \in {"stopped", "destroyed"} => open \subseteq {0}

(* The member names a descriptor only as long as that one is open and      *)
(* bound: a stale number would close a socket of someone else.             *)
MemberOpen == pc # "dead" /\ (sockfd_ > 0 \/ pc \in {"bound", "accepting"}) => sockfd_ \in open \cap bound

(* A socket is made for a node of the list, so that the search may go on   *)
(* behind it.                                                              *)
AtNode == pc \in Trying => p <= n

StartInv == StartTypeOK /\ OwnSocket /\ MemberOpen /\ AtNode

LEMMA FdsNat == Fds \subseteq Nat /\ 0 \in Fds /\ kInvalidSocket = -1 /\ kEmptyDescriptor = 0
  BY DEF Fds, kInvalidSocket, kEmptyDescriptor

(* The kernel gives the lowest free descriptor.  When socket is called at  *)
(* most two are open, one of them 0, so it is 0, 1 or 2.                   *)
LEMMA LowestFree ==
  ASSUME open \subseteq Fds, open # Fds, NEW x, open \subseteq {x, 0}
  PROVE  Min(Fds \ open) \in Fds \ open
  <1>. DEFINE free == Fds \ open
  <1>1. \E a \in free : \A b \in free : a =< b
    <2>1. CASE 0 \notin open
      <3>1. 0 \in free /\ \A b \in free : 0 =< b
        BY <2>1 DEF Fds
      <3>. QED BY <3>1
    <2>2. CASE 0 \in open /\ 1 \notin open
      <3>1. 1 \in free /\ \A b \in free : 1 =< b
        BY <2>2 DEF Fds
      <3>. QED BY <3>1
    <2>3. CASE 0 \in open /\ 1 \in open
      <3>1. open = {0, 1}
        BY <2>3
      <3>2. 2 \in free /\ \A b \in free : 2 =< b
        BY <3>1 DEF Fds
      <3>. QED BY <3>2
    <2>. QED BY <2>1, <2>2, <2>3
  <1>. HIDE DEF free
  <1>2. (CHOOSE a \in free : \A b \in free : a =< b) \in free
    BY <1>1
  <1>. QED BY <1>2 DEF Min, free

LEMMA StartInitInv == StartInit => StartInv
  BY FdsNat DEF StartInit, StartInv, StartTypeOK, OwnSocket, MemberOpen, AtNode, Trying

(* The steps that leave the descriptors alone. *)
LEMMA ListSteps ==
  ASSUME StartInv, \/ \E len \in 1..MaxAddrs : getaddrinfo(len)
               \/ SocketFails \/ setSockOptions \/ NoAddress \/ ListenFails \/ listenInternal
  PROVE  StartInv'
  <1>. USE DEF StartInv, StartTypeOK, OwnSocket, MemberOpen, AtNode, Trying, listVars, fdVars, ownVars
  <1>1. ASSUME NEW len \in 1..MaxAddrs, getaddrinfo(len) PROVE StartInv'
    BY <1>1 DEF getaddrinfo
  <1>2. CASE SocketFails
    BY <1>2 DEF SocketFails, Readable
  <1>3. CASE setSockOptions
    BY <1>3 DEF setSockOptions
  <1>4. CASE NoAddress
    BY <1>4 DEF NoAddress, LocalsEnd
  <1>5. CASE ListenFails
    BY <1>5 DEF ListenFails
  <1>6. CASE listenInternal
    BY <1>6 DEF listenInternal
  <1>. QED BY <1>1, <1>2, <1>3, <1>4, <1>5, <1>6

(* A new socket is another than the server's own, which is open. *)
LEMMA SocketStep ==
  ASSUME StartInv, Socket
  PROVE  StartInv'
  <1>1. sockfd' \in Fds \ open /\ open' = open \cup {sockfd'}
    <2>1. open \subseteq Fds /\ open # Fds /\ open \subseteq {sockfd_, 0}
      BY DEF StartInv, StartTypeOK, OwnSocket, Socket
    <2>. QED BY <2>1, LowestFree DEF Socket
  <1>2. /\ pc = "loop" /\ p <= n /\ pc' \in {"options", "dead"}
        /\ UNCHANGED <<n, p, freedFrom, servinfo_, sockfd_, bound>>
    BY DEF Socket, listVars, ownVars
  <1>3. sockfd_ # sockfd' \/ sockfd' = 0
    BY <1>1, <1>2, FdsNat DEF StartInv, StartTypeOK, MemberOpen
  <1>. QED BY <1>1, <1>2, <1>3 DEF StartInv, StartTypeOK, OwnSocket, MemberOpen, AtNode, Trying

(* Whatever step fails, what it closes is the socket it was setting up. *)
LEMMA FailSteps ==
  ASSUME StartInv, OptionsFail \/ BindFails
  PROVE  StartInv'
  <1>1. /\ open' = (IF sockfd > 0 THEN open \ {sockfd} ELSE open)
        /\ sockfd' \in {kInvalidSocket, kEmptyDescriptor}
        /\ UNCHANGED <<servinfo_, sockfd_, bound>>
    BY DEF OptionsFail, BindFails, OpenWithout, Closed, LocalsEnd, ownVars
  <1>2. /\ pc \in Trying /\ pc' \in {"idle", "loop", "dead"}
    BY DEF OptionsFail, BindFails, Trying
  <1>3. n' \in 0..MaxAddrs /\ p' \in 1..(n' + 1) /\ freedFrom' \in 1..(n' + 1)
    <2>1. CASE OptionsFail
      BY <2>1 DEF OptionsFail, LocalsEnd
    <2>2. CASE BindFails
      BY <2>2 DEF StartInv, StartTypeOK, AtNode, Trying, BindFails
    <2>. QED BY <2>1, <2>2
  <1>4. open' \subseteq {sockfd_, 0} /\ open' \subseteq Fds
    BY <1>1, <1>2, FdsNat DEF StartInv, StartTypeOK, OwnSocket
  <1>5. MemberOpen'
    BY <1>1, <1>2, FdsNat DEF StartInv, StartTypeOK, OwnSocket, MemberOpen, Trying
  <1>. QED BY <1>1, <1>2, <1>3, <1>4, <1>5 DEF StartInv, StartTypeOK, OwnSocket, AtNode, Trying

(* bind succeeds: the old socket, if any, is closed and the new one takes  *)
(* its place.                                                              *)
LEMMA BindStep ==
  ASSUME StartInv, Bind
  PROVE  StartInv'
  <1>1. /\ pc = "bind" /\ pc' = "bound" /\ sockfd_' = sockfd
        /\ open' = (IF sockfd_ > 0 THEN open \ {sockfd_} ELSE open)
        /\ bound' = (IF sockfd_ > 0 THEN bound \ {sockfd_} ELSE bound) \cup {sockfd}
        /\ servinfo_' \in {"list", "freed"} /\ LocalsEnd
    BY DEF Bind, OpenWithout, BoundWithout, Kept
  <1>2. /\ sockfd \in open /\ (sockfd # sockfd_ \/ sockfd = 0)
        /\ open \subseteq {sockfd, sockfd_, 0} /\ open \subseteq Fds /\ bound \subseteq Fds
        /\ sockfd_ \in Int
    BY <1>1, FdsNat DEF StartInv, StartTypeOK, OwnSocket, Trying
  <1>3. sockfd_' \in open' \cap bound' /\ open' \subseteq {sockfd_', 0}
    <2>1. CASE sockfd_ > 0
      BY <1>1, <1>2, <2>1
    <2>2. CASE ~(sockfd_ > 0)
      <3>1. open \subseteq {sockfd, 0}
        BY <1>2, <2>2, FdsNat
      <3>. QED BY <1>1, <1>2, <2>2, <3>1
    <2>. QED BY <2>1, <2>2
  <1>. QED BY <1>1, <1>2, <1>3 DEF StartInv, StartTypeOK, OwnSocket, MemberOpen, AtNode, Trying, LocalsEnd

LEMMA DestroyStep ==
  ASSUME StartInv, Destroy \/ StopAccepting
  PROVE  StartInv'
  <1>1. /\ pc \in {"idle", "accepting"} /\ pc' \in {"destroyed", "stopped", "dead"}
        /\ servinfo_' \in {"null", servinfo_}
        /\ open' = (IF sockfd_ > 0 THEN open \ {sockfd_} ELSE open)
        /\ bound' \subseteq bound
        /\ sockfd_' \in {kInvalidSocket, kEmptyDescriptor}
        /\ UNCHANGED <<n, p, freedFrom, sockfd>>
    BY DEF Destroy, StopAccepting, OpenWithout, BoundWithout, Closed, listVars
  <1>2. open' \subseteq {0}
    BY <1>1, FdsNat DEF StartInv, StartTypeOK, OwnSocket
  <1>. QED BY <1>1, <1>2, FdsNat DEF StartInv, StartTypeOK, OwnSocket, MemberOpen, AtNode, Trying

LEMMA StartStep ==
  ASSUME StartInv, listen \/ Destroy \/ StopAccepting \/ UNCHANGED startVars
  PROVE  StartInv'
  <1>1. CASE UNCHANGED startVars
    BY <1>1 DEF startVars, StartInv, StartTypeOK, OwnSocket, MemberOpen, AtNode
  <1>. QED BY <1>1, ListSteps, SocketStep, FailSteps, BindStep, DestroyStep DEF listen, buildSocket

-----------------------------------------------------------------------------
(* The composition *)

(* A step of the process is one of the start, or one of the loop and its   *)
(* children, or stopListen, which is both.                                 *)
LEMMA ProcessParts ==
  ASSUME [ProcessNext]_processVars
  PROVE  /\ Loop \/ UNCHANGED vars
         /\ listen \/ Destroy \/ StopAccepting \/ UNCHANGED startVars
         /\ tls' = tls
         /\ \/ tls /\ httpsIntakeCycle
            \/ ~tls /\ UNCHANGED ssl
            \/ /\ UNCHANGED ssl
               /\ (\E c \in Conns : Connect(c) \/ Child(c)) \/ (\E closes \in BOOLEAN : stopListen(closes))
            \/ UNCHANGED httpsVars
  <1>1. CASE Starts(listen \/ Destroy)
    BY <1>1 DEF Starts, httpsVars
  <1>2. CASE Intake
    BY <1>2 DEF Intake, Listening, httpsIntakeCycle, clientIntakeCycle, Loop
  <1>3. CASE \E c \in Conns : ByChild(Connect(c) \/ Child(c))
    BY <1>3 DEF ByChild, Listening, Loop
  <1>4. CASE Stops
    <2>1. stopListen(TRUE) \/ stopListen(FALSE)
      BY <1>4 DEF Stops, stopListen
    <2>. QED BY <1>4, <2>1 DEF Stops, Loop
  <1>5. CASE UNCHANGED processVars
    BY <1>5 DEF processVars, httpsVars
  <1>. QED BY <1>1, <1>2, <1>3, <1>4, <1>5 DEF ProcessNext

ProcessInv == IInv /\ ssl \subseteq Conns /\ tls \in BOOLEAN /\ (tls => SslInv) /\ StartInv

LEMMA ProcessInitInv == ProcessInit => ProcessInv
  <1>. SUFFICES ASSUME ProcessInit PROVE ProcessInv
    OBVIOUS
  <1>1. IInv /\ StartInv
    BY InitIInv, StartInitInv DEF ProcessInit, HttpsInit
  <1>2. SslInv
    BY DEF ProcessInit, HttpsInit, Init, SslInv, ChildHasSsl, DispatchHasSsl
  <1>. QED BY <1>1, <1>2 DEF ProcessInit, HttpsInit, ProcessInv

LEMMA ProcessNextInv == ProcessInv /\ [ProcessNext]_processVars => ProcessInv'
  <1>. SUFFICES ASSUME ProcessInv, [ProcessNext]_processVars PROVE ProcessInv'
    OBVIOUS
  <1>1. IInv' /\ StartInv' /\ tls' = tls
    BY ProcessParts, LoopIInv, StartStep DEF ProcessInv
  <1>2. CASE tls /\ httpsIntakeCycle
    <2>1. SslInv'
      BY <1>2, IntakeKeepsSsl DEF ProcessInv
    <2>2. CASE HandshakeDone
      <3>1. ssl' = ssl \cup {client} /\ ppc = "handshake"
        BY <2>2 DEF HandshakeDone
      <3>2. ssl' \subseteq Conns
        BY <3>1 DEF ProcessInv, IInv, HasClient
      <3>. QED BY <1>1, <2>1, <3>2 DEF ProcessInv
    <2>3. CASE HandshakeFails \/ HandshakeKilled
      BY <1>1, <2>1, <2>3 DEF ProcessInv, HandshakeFails, HandshakeKilled
    <2>4. CASE UNCHANGED ssl
      BY <1>1, <2>1, <2>4 DEF ProcessInv
    <2>. QED BY <1>2, <2>2, <2>3, <2>4 DEF httpsIntakeCycle
  <1>3. CASE ~tls /\ UNCHANGED ssl
    BY <1>1, <1>3 DEF ProcessInv
  <1>4. CASE /\ UNCHANGED ssl
             /\ (\E c \in Conns : Connect(c) \/ Child(c)) \/ (\E closes \in BOOLEAN : stopListen(closes))
    BY <1>1, <1>4, OthersKeepSsl DEF ProcessInv
  <1>5. CASE UNCHANGED httpsVars
    BY <1>1, <1>5 DEF ProcessInv, SslInv, ChildHasSsl, DispatchHasSsl, httpsVars, vars
  <1>. QED BY <1>2, <1>3, <1>4, <1>5, ProcessParts

LEMMA ProcessInvAlways == ProcessSpec => []ProcessInv
  BY ProcessInitInv, ProcessNextInv, PTL DEF ProcessSpec

(* The variables of the accept loop of either class keep their types: it   *)
(* never returns.                                                          *)
THEOREM HttpsTypeCorrect == ProcessSpec => []HttpsTypeOK
  <1>1. ProcessInv => HttpsTypeOK
    BY DEF ProcessInv, IInv, HttpsTypeOK
  <1>. QED BY <1>1, ProcessInvAlways, PTL

(* However the loop and its children interleave, with or without a         *)
(* handshake between accept and fork, no process holds the socket of a     *)
(* connection that is not its own, nor the server process that of one it   *)
(* has finished with.                                                      *)
THEOREM NoForeignSocketsAlways == ProcessSpec => []NoForeignSockets
  <1>1. ProcessInv => NoForeignSockets
    BY DEF ProcessInv, IInv
  <1>. QED BY <1>1, ProcessInvAlways, PTL

(* The client ids acceptConnection draws are distinct although fork copies *)
(* their generator into every child.                                       *)
THEOREM ClientIdsDistinctAlways == ProcessSpec => []ClientIdsDistinct
  <1>1. ProcessInv => ClientIdsDistinct
    BY DEF ProcessInv, IInv
  <1>. QED BY <1>1, ProcessInvAlways, PTL

(* stopListen, at whatever moment it comes, during a handshake too, is     *)
(* followed by the acceptance of at most one connection.                   *)
THEOREM AtMostOneLateAlways == ProcessSpec => []AtMostOneLate
  <1>1. ProcessInv => AtMostOneLate
    BY DEF ProcessInv, IInv
  <1>. QED BY <1>1, ProcessInvAlways, PTL

(* Whatever the order of handshakes, failures and forks, an HttpsServer    *)
(* gives a child only to a connection with a completed handshake, and the  *)
(* child its SSL object.                                                   *)
THEOREM TlsChildHasSslAlways == ProcessSpec => []TlsChildHasSsl
  <1>1. ProcessInv => TlsChildHasSsl
    BY DEF ProcessInv, SslInv, TlsChildHasSsl
  <1>. QED BY <1>1, ProcessInvAlways, PTL

(* buildSocket's position in the address list and its descriptors keep     *)
(* their types, whatever fails.                                            *)
THEOREM StartTypeCorrect == ProcessSpec => []StartTypeOK
  <1>1. ProcessInv => StartTypeOK
    BY DEF ProcessInv, StartInv
  <1>. QED BY <1>1, ProcessInvAlways, PTL

(* However often listen is called and whichever of its steps fail, a call  *)
(* that returned leaves open no socket but the server's own, and none when *)
(* that is closed; number 0 excepted.                                      *)
THEOREM NoSocketLeakAlways == ProcessSpec => []NoSocketLeak
  <1>1. ProcessInv => NoSocketLeak
    BY DEF ProcessInv, StartInv, OwnSocket, NoSocketLeak
  <1>. QED BY <1>1, ProcessInvAlways, PTL

(* The accept loop is entered on a socket that is open and bound; an       *)
(* earlier call's descriptor is never closed under it.                     *)
THEOREM AcceptsOnBoundAlways == ProcessSpec => []AcceptsOnBound
  <1>1. ProcessInv => AcceptsOnBound
    BY DEF ProcessInv, StartInv, MemberOpen, AcceptsOnBound
  <1>. QED BY <1>1, ProcessInvAlways, PTL

-----------------------------------------------------------------------------
(* A bound on the steps a call of listen still takes. *)
StepsLeft ==
  IF pc = "loop" THEN 4 * (n - p) + 8
  ELSE IF pc = "options" THEN 4 * (n - p) + 7
  ELSE IF pc = "bind" THEN 4 * (n - p) + 6
  ELSE IF pc = "bound" THEN 1 ELSE 0

(* Each step of a call, whether it fails or not, lowers the bound. *)
LEMMA CallAdvances ==
  ASSUME StartInv, StartInv', buildSocket \/ ListenFails \/ listenInternal
  PROVE  StepsLeft' < StepsLeft
  <1>1. n \in Nat /\ p \in 1..(n + 1)
    BY DEF StartInv, StartTypeOK
  <1>2. CASE SocketFails \/ BindFails
    <2>1. p <= n /\ p' = p + 1 /\ n' = n /\ pc \in {"loop", "bind"} /\ pc' \in {"loop", "dead"}
      BY <1>2 DEF SocketFails, BindFails, StartInv, AtNode, Trying
    <2>2. StepsLeft \in {4 * (n - p) + 8, 4 * (n - p) + 6} /\ StepsLeft' \in {4 * (n - (p + 1)) + 8, 0}
      BY <2>1 DEF StepsLeft
    <2>. QED BY <1>1, <2>1, <2>2
  <1>3. CASE Socket \/ setSockOptions
    <2>1. /\ p' = p /\ n' = n
          /\ \/ pc = "loop" /\ pc' \in {"options", "dead"}
             \/ pc = "options" /\ pc' = "bind"
      BY <1>3 DEF Socket, setSockOptions, listVars
    <2>2. \/ StepsLeft = 4 * (n - p) + 8 /\ StepsLeft' \in {4 * (n - p) + 7, 0}
          \/ StepsLeft = 4 * (n - p) + 7 /\ StepsLeft' = 4 * (n - p) + 6
      BY <2>1 DEF StepsLeft
    <2>. QED BY <1>1, <2>2
  <1>4. CASE OptionsFail \/ NoAddress
    <2>1. pc \in {"loop", "options"} /\ pc' \in {"idle", "dead"}
      BY <1>4 DEF OptionsFail, NoAddress
    <2>2. StepsLeft \in {4 * (n - p) + 8, 4 * (n - p) + 7} /\ StepsLeft' = 0
      BY <2>1 DEF StepsLeft
    <2>. QED BY <1>1, <2>2
  <1>5. CASE Bind
    <2>1. StepsLeft = 4 * (n - p) + 6 /\ StepsLeft' = 1
      BY <1>5 DEF Bind, StepsLeft
    <2>. QED BY <1>1, <2>1
  <1>6. CASE ListenFails \/ listenInternal
    BY <1>6 DEF ListenFails, listenInternal, StepsLeft
  <1>. QED BY <1>2, <1>3, <1>4, <1>5, <1>6 DEF buildSocket

(* A call of listen takes at most four steps for each address and four     *)
(* more: whichever of them fail, and although buildSocket walks on in a    *)
(* list it has freed, no address is tried twice.                           *)
THEOREM ListenBounded ==
  ProcessSpec => /\ [](StepsLeft \in 0..(4 * MaxAddrs + 4))
                 /\ [][buildSocket \/ ListenFails \/ listenInternal => StepsLeft' < StepsLeft]_processVars
  <1>1. ProcessInv => StepsLeft \in 0..(4 * MaxAddrs + 4)
    <2>. SUFFICES ASSUME ProcessInv PROVE StepsLeft \in 0..(4 * MaxAddrs + 4)
      OBVIOUS
    <2>1. n \in 0..MaxAddrs /\ p \in 1..(n + 1) /\ MaxAddrs \in Nat
      BY ServerStartAssumption DEF ProcessInv, StartInv, StartTypeOK
    <2>. QED BY <2>1 DEF StepsLeft
  <1>2. ProcessInv /\ ProcessInv' =>
          [buildSocket \/ ListenFails \/ listenInternal => StepsLeft' < StepsLeft]_processVars
    BY CallAdvances DEF ProcessInv
  <1>. QED BY <1>1, <1>2, ProcessInvAlways, PTL
=============================================================================
