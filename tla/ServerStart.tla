---------------------------- MODULE ServerStart -----------------------------
(***************************************************************************)
(* HttpServer::listen (http_server.cc) up to the accept loop: buildSocket  *)
(* goes through the addresses getaddrinfo resolved, makes a socket for     *)
(* each until one can be bound, and listenInternal listens on it.  A call  *)
(* that returned false may be repeated; the last call of the object is its *)
(* destructor.                                                             *)
(*                                                                         *)
(* Descriptors are numbers the kernel reuses, the lowest first, so closing *)
(* one twice may close another's.  freeaddrinfo(p) frees the list from p   *)
(* on, and the code goes on with the node after p: from there on it reads  *)
(* freed memory, which may hold what it held or stop the program.          *)
(* Number 0 is that of standard input, or free when that was closed before *)
(* the program began: then a socket may have it, which closeConnection     *)
(* takes for none.                                                         *)
(***************************************************************************)
EXTENDS Integers, FiniteSetsExt

CONSTANTS MaxAddrs,     \* bound on the addresses a host resolves to
          MaxFds        \* the descriptors the process may have

ASSUME ServerStartAssumption == MaxAddrs \in Nat \ {0} /\ MaxFds \in Nat \ {0}

kEmptyDescriptor == 0
kInvalidSocket == -1
Fds == 0..MaxFds

VARIABLES pc,
          n, p,         \* the list has nodes 1..n; p is n + 1 at its end
          freedFrom,    \* the nodes from here on are freed
          servinfo_,    \* the member: no list, a list, or one that is freed
          sockfd,       \* the local variable of buildSocket
          sockfd_,      \* the member
          open, bound   \* the descriptors that are open, those that are bound

startVars == <<pc, n, p, freedFrom, servinfo_, sockfd, sockfd_, open, bound>>
listVars == <<n, p, freedFrom>>
ownVars == <<servinfo_, sockfd_, bound>>
fdVars == <<sockfd, open, ownVars>>

StartInit ==
  /\ pc = "idle" /\ n = 0 /\ p = 1 /\ freedFrom = 1 /\ servinfo_ = "null"
  /\ sockfd = kInvalidSocket /\ sockfd_ = kEmptyDescriptor
  /\ open \in {{}, {0}} /\ bound = {}

(* closeConnection's descriptor afterwards, and what it leaves open and    *)
(* bound.                                                                  *)
Closed(fd) == IF fd > 0 THEN kEmptyDescriptor ELSE kInvalidSocket
OpenWithout(fd) == IF fd > 0 THEN open \ {fd} ELSE open
BoundWithout(fd) == IF fd > 0 THEN bound \ {fd} ELSE bound

(* The local variables of a buildSocket that returns. *)
LocalsEnd == n' = 0 /\ p' = 1 /\ freedFrom' = 1 /\ sockfd' = kInvalidSocket

(* listen, when getaddrinfo fails, changes nothing; otherwise there is a   *)
(* new list.                                                               *)
getaddrinfo(len) ==
  /\ pc = "idle"
  /\ n' = len /\ p' = 1 /\ freedFrom' = len + 1
  /\ pc' = "loop"
  /\ UNCHANGED fdVars

Readable == p < freedFrom

(* A failure that moves on before it takes the next node: one is left out. *)
MutSocketFails ==
  /\ pc = "loop" /\ p <= n
  /\ p' = p + 2
  /\ freedFrom' = IF Readable THEN p ELSE freedFrom
  /\ pc' \in IF Readable THEN {"loop"} ELSE {"loop", "dead"}
  /\ UNCHANGED <<n, fdVars>>

(* ::socket fails: the node is freed, and with it all that follow; freeing *)
(* it twice may stop the program.                                          *)
SocketFails ==
  /\ pc = "loop" /\ p <= n
  /\ p' = p + 1
  /\ freedFrom' = IF Readable THEN p ELSE freedFrom
  /\ pc' \in IF Readable THEN {"loop"} ELSE {"loop", "dead"}
  /\ UNCHANGED <<n, fdVars>>

Socket ==
  /\ pc = "loop" /\ p <= n /\ open # Fds
  /\ sockfd' = Min(Fds \ open)
  /\ open' = open \cup {sockfd'}
  /\ pc' \in IF Readable THEN {"options"} ELSE {"options", "dead"}
  /\ UNCHANGED <<listVars, ownVars>>

(* setSockOptions is false when the last option was refused. *)
OptionsFail ==
  /\ pc = "options"
  /\ open' = OpenWithout(sockfd)
  /\ pc' \in IF Readable THEN {"idle"} ELSE {"idle", "dead"}
  /\ LocalsEnd /\ UNCHANGED ownVars

setSockOptions ==
  /\ pc = "options" /\ pc' = "bind"
  /\ UNCHANGED <<listVars, fdVars>>

(* An address that cannot be bound and is tried again. *)
MutBindFails ==
  /\ pc = "bind"
  /\ open' = OpenWithout(sockfd) /\ sockfd' = Closed(sockfd)
  /\ pc' = "loop"
  /\ UNCHANGED <<listVars, ownVars>>

BindFails ==
  /\ pc = "bind"
  /\ open' = OpenWithout(sockfd) /\ sockfd' = Closed(sockfd)
  /\ p' = p + 1 /\ pc' = "loop"
  /\ UNCHANGED <<n, freedFrom, ownVars>>

(* The list that is kept for the destructor. *)
Kept == IF Readable THEN "list" ELSE "freed"

(* A new socket that takes the place of the old one, which stays open. *)
MutBind ==
  /\ pc = "bind"
  /\ open' = open /\ bound' = bound \cup {sockfd}
  /\ sockfd_' = sockfd /\ servinfo_' = Kept /\ pc' = "bound"
  /\ LocalsEnd

(* bind succeeds: the socket of an earlier call is closed, and this one    *)
(* takes its place.                                                        *)
Bind ==
  /\ pc = "bind"
  /\ open' = OpenWithout(sockfd_)
  /\ bound' = BoundWithout(sockfd_) \cup {sockfd}
  /\ sockfd_' = sockfd /\ servinfo_' = Kept /\ pc' = "bound"
  /\ LocalsEnd

(* A search that ends with no address and takes the last socket. *)
MutNoAddress ==
  /\ pc = "loop" /\ p > n
  /\ pc' = "bound" /\ sockfd_' = sockfd
  /\ LocalsEnd /\ UNCHANGED <<servinfo_, open, bound>>

(* No address could be bound. *)
NoAddress ==
  /\ pc = "loop" /\ p > n
  /\ pc' = "idle"
  /\ LocalsEnd /\ UNCHANGED <<open, ownVars>>

(* listenInternal: refused arguments or ::listen; the socket stays. *)
ListenFails ==
  /\ pc = "bound" /\ pc' = "idle"
  /\ UNCHANGED <<listVars, fdVars>>

listenInternal ==
  /\ pc = "bound" /\ sockfd_ \in open /\ pc' = "accepting"
  /\ UNCHANGED <<listVars, fdVars>>

(* The destructor frees the list and closes the socket. *)
Destroy ==
  /\ pc = "idle"
  /\ servinfo_' = "null"
  /\ open' = OpenWithout(sockfd_) /\ bound' = BoundWithout(sockfd_)
  /\ sockfd_' = Closed(sockfd_)
  /\ pc' \in IF servinfo_ = "freed" THEN {"destroyed", "dead"} ELSE {"destroyed"}
  /\ UNCHANGED <<listVars, sockfd>>

(* stopListen, while the accept loop runs. *)
StopAccepting ==
  /\ pc = "accepting" /\ pc' = "stopped"
  /\ open' = OpenWithout(sockfd_) /\ bound' = BoundWithout(sockfd_)
  /\ sockfd_' = Closed(sockfd_)
  /\ UNCHANGED <<listVars, servinfo_, sockfd>>

buildSocket ==
  \/ SocketFails \/ Socket \/ OptionsFail \/ setSockOptions
  \/ BindFails \/ Bind \/ NoAddress

listen ==
  \/ \E len \in 1..MaxAddrs : getaddrinfo(len)
  \/ buildSocket
  \/ ListenFails \/ listenInternal

-----------------------------------------------------------------------------
(* buildSocket's variables and the descriptors of the process. *)
StartTypeOK ==
  /\ pc \in {"idle", "loop", "options", "bind", "bound", "accepting", "stopped",
            "destroyed", "dead"}
  /\ n \in 0..MaxAddrs /\ p \in 1..(n + 1) /\ freedFrom \in 1..(n + 1)
  /\ servinfo_ \in {"null", "list", "freed"}
  /\ sockfd \in Fds \cup {kInvalidSocket, kEmptyDescriptor}
  /\ sockfd_ \in Fds \cup {kInvalidSocket, kEmptyDescriptor}
  /\ open \subseteq Fds /\ bound \subseteq Fds

(* Whichever step of whichever call failed, a call that returned leaves    *)
(* open no socket but the server's own, and the destructor and stopListen  *)
(* close that: repeating listen cannot run the process out of descriptors. *)
(* The exception is number 0, which nothing here closes; when standard     *)
(* input was closed before, one socket stays open under it.                *)
NoSocketLeak ==
  /\ pc \in {"idle", "accepting"} => open \subseteq {sockfd_, 0}
  /\ pc \in {"stopped", "destroyed"} => open \subseteq {0}

(* The accept loop runs on a socket that is open and bound, whatever calls *)
(* failed before.                                                          *)
AcceptsOnBound == pc \in {"bound", "accepting"} => sockfd_ \in open \cap bound

(* The search for an address ends: each failure moves on in the list.      *)
ListenDecides == pc = "loop" ~> pc \in {"idle", "accepting", "destroyed", "dead"}
=============================================================================
