--------------------------- MODULE RouterManager ----------------------------
(***************************************************************************)
(* RouterManager (router.h, router.cc): the static owner of one Router,    *)
(* which owns one RoutingTree.  Init replaces the router, Clear drops it,  *)
(* Get/Post/Put/Del/Patch register a handler under the method they are     *)
(* named for, and Route looks a request up.                                *)
(***************************************************************************)
EXTENDS RoutingTree

CONSTANT Paths          \* the paths callers use

ASSUME PathsAssumption == Paths \subseteq Path

VARIABLES router,       \* router_ is not null
          rtree,        \* router_->rtree_
          ret,          \* what the last call returned or did
          accepted      \* history: the non-empty handlers whose registration
                        \* returned true since the router was created

vars == <<router, rtree, ret, accepted>>

Init ==
  /\ router = FALSE
  /\ rtree = EmptyTree
  /\ ret = "none"
  /\ accepted = {}

(* Init() and Init(key): a new Router whether or not there was one. *)
ManagerInit ==
  /\ router' = TRUE
  /\ rtree' = EmptyTree
  /\ ret' = "none"
  /\ accepted' = {}

Clear ==
  /\ router' = FALSE
  /\ rtree' = EmptyTree
  /\ ret' = "none"
  /\ accepted' = {}

(* Get, Post, Put, Del, Patch *)
Register(m, p, h) ==
  \/ /\ ~router
     /\ ret' = "throw"
     /\ UNCHANGED <<router, rtree, accepted>>
  \/ /\ router
     /\ LET r == add(rtree, m, p, h) IN
          /\ rtree' = r.tree
          /\ ret' = IF r.ok THEN "true" ELSE "false"
          /\ accepted' = IF r.ok /\ h # NoHandler
                           THEN accepted \cup {<<m, p, h>>} ELSE accepted
     /\ UNCHANGED router

(* Route and Router::route: std::nullopt without a router, otherwise the   *)
(* handler that is called, NoHandler standing for the 404 response.        *)
Route(m, p) ==
  /\ ret' = IF router THEN get(rtree, m, p) ELSE "dropped"
  /\ UNCHANGED <<router, rtree, accepted>>

Next ==
  \/ ManagerInit
  \/ Clear
  \/ \E m \in Methods, p \in Paths, h \in Handlers \cup {NoHandler} : Register(m, p, h)
  \/ \E m \in Methods \cup {UNKNOWN}, p \in Paths : Route(m, p)

Spec == Init /\ [][Next]_vars

-----------------------------------------------------------------------------
(* The routes are nodes of a tree, the return value is one of the outcomes *)
(* the five methods and Route can have.                                    *)
TypeOK ==
  /\ router \in BOOLEAN
  /\ IsTree(rtree)
  /\ ret \in Handlers \cup {NoHandler, "none", "true", "false", "throw", "dropped"}
  /\ accepted \subseteq Methods \X Paths \X Handlers

(* A registration that returned true is what its path resolves to from     *)
(* then on: no later registration, of a path above it, below it or spelled *)
(* differently, displaces or hides its handler.                            *)
RegisteredFound ==
  \A a \in accepted : get(rtree, a[1], a[2]) = a[3]

(* A path that begins with a slash is answered only by a handler that was  *)
(* registered, with success, for that method and that very path: nodes     *)
(* created on the way to a deeper route, refused registrations and the     *)
(* routes above or below answer nothing.  The exception is a registration  *)
(* whose path has text before its first slash, which add drops; what a     *)
(* lookup of such a path finds is KeyIsMethodAndPath's question.           *)
OnlyRegistered ==
  \A m \in Methods \cup {UNKNOWN}, p \in Paths :
    Rooted(p) /\ get(rtree, m, p) # NoHandler =>
      \E a \in accepted :
        /\ a[1] = m /\ a[3] = get(rtree, m, p)
        /\ a[2] = p \/ (~Rooted(a[2]) /\ a[2].elems = p.elems)

(* README: the key of a route is "the concatenation method + path".  Read  *)
(* so, a lookup finds only what was registered for exactly its path.       *)
KeyIsMethodAndPath ==
  \A m \in Methods \cup {UNKNOWN}, p \in Paths :
    get(rtree, m, p) # NoHandler => <<m, p, get(rtree, m, p)>> \in accepted

-----------------------------------------------------------------------------
(* The tree implements the flat table: the keys that carry a handler are   *)
(* the claimed ones.                                                       *)
NoKey == <<>>
Routes == (Methods \cup {UNKNOWN}) \X Paths
RegKey ==
  [r \in Routes |-> IF r[1] \notin Methods \/ AddKey(r[2]) = <<>>
                      THEN NoKey ELSE <<r[1], AddKey(r[2])>>]
LookKey ==
  [r \in Routes |-> IF r[1] \notin Methods \/ GetKey(r[2]) = <<>>
                      THEN NoKey ELSE <<r[1], GetKey(r[2])>>]
Claims == {n \in DOMAIN rtree : rtree[n] # NoHandler}
Table == [n \in Claims |-> rtree[n]]

RT == INSTANCE RouteTable WITH up <- router, table <- Table

(* Whatever nodes the tree holds, callers cannot tell it from a flat table *)
(* of claimed keys.                                                        *)
ImplementsTable == RT!Spec
=============================================================================
