---------------------------- MODULE RoutingTree -----------------------------
(***************************************************************************)
(* The path tree of src/src/routing/.../routing_tree.h as operators on a   *)
(* tree value.                                                             *)
(*                                                                         *)
(* A path is kept split at its slashes: the C++ string                     *)
(*     lead "/" e1 "/" e2 ... "/" en                                       *)
(* is [lead |-> lead, elems |-> <<e1, ..., en>>]; any of these parts may   *)
(* be Empty.  The empty string has no lead and no element, "/" has one     *)
(* Empty element.  Splitting is one to one, so nothing is lost.            *)
(*                                                                         *)
(* The nested hash maps are one function: the node reached from the map    *)
(* of method m through the elements k is tree[<<m, k>>], and its value is  *)
(* the handler stored there (NoHandler for an empty std::function).        *)
(***************************************************************************)
EXTENDS Naturals, Sequences

CONSTANTS Methods,      \* the methods that have a map in root_
          UNKNOWN,      \* Method::UNKNOWN, whose index is root_.size()
          Names,        \* the non-empty segments a path may contain
          ShortNames,   \* those of one character
          Handlers,
          NoHandler     \* an empty std::function

Empty == ""
Slash == "/"
Elems == Names \cup {Empty}

ASSUME RoutingTreeAssumption ==
  /\ UNKNOWN \notin Methods
  /\ ShortNames \subseteq Names
  /\ Empty \notin Names /\ Slash \notin Names
  /\ NoHandler \notin Handlers

Path == [lead : Elems, elems : Seq(Elems)]
Key == Seq(Elems \cup {Slash}) \ {<<>>}
Node == Methods \X Key
IsTree(t) ==
  /\ t = [n \in DOMAIN t |-> t[n]]
  /\ DOMAIN t \subseteq Node
  /\ \A n \in DOMAIN t : t[n] \in Handlers \cup {NoHandler}

RootPath == [lead |-> Empty, elems |-> <<Empty>>]

(* The path begins with a slash. *)
Rooted(p) == p.lead = Empty /\ p.elems # <<>>

(* path.length() of a split path, as far as the switch tells lengths apart *)
LengthIs0(p) == p.lead = Empty /\ p.elems = <<>>
LengthIs1(p) == p = RootPath \/ (p.lead \in ShortNames /\ p.elems = <<>>)

EmptyTree == [n \in {} |-> NoHandler]

(* The nodes a walk to the last element goes through. *)
Walk(m, k) == {<<m, SubSeq(k, 1, i)>> : i \in 1..(Len(k) - 1)}

(* The while loop of add: missing nodes are created without a handler. *)
Grow(t, m, k) ==
  [n \in DOMAIN t \cup Walk(m, k) |->
     IF n \in DOMAIN t THEN t[n] ELSE NoHandler]

Put(t, n, h) == [j \in DOMAIN t \cup {n} |-> IF j = n THEN h ELSE t[j]]

(* A registration that replaces the handler it finds. *)
Mutset_elem(t, n, h) == [ok |-> TRUE, tree |-> Put(t, n, h)]

(* set_elem: an element that already has a handler is left alone. *)
set_elem(t, n, h) ==
  IF n \in DOMAIN t /\ t[n] # NoHandler
    THEN [ok |-> FALSE, tree |-> t]
    ELSE [ok |-> TRUE, tree |-> Put(t, n, h)]

(* The elements add walks for a path, <<>> when it refuses the path. *)
AddKey(p) ==
  CASE LengthIs0(p) -> <<>>
    [] LengthIs1(p) -> IF p = RootPath THEN <<Slash>> ELSE <<>>
    [] OTHER        -> p.elems

(* The elements get walks: a path of length 1 is looked up whole, with no  *)
(* test that it is a slash.                                                *)
GetKey(p) ==
  CASE LengthIs0(p) -> <<>>
    [] LengthIs1(p) -> IF p = RootPath THEN <<Slash>> ELSE <<p.lead>>
    [] OTHER        -> p.elems

add(t, m, p, h) ==
  IF m \notin Methods \/ AddKey(p) = <<>>
    THEN [ok |-> FALSE, tree |-> t]
    ELSE set_elem(Grow(t, m, AddKey(p)), <<m, AddKey(p)>>, h)

(* A walk that answers with the last node it reached. *)
Mutfind(t, m, k) ==
  LET above == SubSeq(k, 1, Len(k) - 1)
  IN  IF <<m, k>> \in DOMAIN t THEN t[<<m, k>>]
      ELSE IF <<m, above>> \in DOMAIN t THEN t[<<m, above>>] ELSE NoHandler

(* find on each element in turn; the handler of the last node. *)
find(t, m, k) ==
  IF Walk(m, k) \cup {<<m, k>>} \subseteq DOMAIN t THEN t[<<m, k>>] ELSE NoHandler

get(t, m, p) ==
  IF m \notin Methods \/ GetKey(p) = <<>> THEN NoHandler ELSE find(t, m, GetKey(p))
=============================================================================
