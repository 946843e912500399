----------------------------- MODULE RouteTable -----------------------------
(***************************************************************************)
(* What the routing layer promises its callers, without saying how the     *)
(* routes are stored: a flat table from keys to handlers.  A key is        *)
(* claimed at most once, a claim is never displaced, and a lookup sees     *)
(* exactly the claims made since the router was last opened.               *)
(***************************************************************************)
CONSTANTS Routes,     \* the names a caller registers or looks up
          RegKey,     \* the key a name registers, NoKey when it is refused
          LookKey,    \* the key a name looks up, NoKey when it has none
          NoKey,
          Handlers,
          NoHandler

VARIABLES up,         \* a router instance exists
          table,      \* the claimed keys and their handlers
          ret         \* what the last call returned

vars == <<up, table, ret>>

Bound(k) == IF k \in DOMAIN table THEN table[k] ELSE NoHandler

Claimed(k, h) ==
  [j \in DOMAIN table \cup {k} |-> IF j = k THEN h ELSE table[j]]

Init == up = FALSE /\ table = [k \in {} |-> NoHandler] /\ ret = "none"

(* A new router replaces whatever was there. *)
Open == up' = TRUE /\ table' = [k \in {} |-> NoHandler] /\ ret' = "none"

Shut == up' = FALSE /\ table' = [k \in {} |-> NoHandler] /\ ret' = "none"

(* Without a router a registration throws and a lookup is dropped. *)
Unavailable ==
  /\ ~up
  /\ ret' \in {"throw", "dropped"}
  /\ UNCHANGED <<up, table>>

Refuse(r) ==
  /\ up
  /\ RegKey[r] = NoKey \/ RegKey[r] \in DOMAIN table
  /\ ret' = "false"
  /\ UNCHANGED <<up, table>>

(* Registering an empty handler succeeds and claims nothing. *)
Claim(r, h) ==
  /\ up
  /\ RegKey[r] # NoKey
  /\ RegKey[r] \notin DOMAIN table
  /\ table' = IF h = NoHandler THEN table ELSE Claimed(RegKey[r], h)
  /\ ret' = "true"
  /\ UNCHANGED up

Resolve(r) ==
  /\ up
  /\ ret' = IF LookKey[r] = NoKey THEN NoHandler ELSE Bound(LookKey[r])
  /\ UNCHANGED <<up, table>>

Next ==
  \/ Open
  \/ Shut
  \/ Unavailable
  \/ \E r \in Routes : Refuse(r) \/ Resolve(r)
  \/ \E r \in Routes, h \in Handlers \cup {NoHandler} : Claim(r, h)

Spec == Init /\ [][Next]_vars
=============================================================================
