------------------------------ MODULE Exchange ------------------------------
(***************************************************************************)
(* What a connection of either kind promises its peer, whatever the reads  *)
(* and writes it is made of: at most one handler is called, at most one    *)
(* answer is chosen and only its bytes are sent, and the connection is     *)
(* closed before the answer is out only when the peer went away.           *)
(***************************************************************************)
EXTENDS Naturals

CONSTANTS RespLen,      \* length of an answer
          NoResp        \* no answer is chosen yet

VARIABLES peer,         \* "open", "fin" (sends no more) or "gone"
          handled,      \* a handler was called
          answer,       \* status of the answer, or NoResp
          out,          \* how much of it was sent
          over          \* "no", "closed", or "killed" in mid-course

vars == <<peer, handled, answer, out, over>>

Init ==
  /\ peer = "open" /\ handled = FALSE
  /\ answer = NoResp /\ out = 0 /\ over = "no"

(* The peer stops sending, or goes away altogether. *)
Leave ==
  /\ peer # "gone" /\ over = "no"
  /\ peer' \in {"fin", "gone"} \ {peer}
  /\ UNCHANGED <<handled, answer, out, over>>

Undecided == over = "no" /\ answer = NoResp /\ ~handled

(* The handler returns an answer or throws. *)
Handle ==
  /\ Undecided
  /\ handled' = TRUE
  /\ \/ answer' = 200 /\ UNCHANGED over
     \/ over' = "killed" /\ UNCHANGED answer
  /\ UNCHANGED <<peer, out>>

(* An answer without a handler. *)
Refuse ==
  /\ Undecided
  /\ answer' \in {400, 404, 413, 500}
  /\ UNCHANGED <<peer, handled, out, over>>

Transmit ==
  /\ over = "no" /\ answer # NoResp
  /\ out' \in (out + 1)..RespLen
  /\ UNCHANGED <<peer, handled, answer, over>>

Close ==
  /\ over = "no"
  /\ \/ out = RespLen
     \/ peer = "gone" /\ answer # NoResp
     \/ peer # "open" /\ answer = NoResp
  /\ over' = "closed"
  /\ UNCHANGED <<peer, handled, answer, out>>

(* An exception out of a noexcept function, before there is an answer, or  *)
(* a signal because the peer is gone.                                      *)
Kill ==
  /\ over = "no" /\ (answer = NoResp \/ peer = "gone")
  /\ over' = "killed"
  /\ UNCHANGED <<peer, handled, answer, out>>

Next == Leave \/ Handle \/ Refuse \/ Transmit \/ Close \/ Kill

Spec == Init /\ [][Next]_vars
=============================================================================
