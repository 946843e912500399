-------------------------- MODULE ConnectionProofs --------------------------
(***************************************************************************)
(* What the proofs about HTTP and HTTPS connections share, first of all    *)
(* the proof that a connection implements Exchange.                        *)
(***************************************************************************)
EXTENDS Connection, TLAPS

USE ConnectionAssumption

(* The statuses of the answers the server gives. *)
LEMMA Statuses ==
  /\ to_http_status(Success) = 200 /\ to_http_status(InvalidJsonOrParams) = 400
  /\ to_http_status(NotFound) = 404 /\ to_http_status(RequestBufferOverflow) = 413
  /\ to_http_status(InternalError) = 500
  BY DEF to_http_status, int_to_status, http, Success, InvalidJsonOrParams, NotFound,
         RequestBufferOverflow, InternalError

(* After one more full buffer the bytes read are a multiple again. *)
LEMMA NextMultiple ==
  ASSUME NEW g \in Nat, NEW k \in 0..g, g = k * BufSize
  PROVE  \E j \in 0..(g + BufSize) : g + BufSize = j * BufSize
  <1>1. (k + 1) * BufSize = k * BufSize + BufSize
    OBVIOUS
  <1>2. k + 1 \in 0..(g + BufSize)
    OBVIOUS
  <1>. QED BY <1>1, <1>2

(* Until execution is over the handler has not been called. *)
CalledLate == pc \in {"recv", "execution"} => called = NotCalled

(* The code's own limit test: reception ends at the limit, not above it. *)
StopsAtLimit ==
  /\ pc \in {"recv", "execution"} \/ called # NotCalled => got < Limit
  /\ resp = 413 => got >= Limit

(* It is stronger than what is asked of the limit. *)
LEMMA LimitFromStop == ConnTypeOK /\ StopsAtLimit => LimitRespected
  <1>1. ConnTypeOK => got \in Nat
    BY DEF ConnTypeOK
  <1>. QED BY <1>1 DEF StopsAtLimit, LimitRespected

(* How far the answer is at each place of process(). *)
Undecided == resp = NoResp /\ called = NotCalled /\ total_send = 0
Phases ==
  /\ peer \in {"open", "fin", "cut", "rst"}
  /\ total_send \in 0..RespLen
  /\ pc \in {"recv", "execution"} => Undecided
  /\ pc = "send" => resp \in {200, 400, 404, 413, 500} /\ total_send < RespLen
  /\ pc = "close" => \/ total_send = RespLen
                     \/ peer \in {"cut", "rst"} /\ resp # NoResp
                     \/ peer # "open" /\ resp = NoResp

Step == Phases' /\ [X!Next]_(X!vars)

(* A connection begins with nothing decided. *)
LEMMA InitExchange == ConnInit => Phases /\ X!Init
  BY DEF ConnInit, Phases, Undecided, NoResp, Ended, X!Init

(* A step that leaves alone what Exchange speaks of, within the reception. *)
LEMMA QuietStep ==
  ASSUME Phases, pc \notin Ended, pc' = pc \/ (pc = "recv" /\ pc' = "execution"),
         UNCHANGED <<peer, resp, total_send, called>>
  PROVE  Step
  BY DEF Step, Phases, Undecided, Ended, X!vars

(* The peer goes on writing or reading, or ends its stream. *)
LEMMA PeerStep ==
  ASSUME Phases, UNCHANGED connVars,
         \/ \E n \in 1..Len(msg) : Write(n)
         \/ ReadResponse
         \/ \E how \in {"fin", "cut", "rst"} : HangUp(how)
  PROVE  Step
  <1>1. CASE ReadResponse \/ \E n \in 1..Len(msg) : Write(n)
    BY <1>1, QuietStep DEF Write, ReadResponse, connVars
  <1>2. ASSUME NEW how \in {"fin", "cut", "rst"}, HangUp(how) PROVE Step
    <2>1. Phases'
      BY <1>2 DEF HangUp, connVars, Phases, Undecided
    <2>2. CASE peer \in {"cut", "rst"}
      BY <1>2, <2>1, <2>2 DEF HangUp, connVars, Step, X!vars
    <2>3. CASE peer \notin {"cut", "rst"}
      <3>1. X!Leave
        BY <1>2, <2>3 DEF HangUp, connVars, Phases, Ended, X!Leave
      <3>. QED BY <2>1, <3>1 DEF Step, X!Next
    <2>. QED BY <2>2, <2>3
  <1>. QED BY <1>1, <1>2

(* An answer without a handler is chosen once, during reception or         *)
(* execution.                                                              *)
LEMMA RefuseStep ==
  ASSUME Phases, pc \in {"recv", "execution"}, pc' = "send",
         resp' \in {400, 404, 413, 500}, UNCHANGED <<peer, total_send, called>>
  PROVE  Step
  <1>1. Phases'
    BY DEF Phases, Undecided
  <1>2. X!Refuse
    BY DEF Phases, Undecided, Ended, NoResp, X!Refuse, X!Undecided
  <1>. QED BY <1>1, <1>2 DEF Step, X!Next

(* The process is killed before there is an answer. *)
LEMMA KillStep ==
  ASSUME Phases, pc = "execution", pc' = "killed", UNCHANGED <<peer, resp, total_send, called>>
  PROVE  Step
  <1>1. Phases'
    BY DEF Phases
  <1>2. X!Kill
    BY DEF Phases, Undecided, Ended, X!Kill
  <1>. QED BY <1>1, <1>2 DEF Step, X!Next

(* What execution leaves behind, whichever way it goes. *)
LEMMA ExecutionFacts ==
  ASSUME execution
  PROVE  /\ pc = "execution" /\ pc' \in {"send", "killed"}
         /\ resp' \in {resp, 200, 400, 404, 500}
         /\ UNCHANGED <<msg, sent, taken, peer, got, req, total_send>>
  <1>1. \/ \E code \in {Success, InvalidJsonOrParams, NotFound, InternalError} : Answer(code)
        \/ pc' = "killed" /\ UNCHANGED resp
    BY DEF execution
  <1>2. pc = "execution" /\ UNCHANGED <<msg, sent, taken, peer, got, req, total_send>>
    BY DEF execution, peerVars
  <1>3. ASSUME NEW code \in {Success, InvalidJsonOrParams, NotFound, InternalError}, Answer(code)
        PROVE  pc' = "send" /\ resp' \in {200, 400, 404, 500}
    BY <1>3, Statuses DEF Answer
  <1>. QED BY <1>1, <1>2, <1>3

(* execution calls at most one handler and decides on at most one answer. *)
LEMMA ExecutionStep ==
  ASSUME Phases, execution
  PROVE  Step
  <1>. DEFINE r == parse(req)
              routed == r.kind = "request" /\ <<r.method, r.path>> \in Handled
  <1>0. pc = "execution" /\ UNCHANGED <<peer, total_send>>
    BY DEF execution, peerVars
  <1>1. CASE r.kind = "nullopt" /\ Answer(InvalidJsonOrParams) /\ UNCHANGED called
    BY <1>0, <1>1, Statuses, RefuseStep DEF Answer
  <1>2. CASE r.kind = "throws" /\ pc' = "killed" /\ UNCHANGED <<resp, called>>
    BY <1>0, <1>2, KillStep
  <1>3. CASE Answer(InternalError) /\ UNCHANGED called
    BY <1>0, <1>3, Statuses, RefuseStep DEF Answer
  <1>4. CASE Answer(NotFound) /\ UNCHANGED called
    BY <1>0, <1>4, Statuses, RefuseStep DEF Answer
  <1>5. CASE /\ routed /\ called' = r
             /\ Answer(Success) \/ (pc' = "killed" /\ UNCHANGED resp)
    <2>1. called' # NotCalled /\ called = NotCalled /\ resp = NoResp /\ total_send = 0
      <3>1. r.kind = "request" /\ NotCalled.kind = "none"
        BY <1>5 DEF NotCalled
      <3>. QED BY <1>0, <1>5, <3>1 DEF Phases, Undecided
    <2>2. CASE Answer(Success)
      <3>1. pc' = "send" /\ resp' = 200
        BY <2>2, Statuses DEF Answer
      <3>2. Phases'
        BY <1>0, <2>1, <3>1 DEF Phases
      <3>3. X!Handle
        BY <1>0, <2>1, <3>1 DEF Ended, X!Handle, X!Undecided
      <3>. QED BY <3>2, <3>3 DEF Step, X!Next
    <2>3. CASE pc' = "killed" /\ UNCHANGED resp
      <3>1. Phases'
        BY <1>0, <2>3 DEF Phases
      <3>2. X!Handle
        BY <1>0, <2>1, <2>3 DEF Ended, X!Handle, X!Undecided
      <3>. QED BY <3>1, <3>2 DEF Step, X!Next
    <2>. QED BY <1>5, <2>2, <2>3
  <1>. QED BY <1>1, <1>2, <1>3, <1>4, <1>5 DEF execution

(* send puts out the chosen answer, and gives up only on a peer that is    *)
(* gone.                                                                   *)
LEMMA SendStep ==
  ASSUME Phases, SendSome \/ SendFails
  PROVE  Step
  <1>1. CASE SendSome
    <2>1. PICK n \in 1..(RespLen - total_send) :
            /\ total_send' = total_send + n
            /\ pc' = IF total_send + n < RespLen THEN "send" ELSE "close"
      BY <1>1 DEF SendSome
    <2>2. pc = "send" /\ UNCHANGED <<peer, resp, called>>
      BY <1>1 DEF SendSome, peerVars
    <2>3. total_send' \in (total_send + 1)..RespLen /\ pc' \in {"send", "close"}
      BY <2>1, <2>2 DEF Phases
    <2>4. Phases'
      BY <2>1, <2>2, <2>3 DEF Phases
    <2>5. X!Transmit
      BY <2>2, <2>3 DEF Phases, Ended, NoResp, X!Transmit
    <2>. QED BY <2>4, <2>5 DEF Step, X!Next
  <1>2. CASE SendFails
    <2>1. /\ pc = "send" /\ pc' \in {"close", "killed"} /\ peer = "rst"
          /\ UNCHANGED <<peer, resp, total_send, called>>
      BY <1>2 DEF SendFails, peerVars
    <2>2. Phases'
      BY <2>1 DEF Phases, NoResp
    <2>3. CASE pc' = "close"
      BY <2>1, <2>2, <2>3 DEF Step, Ended, X!vars
    <2>4. CASE pc' = "killed"
      <3>1. X!Kill
        BY <2>1, <2>4 DEF Ended, X!Kill
      <3>. QED BY <2>2, <3>1 DEF Step, X!Next
    <2>. QED BY <2>1, <2>3, <2>4
  <1>. QED BY <1>1, <1>2

(* The peer ended its stream before there was a request to answer. *)
LEMMA GiveUpStep ==
  ASSUME Phases, pc = "recv", pc' = "close", peer # "open",
         UNCHANGED <<peer, resp, total_send, called>>
  PROVE  Step
  BY DEF Step, Phases, Undecided, Ended, X!vars

(* The destructor; a peer that is gone may have it end by a signal. *)
LEMMA CloseStep ==
  ASSUME Phases, pc = "close", pc' = "closed" \/ (pc' = "killed" /\ peer = "rst"),
         UNCHANGED <<peer, resp, total_send, called>>
  PROVE  Step
  <1>1. Phases'
    BY DEF Phases
  <1>2. X!Close \/ X!Kill
    BY DEF Phases, Ended, X!Close, X!Kill
  <1>. QED BY <1>1, <1>2 DEF Step, X!Next

(* Over TLS: a write is refused because the peer's stream was cut off. *)
LEMMA CutStep ==
  ASSUME Phases, peer = "cut", UNCHANGED <<peer, resp, total_send, called>>,
         (pc = "send" /\ pc' = "close") \/ (pc = "close" /\ pc' = "closed")
  PROVE  Step
  <1>1. CASE pc = "send" /\ pc' = "close"
    BY <1>1 DEF Step, Phases, Ended, NoResp, X!vars
  <1>2. CASE pc = "close" /\ pc' = "closed"
    BY <1>2, CloseStep
  <1>. QED BY <1>1, <1>2

-----------------------------------------------------------------------------
(* A bound on the steps process() and the destructor still take.  It does  *)
(* not depend on what the peer sends: recv goes on below the limit only.   *)
(* System calls that are told to try again are not counted.                *)
Left ==
  IF pc = "recv" THEN (Limit - got) + RespLen + 3
  ELSE IF pc = "execution" THEN RespLen + 3
  ELSE IF pc = "send" THEN (RespLen - total_send) + 2
  ELSE IF pc = "close" THEN 1 ELSE 0

(* The bound is a number, at most what a new connection has. *)
LEMMA LeftBounded ==
  ASSUME ConnTypeOK, StopsAtLimit
  PROVE  Left \in 0..(Limit + RespLen + 3)
  <1>1. got \in Nat /\ total_send \in 0..RespLen
    BY DEF ConnTypeOK
  <1>2. pc = "recv" => got < Limit
    BY DEF StopsAtLimit
  <1>. QED BY <1>1, <1>2 DEF Left

(* A step of the process: more was read, more was sent, or the next part   *)
(* of process() begins.                                                    *)
Forward ==
  \/ pc = "recv" /\ pc' = "recv" /\ got < got'
  \/ pc = "recv" /\ pc' \in {"execution", "send", "close"}
  \/ pc = "execution" /\ pc' \in {"send"} \cup Ended
  \/ pc = "send" /\ pc' = "send" /\ total_send < total_send'
  \/ pc = "send" /\ pc' \in {"close"} \cup Ended
  \/ pc = "close" /\ pc' \in Ended

(* Such a step lowers the bound. *)
LEMMA ForwardLess ==
  ASSUME ConnTypeOK, StopsAtLimit, ConnTypeOK', Forward
  PROVE  Left' < Left
  <1>0. PICK g \in Nat, t \in 0..RespLen : g = got' /\ t = total_send'
    BY DEF ConnTypeOK
  <1>1. got \in Nat /\ total_send \in 0..RespLen
    BY DEF ConnTypeOK
  <1>2. pc = "recv" => got < Limit
    BY DEF StopsAtLimit
  <1>3. CASE pc = "recv" /\ pc' = "recv" /\ got < got'
    <2>1. /\ Left = (Limit - got) + RespLen + 3
          /\ Left' = (Limit - g) + RespLen + 3
      BY <1>0, <1>3 DEF Left
    <2>2. got < g
      BY <1>0, <1>3
    <2>. QED BY <1>1, <2>1, <2>2
  <1>4. CASE pc = "recv" /\ pc' \in {"execution", "send", "close"}
    <2>1. /\ Left = (Limit - got) + RespLen + 3
          /\ Left' \in {RespLen + 3, (RespLen - t) + 2, 1}
      BY <1>0, <1>4 DEF Left
    <2>. QED BY <1>1, <1>2, <1>4, <2>1
  <1>5. CASE pc = "execution" /\ pc' \in {"send"} \cup Ended
    <2>1. Left = RespLen + 3 /\ Left' \in {(RespLen - t) + 2, 0}
      BY <1>0, <1>5 DEF Left, Ended
    <2>. QED BY <1>1, <2>1
  <1>6. CASE pc = "send" /\ pc' = "send" /\ total_send < total_send'
    <2>1. Left = (RespLen - total_send) + 2 /\ Left' = (RespLen - t) + 2
      BY <1>0, <1>6 DEF Left
    <2>2. total_send < t
      BY <1>0, <1>6
    <2>. QED BY <1>1, <2>1, <2>2
  <1>7. CASE pc = "send" /\ pc' \in {"close"} \cup Ended
    <2>1. Left = (RespLen - total_send) + 2 /\ Left' \in {1, 0}
      BY <1>7 DEF Left, Ended
    <2>. QED BY <1>1, <2>1
  <1>8. CASE pc = "close" /\ pc' \in Ended
    BY <1>8 DEF Left, Ended
  <1>. QED BY <1>3, <1>4, <1>5, <1>6, <1>7, <1>8 DEF Forward

(* What both kinds of connection do after recv. *)
LEMMA LaterForward ==
  ASSUME ConnTypeOK, execution \/ SendSome \/ SendFails
  PROVE  Forward
  <1>1. CASE execution
    BY <1>1, ExecutionFacts DEF Forward, Ended
  <1>2. CASE SendSome
    <2>1. PICK n \in 1..(RespLen - total_send) :
            /\ total_send' = total_send + n
            /\ pc' = IF total_send + n < RespLen THEN "send" ELSE "close"
      BY <1>2 DEF SendSome
    <2>2. pc = "send" /\ total_send < total_send' /\ pc' \in {"send", "close"}
      BY <1>2, <2>1 DEF SendSome, ConnTypeOK
    <2>. QED BY <2>2 DEF Forward
  <1>3. CASE SendFails
    BY <1>3 DEF SendFails, Forward, Ended
  <1>. QED BY <1>1, <1>2, <1>3
=============================================================================
