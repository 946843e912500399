------------------------ MODULE HttpConnectionProofs ------------------------
(***************************************************************************)
(* Proofs about HttpConnection for requests of any length, any buffer size *)
(* and limit, and whatever the array and the memory behind it hold.        *)
(***************************************************************************)
EXTENDS HttpConnection, ConnectionProofs

USE ConnectionAssumption, HttpConnectionAssumption

IInv ==
  /\ TypeOK /\ buf \in Seq(STRING)
  /\ WaitsOnlyAtFullBuffer /\ StopsAtLimit /\ CalledLate

(* A connection that has read nothing satisfies the invariant. *)
LEMMA InitIInv == Init => IInv
  <1>. SUFFICES ASSUME Init PROVE IInv
    OBVIOUS
  <1>1. msg \in Seq(STRING) /\ Len(msg) \in Nat /\ buf \in Seq(STRING) /\ Len(buf) = BufSize
    BY DEF Init, ConnInit
  <1>2. TypeOK
    BY <1>1 DEF Init, ConnInit, TypeOK, ConnTypeOK, Ended, NoResp
  <1>3. WaitsOnlyAtFullBuffer
    <2>1. 0 \in 0..0 /\ 0 = 0 * BufSize
      OBVIOUS
    <2>. QED BY <2>1 DEF Init, ConnInit, WaitsOnlyAtFullBuffer
  <1>4. StopsAtLimit /\ CalledLate
    BY DEF Init, ConnInit, StopsAtLimit, CalledLate, NoResp
  <1>. QED BY <1>1, <1>2, <1>3, <1>4 DEF IInv

(* The array keeps its size when its first n bytes are overwritten. *)
LEMMA Overwritten ==
  ASSUME NEW s \in Seq(STRING), NEW b \in Seq(STRING), Len(b) = BufSize,
         NEW g \in Nat, NEW n \in 0..BufSize, g + n <= Len(s)
  PROVE  LET mem == SubSeq(s, g + 1, g + n) \o SubSeq(b, n + 1, BufSize) IN
           mem \in Seq(STRING) /\ Len(mem) = BufSize
  <1>1. SubSeq(s, g + 1, g + n) \in Seq(STRING) /\ Len(SubSeq(s, g + 1, g + n)) = n
    OBVIOUS
  <1>2. /\ SubSeq(b, n + 1, BufSize) \in Seq(STRING)
        /\ Len(SubSeq(b, n + 1, BufSize)) = BufSize - n
    OBVIOUS
  <1>. QED BY <1>1, <1>2

(* Every step of the peer and of the process keeps the invariant. *)
LEMMA NextIInv == IInv /\ [Next]_vars => IInv'
  <1>. SUFFICES ASSUME IInv, [Next]_vars PROVE IInv'
    OBVIOUS
  <1>. USE DEF Ended, NoResp, peerVars, connVars
  <1>0. /\ msg \in Seq(STRING) /\ Len(msg) \in Nat
        /\ sent \in Nat /\ got \in Nat /\ got <= sent /\ sent <= Len(msg)
        /\ buf \in Seq(STRING) /\ Len(buf) = BufSize
    BY DEF IInv, TypeOK, ConnTypeOK
  <1>1. CASE RecvData
    <2>. DEFINE n == ReadSize(sent - got)
                mem == SubSeq(msg, got + 1, got + n) \o SubSeq(buf, n + 1, BufSize)
    <2>1. /\ pc = "recv" /\ got < sent /\ UNCHANGED <<msg, sent, taken, peer, total_send, called>>
          /\ buf' = mem /\ got' = got + n
          /\ \/ OverLimit(got + n) /\ Answer(RequestBufferOverflow)
             \/ /\ ~OverLimit(got + n) /\ UNCHANGED resp
                /\ pc' = IF IsLastRead(n) THEN "execution" ELSE "recv"
      BY <1>1 DEF RecvData
    <2>2. n \in 1..BufSize /\ n \in 0..BufSize /\ got + n <= sent /\ got + n <= Len(msg)
      BY <1>0, <2>1 DEF ReadSize
    <2>. HIDE DEF n
    <2>3. buf' \in Seq(STRING) /\ Len(buf') = BufSize
      BY <1>0, <2>1, <2>2, Overwritten
    <2>4. got' \in 0..sent' /\ sent' \in 0..Len(msg') /\ called = NotCalled
      BY <1>0, <2>1, <2>2 DEF IInv, CalledLate
    <2>5. CASE OverLimit(got + n) /\ Answer(RequestBufferOverflow)
      <3>1. resp' = 413 /\ pc' = "send" /\ got + n >= Limit
        BY <2>5, Statuses DEF Answer, OverLimit
      <3>2. TypeOK'
        BY <2>1, <2>3, <2>4, <3>1 DEF IInv, TypeOK, ConnTypeOK
      <3>. QED BY <2>1, <2>3, <2>4, <3>1, <3>2
               DEF IInv, WaitsOnlyAtFullBuffer, StopsAtLimit, CalledLate
    <2>6. CASE /\ ~OverLimit(got + n) /\ UNCHANGED resp
               /\ pc' = IF IsLastRead(n) THEN "execution" ELSE "recv"
      <3>1. got' < Limit /\ pc' = (IF n < BufSize THEN "execution" ELSE "recv")
        BY <1>0, <2>1, <2>2, <2>6 DEF OverLimit, IsLastRead
      <3>2. TypeOK'
        BY <2>1, <2>3, <2>4, <2>6, <3>1 DEF IInv, TypeOK, ConnTypeOK
      <3>3. WaitsOnlyAtFullBuffer'
        <4>1. CASE n < BufSize
          BY <3>1, <4>1 DEF WaitsOnlyAtFullBuffer
        <4>2. CASE ~(n < BufSize)
          <5>1. n = BufSize /\ got' = got + BufSize
            BY <2>1, <2>2, <4>2
          <5>2. PICK k \in 0..got : got = k * BufSize
            BY <2>1 DEF IInv, WaitsOnlyAtFullBuffer
          <5>3. \E j \in 0..(got + BufSize) : got + BufSize = j * BufSize
            BY <1>0, <5>2, NextMultiple
          <5>. QED BY <5>1, <5>3 DEF WaitsOnlyAtFullBuffer
        <4>. QED BY <4>1, <4>2
      <3>4. StopsAtLimit' /\ CalledLate'
        <4>1. resp # 413
          BY <1>0, <2>1 DEF IInv, StopsAtLimit
        <4>. QED BY <2>1, <2>4, <2>6, <3>1, <4>1 DEF StopsAtLimit, CalledLate
      <3>. QED BY <2>3, <3>2, <3>3, <3>4 DEF IInv
    <2>. QED BY <2>1, <2>5, <2>6
  <1>2. CASE RecvEnd \/ RecvError \/ RecvInterrupted \/ Close
    <2>1. /\ pc \in {"recv", "close"}
          /\ UNCHANGED <<msg, sent, taken, peer, got, total_send, called, buf>>
          /\ \/ pc' \in {"close", "closed"} /\ UNCHANGED resp
             \/ Answer(InternalError)
      BY <1>2 DEF RecvEnd, RecvError, RecvInterrupted, RecvMinusOne, Close
    <2>2. pc' \in {"close", "closed", "send"} /\ resp' \in {resp, 500}
      BY <2>1, Statuses DEF Answer
    <2>3. TypeOK'
      BY <1>0, <2>1, <2>2 DEF IInv, TypeOK, ConnTypeOK
    <2>. QED BY <1>0, <2>1, <2>2, <2>3
             DEF IInv, WaitsOnlyAtFullBuffer, StopsAtLimit, CalledLate
  <1>3. CASE execution /\ UNCHANGED buf
    <2>1. /\ pc = "execution" /\ pc' \in {"send", "killed"}
          /\ resp' \in {resp, 200, 400, 404, 500}
          /\ UNCHANGED <<msg, sent, taken, peer, got, total_send, buf>>
      BY <1>3, ExecutionFacts
    <2>2. got < Limit
      BY <2>1 DEF IInv, StopsAtLimit
    <2>3. TypeOK'
      BY <2>1 DEF IInv, TypeOK, ConnTypeOK
    <2>. QED BY <2>1, <2>2, <2>3 DEF IInv, WaitsOnlyAtFullBuffer, StopsAtLimit, CalledLate
  <1>4. CASE (SendSome \/ SendFails) /\ UNCHANGED buf
    BY <1>0, <1>4 DEF SendSome, SendFails, IInv, TypeOK, ConnTypeOK,
              WaitsOnlyAtFullBuffer, StopsAtLimit, CalledLate
  <1>5. ASSUME NEW n \in 1..Len(msg), Write(n), UNCHANGED <<connVars, buf>> PROVE IInv'
    <2>1. sent' = sent + n /\ sent' \in 0..Len(msg) /\ UNCHANGED <<msg, taken, peer>>
      BY <1>0, <1>5 DEF Write
    <2>2. TypeOK'
      BY <1>0, <1>5, <2>1 DEF IInv, TypeOK, ConnTypeOK
    <2>. QED BY <1>5, <2>1, <2>2 DEF IInv, WaitsOnlyAtFullBuffer, StopsAtLimit, CalledLate
  <1>8. CASE ReadResponse /\ UNCHANGED <<connVars, buf>>
    <2>1. taken' \in 0..total_send /\ UNCHANGED <<msg, sent, peer>>
      BY <1>8 DEF ReadResponse, IInv, TypeOK, ConnTypeOK
    <2>. QED BY <1>8, <2>1 DEF IInv, TypeOK, ConnTypeOK,
             WaitsOnlyAtFullBuffer, StopsAtLimit, CalledLate
  <1>6. ASSUME NEW how \in {"fin", "rst"}, HangUp(how), UNCHANGED <<connVars, buf>> PROVE IInv'
    BY <1>6 DEF HangUp, IInv, TypeOK, ConnTypeOK, WaitsOnlyAtFullBuffer, StopsAtLimit, CalledLate
  <1>7. CASE UNCHANGED vars
    BY <1>7 DEF vars, IInv, TypeOK, ConnTypeOK, WaitsOnlyAtFullBuffer, StopsAtLimit, CalledLate
  <1>. QED BY <1>1, <1>2, <1>3, <1>4, <1>5, <1>6, <1>7, <1>8 DEF Next, Server, Transfer, Peer

(* The connection's fields keep their types, and the array its size, for   *)
(* every request, buffer size and limit, whatever the memory held.         *)
THEOREM TypeCorrect == Spec => []TypeOK
  <1>1. IInv => TypeOK
    BY DEF IInv
  <1>. QED BY <1>1, InitIInv, NextIInv, PTL DEF Spec

(* HttpConnection::recv waits for more only after completely filled        *)
(* buffers.                                                                *)
THEOREM WaitsOnlyAtFullBufferAlways == Spec => []WaitsOnlyAtFullBuffer
  <1>1. IInv => WaitsOnlyAtFullBuffer
    BY DEF IInv
  <1>. QED BY <1>1, InitIInv, NextIInv, PTL DEF Spec

(* Nothing of a request that is longer than the limit is executed, and a   *)
(* shorter one is not refused for its length.                              *)
THEOREM LimitRespectedAlways == Spec => []LimitRespected
  <1>1. IInv => LimitRespected
    BY LimitFromStop DEF IInv, TypeOK
  <1>. QED BY <1>1, InitIInv, NextIInv, PTL DEF Spec

(* Every step of the process and of its peer is one of Exchange, or is not *)
(* visible there.                                                          *)
LEMMA NextExchange == Phases /\ [Next]_vars => Step
  <1>. SUFFICES ASSUME Phases, [Next]_vars PROVE Step
    OBVIOUS
  <1>1. CASE RecvData
    <2>1. /\ pc = "recv" /\ UNCHANGED <<peer, total_send, called>>
          /\ \/ Answer(RequestBufferOverflow)
             \/ pc' \in {"recv", "execution"} /\ UNCHANGED resp
      BY <1>1 DEF RecvData, peerVars
    <2>2. CASE Answer(RequestBufferOverflow)
      BY <2>1, <2>2, Statuses, RefuseStep DEF Answer
    <2>3. CASE pc' \in {"recv", "execution"} /\ UNCHANGED resp
      BY <2>1, <2>3, QuietStep DEF Ended
    <2>. QED BY <2>1, <2>2, <2>3
  <1>2. CASE RecvEnd
    BY <1>2, GiveUpStep DEF RecvEnd, peerVars
  <1>3. CASE RecvError \/ RecvInterrupted
    BY <1>3, Statuses, RefuseStep DEF RecvError, RecvInterrupted, RecvMinusOne, Answer, peerVars
  <1>4. CASE Close
    BY <1>4, CloseStep DEF Close, Ended, peerVars
  <1>5. CASE execution
    BY <1>5, ExecutionStep
  <1>6. CASE SendSome \/ SendFails
    BY <1>6, SendStep
  <1>7. CASE Peer
    BY <1>7, PeerStep DEF Peer
  <1>8. CASE UNCHANGED vars
    BY <1>8 DEF vars, peerVars, connVars, Step, Phases, Undecided, X!vars
  <1>. QED BY <1>1, <1>2, <1>3, <1>4, <1>5, <1>6, <1>7, <1>8 DEF Next, Server, Transfer

(* A connection over plain TCP implements Exchange: one handler call, one  *)
(* answer, sent whole unless the peer goes away.                           *)
THEOREM HttpImplementsExchange == Spec => ImplementsExchange
  <1>1. Init => Phases /\ X!Init
    BY InitExchange DEF Init
  <1>2. Phases /\ [Next]_vars => Phases' /\ [X!Next]_(X!vars)
    BY NextExchange DEF Step
  <1>. QED BY <1>1, <1>2, PTL DEF Spec, ImplementsExchange, X!Spec

(* Every step of the process moves it on; those of the peer leave it where *)
(* it is.                                                                  *)
LEMMA NextForward == IInv /\ [Next]_vars => [Forward]_connVars
  <1>. SUFFICES ASSUME IInv, [Next]_vars PROVE [Forward]_connVars
    OBVIOUS
  <1>0. ConnTypeOK
    BY DEF IInv, TypeOK
  <1>1. CASE RecvData
    <2>1. /\ pc = "recv" /\ pc' \in {"recv", "execution", "send"}
          /\ got < sent /\ got' = got + ReadSize(sent - got)
      BY <1>1 DEF RecvData, Answer
    <2>2. got \in Nat /\ sent \in Nat
      BY <1>0 DEF ConnTypeOK
    <2>3. got < got'
      BY <2>1, <2>2 DEF ReadSize
    <2>. QED BY <2>1, <2>3 DEF Forward
  <1>2. CASE RecvEnd \/ RecvError \/ RecvInterrupted \/ Close
    BY <1>2 DEF RecvEnd, RecvError, RecvInterrupted, RecvMinusOne, Close, Answer, Forward, Ended
  <1>3. CASE execution \/ SendSome \/ SendFails
    BY <1>0, <1>3, LaterForward
  <1>4. CASE Peer \/ UNCHANGED vars
    BY <1>4 DEF Peer, vars
  <1>. QED BY <1>1, <1>2, <1>3, <1>4 DEF Next, Server, Transfer

(* HttpConnection, from recv to its destructor, takes a bounded number of  *)
(* reads and writes, whatever the peer sends and whatever the array holds: *)
(* each step that changes its state lowers the bound.  It can stay behind  *)
(* only where it waits for the peer.                                       *)
THEOREM HttpProcessBounded ==
  Spec => /\ [](Left \in 0..(Limit + RespLen + 3))
          /\ [][Left' < Left]_connVars
  <1>1. IInv => Left \in 0..(Limit + RespLen + 3)
    BY LeftBounded DEF IInv, TypeOK
  <1>2. IInv /\ [Next]_vars => [Left' < Left]_connVars
    <2>. SUFFICES ASSUME IInv, [Next]_vars PROVE [Left' < Left]_connVars
      OBVIOUS
    <2>1. IInv' /\ [Forward]_connVars
      BY NextIInv, NextForward
    <2>2. CASE Forward
      BY <2>1, <2>2, ForwardLess DEF IInv, TypeOK
    <2>. QED BY <2>1, <2>2
  <1>. QED BY <1>1, <1>2, InitIInv, NextIInv, PTL DEF Spec
=============================================================================
