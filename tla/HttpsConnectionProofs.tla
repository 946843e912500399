----------------------- MODULE HttpsConnectionProofs ------------------------
(***************************************************************************)
(* Proofs about HttpsConnection for requests of any length, any buffer     *)
(* size and limit, and any way the records cut a request up; the last part *)
(* is about what the parser makes of the beginning of a request.           *)
(***************************************************************************)
EXTENDS HttpsConnection, ConnectionProofs, WellFoundedInduction

USE ConnectionAssumption

(* The part of a request up to h is the part up to g and what follows it. *)
LEMMA SubSeqSplit ==
  ASSUME NEW S, NEW m \in Seq(S), NEW g \in 0..Len(m), NEW h \in g..Len(m)
  PROVE  SubSeq(m, 1, g) \o SubSeq(m, g + 1, h) = SubSeq(m, 1, h)
  OBVIOUS

IInv == TypeOK /\ RecvExact /\ WaitsOnlyAtFullBuffer /\ StopsAtLimit /\ CalledLate

(* A connection that has read nothing satisfies the invariant. *)
LEMMA InitIInv == Init => IInv
  <1>. SUFFICES ASSUME Init PROVE IInv
    OBVIOUS
  <1>1. msg \in Seq(STRING) /\ Len(msg) \in Nat
    BY DEF Init, ConnInit
  <1>2. TypeOK
    BY <1>1 DEF Init, ConnInit, TypeOK, ConnTypeOK, Ended, NoResp
  <1>3. RecvExact
    BY <1>1 DEF Init, ConnInit, RecvExact
  <1>4. WaitsOnlyAtFullBuffer
    <2>1. 0 \in 0..0 /\ 0 = 0 * BufSize
      OBVIOUS
    <2>. QED BY <2>1 DEF Init, ConnInit, WaitsOnlyAtFullBuffer
  <1>5. StopsAtLimit /\ CalledLate
    BY DEF Init, ConnInit, StopsAtLimit, CalledLate, NoResp
  <1>. QED BY <1>2, <1>3, <1>4, <1>5 DEF IInv

(* Every step of the peer and of the process keeps the invariant. *)
LEMMA NextIInv == IInv /\ [Next]_vars => IInv'
  <1>. SUFFICES ASSUME IInv, [Next]_vars PROVE IInv'
    OBVIOUS
  <1>. USE DEF Ended, NoResp, peerVars, connVars
  <1>0. /\ msg \in Seq(STRING) /\ Len(msg) \in Nat
        /\ sent \in Nat /\ got \in Nat /\ got <= sent /\ sent <= Len(msg)
    BY DEF IInv, TypeOK, ConnTypeOK
  <1>1. CASE RecvData
    <2>1. PICK end \in records :
            /\ IsNextEnd(end)
            /\ got' = got + ReadSize(end - got)
            /\ records' = {e \in records : e >= got + ReadSize(end - got)}
            /\ IF OverLimit(got + ReadSize(end - got))
                 THEN Answer(RequestBufferOverflow) /\ UNCHANGED req
                 ELSE /\ req' = AppendRead(req, SubSeq(msg, got + 1, got + ReadSize(end - got)))
                      /\ pc' = IF IsLastRead(ReadSize(end - got)) THEN "execution" ELSE "recv"
                      /\ UNCHANGED resp
      BY <1>1 DEF RecvData
    <2>2. pc = "recv" /\ UNCHANGED <<msg, sent, taken, peer, total_send, called>>
      BY <1>1 DEF RecvData
    <2>. DEFINE n == ReadSize(end - got)
    <2>3. end \in Nat /\ got < end /\ end <= sent /\ sent \in records
      BY <1>0, <2>1 DEF IsNextEnd, IInv, TypeOK
    <2>4. n \in 1..BufSize /\ got + n <= sent
      BY <1>0, <2>3 DEF ReadSize
    <2>5. got' = got + n /\ got' \in Nat /\ got' \in got..Len(msg)
      BY <1>0, <2>1, <2>4
    <2>6. records' \subseteq 0..sent /\ sent \in records'
      BY <1>0, <2>1, <2>3, <2>4 DEF IInv, TypeOK
    <2>. HIDE DEF n
    <2>7. CASE got + n >= Limit
      <3>1. resp' = 413 /\ pc' = "send" /\ req' = req
        BY <2>1, <2>7, Statuses DEF OverLimit, Answer, n
      <3>2. TypeOK'
        BY <1>0, <2>2, <2>4, <2>5, <2>6, <3>1 DEF IInv, TypeOK, ConnTypeOK
      <3>3. called = NotCalled
        BY <2>2 DEF IInv, CalledLate
      <3>. QED BY <2>2, <2>5, <2>7, <3>1, <3>2, <3>3
               DEF IInv, RecvExact, WaitsOnlyAtFullBuffer, StopsAtLimit, CalledLate
    <2>8. CASE ~(got + n >= Limit)
      <3>1. /\ req' = req \o SubSeq(msg, got + 1, got + n)
            /\ pc' = IF n < BufSize THEN "execution" ELSE "recv"
            /\ resp' = resp
        BY <2>1, <2>8 DEF OverLimit, AppendRead, IsLastRead, n
      <3>2. TypeOK'
        BY <1>0, <2>2, <2>4, <2>5, <2>6, <3>1 DEF IInv, TypeOK, ConnTypeOK
      <3>3. RecvExact'
        <4>1. req = SubSeq(msg, 1, got)
          BY <2>2 DEF IInv, RecvExact
        <4>2. req' = SubSeq(msg, 1, got')
          BY <1>0, <2>5, <3>1, <4>1, SubSeqSplit
        <4>. QED BY <2>2, <4>2 DEF RecvExact
      <3>4. WaitsOnlyAtFullBuffer'
        <4>1. CASE n < BufSize
          BY <3>1, <4>1 DEF WaitsOnlyAtFullBuffer
        <4>2. CASE ~(n < BufSize)
          <5>1. n = BufSize /\ got' = got + BufSize
            BY <2>4, <2>5, <4>2
          <5>2. PICK k \in 0..got : got = k * BufSize
            BY <2>2 DEF IInv, WaitsOnlyAtFullBuffer
          <5>3. \E j \in 0..(got + BufSize) : got + BufSize = j * BufSize
            BY <1>0, <5>2, NextMultiple
          <5>. QED BY <5>1, <5>3 DEF WaitsOnlyAtFullBuffer
        <4>. QED BY <4>1, <4>2
      <3>5. StopsAtLimit'
        BY <1>0, <2>2, <2>4, <2>5, <2>8, <3>1 DEF IInv, StopsAtLimit
      <3>6. CalledLate'
        BY <2>2 DEF IInv, CalledLate
      <3>. QED BY <3>2, <3>3, <3>4, <3>5, <3>6 DEF IInv
    <2>. QED BY <2>7, <2>8
  <1>2. CASE RecvEnd \/ RecvError \/ Close \/ CutNoticed
    <2>1. /\ pc \in {"recv", "send", "close"}
          /\ UNCHANGED <<msg, sent, taken, peer, got, req, total_send, called, records>>
          /\ \/ pc' \in {"close", "closed", "killed"} /\ UNCHANGED resp
             \/ Answer(InternalError)
      BY <1>2 DEF RecvEnd, RecvError, Close, CutNoticed
    <2>2. CASE pc' \in {"close", "closed", "killed"} /\ UNCHANGED resp
      BY <1>0, <2>1, <2>2 DEF IInv, TypeOK, ConnTypeOK,
              RecvExact, WaitsOnlyAtFullBuffer, StopsAtLimit, CalledLate
    <2>3. CASE Answer(InternalError)
      <3>1. pc' = "send" /\ resp' = 500
        BY <2>3, Statuses DEF Answer
      <3>. QED BY <1>0, <2>1, <3>1 DEF IInv, TypeOK, ConnTypeOK,
              RecvExact, WaitsOnlyAtFullBuffer, StopsAtLimit, CalledLate
    <2>. QED BY <2>1, <2>2, <2>3
  <1>3. CASE execution /\ UNCHANGED records
    <2>1. /\ pc = "execution" /\ pc' \in {"send", "killed"}
          /\ resp' \in {resp, 200, 400, 404, 500}
          /\ UNCHANGED <<msg, sent, taken, peer, got, req, total_send, records>>
      BY <1>3, ExecutionFacts
    <2>2. got < Limit
      BY <2>1 DEF IInv, StopsAtLimit
    <2>3. TypeOK'
      BY <2>1 DEF IInv, TypeOK, ConnTypeOK
    <2>. QED BY <2>1, <2>2, <2>3
             DEF IInv, RecvExact, WaitsOnlyAtFullBuffer, StopsAtLimit, CalledLate
  <1>4. CASE (SendSome \/ SendFails) /\ UNCHANGED records
    BY <1>0, <1>4 DEF SendSome, SendFails, IInv, TypeOK, ConnTypeOK,
              RecvExact, WaitsOnlyAtFullBuffer, StopsAtLimit, CalledLate
  <1>5. ASSUME NEW n \in 1..Len(msg), Write(n), records' = records \cup {sent + n},
               UNCHANGED connVars
        PROVE  IInv'
    <2>1. sent' = sent + n /\ sent' \in 0..Len(msg) /\ UNCHANGED <<msg, taken, peer>>
      BY <1>0, <1>5 DEF Write
    <2>2. TypeOK'
      BY <1>0, <1>5, <2>1 DEF IInv, TypeOK, ConnTypeOK
    <2>. QED BY <1>5, <2>1, <2>2
             DEF IInv, RecvExact, WaitsOnlyAtFullBuffer, StopsAtLimit, CalledLate
  <1>8. CASE ReadResponse /\ UNCHANGED <<connVars, records>>
    <2>1. taken' \in 0..total_send /\ UNCHANGED <<msg, sent, peer>>
      BY <1>8 DEF ReadResponse, IInv, TypeOK, ConnTypeOK
    <2>. QED BY <1>8, <2>1 DEF IInv, TypeOK, ConnTypeOK,
             RecvExact, WaitsOnlyAtFullBuffer, StopsAtLimit, CalledLate
  <1>6. ASSUME NEW how \in {"fin", "cut", "rst"}, HangUp(how), UNCHANGED <<connVars, records>>
        PROVE  IInv'
    BY <1>6 DEF HangUp, IInv, TypeOK, ConnTypeOK,
              RecvExact, WaitsOnlyAtFullBuffer, StopsAtLimit, CalledLate
  <1>7. CASE UNCHANGED vars
    BY <1>7 DEF vars, IInv, TypeOK, ConnTypeOK,
              RecvExact, WaitsOnlyAtFullBuffer, StopsAtLimit, CalledLate
  <1>. QED BY <1>1, <1>2, <1>3, <1>4, <1>5, <1>6, <1>7, <1>8 DEF Next, Server, Transfer, Peer

(* The connection's fields keep their types, for every request, buffer     *)
(* size and limit.                                                         *)
THEOREM TypeCorrect == Spec => []TypeOK
  <1>1. IInv => TypeOK
    BY DEF IInv
  <1>. QED BY <1>1, InitIInv, NextIInv, PTL DEF Spec

(* HttpsConnection::recv hands on exactly the bytes that were sent, up to  *)
(* where it stopped reading.                                               *)
THEOREM RecvExactAlways == Spec => []RecvExact
  <1>1. IInv => RecvExact
    BY DEF IInv
  <1>. QED BY <1>1, InitIInv, NextIInv, PTL DEF Spec

(* recv waits for more only after completely filled buffers. *)
THEOREM WaitsOnlyAtFullBufferAlways == Spec => []WaitsOnlyAtFullBuffer
  <1>1. IInv => WaitsOnlyAtFullBuffer
    BY DEF IInv
  <1>. QED BY <1>1, InitIInv, NextIInv, PTL DEF Spec

(* Nothing of a request that is longer than the limit is executed, and a   *)
(* shorter one is not refused for its length.                              *)
THEOREM LimitRespectedAlways == Spec => []LimitRespected
  <1>1. IInv => LimitRespected
    BY LimitFromStop DEF IInv, TypeOK
  <1>. QED BY <1>1, InitIInv, NextIInv, PTL DEF Spec

(* Every step of the process and of its peer is one of Exchange, or is not *)
(* visible there.                                                          *)
LEMMA NextExchange == Phases /\ [Next]_vars => Step
  <1>. SUFFICES ASSUME Phases, [Next]_vars PROVE Step
    OBVIOUS
  <1>1. CASE RecvData
    <2>1. /\ pc = "recv" /\ UNCHANGED <<peer, total_send, called>>
          /\ \/ Answer(RequestBufferOverflow)
             \/ pc' \in {"recv", "execution"} /\ UNCHANGED resp
      BY <1>1 DEF RecvData, peerVars
    <2>2. CASE Answer(RequestBufferOverflow)
      BY <2>1, <2>2, Statuses, RefuseStep DEF Answer
    <2>3. CASE pc' \in {"recv", "execution"} /\ UNCHANGED resp
      BY <2>1, <2>3, QuietStep DEF Ended
    <2>. QED BY <2>1, <2>2, <2>3
  <1>2. CASE RecvEnd
    BY <1>2, GiveUpStep DEF RecvEnd, peerVars
  <1>3. CASE RecvError
    BY <1>3, Statuses, RefuseStep DEF RecvError, Answer, peerVars
  <1>4. CASE Close
    BY <1>4, CloseStep DEF Close, Ended, peerVars
  <1>9. CASE CutNoticed
    BY <1>9, CutStep DEF CutNoticed, peerVars
  <1>5. CASE execution
    BY <1>5, ExecutionStep
  <1>6. CASE SendSome \/ SendFails
    BY <1>6, SendStep
  <1>7. CASE Peer
    BY <1>7, PeerStep DEF Peer
  <1>8. CASE UNCHANGED vars
    BY <1>8 DEF vars, peerVars, connVars, Step, Phases, Undecided, X!vars
  <1>. QED BY <1>1, <1>2, <1>3, <1>4, <1>5, <1>6, <1>7, <1>8, <1>9 DEF Next, Server, Transfer

(* A connection over TLS implements Exchange: one handler call, one        *)
(* answer, sent whole unless the peer goes away.                           *)
THEOREM HttpsImplementsExchange == Spec => ImplementsExchange
  <1>1. Init => Phases /\ X!Init
    BY InitExchange DEF Init
  <1>2. Phases /\ [Next]_vars => Phases' /\ [X!Next]_(X!vars)
    BY NextExchange DEF Step
  <1>. QED BY <1>1, <1>2, PTL DEF Spec, ImplementsExchange, X!Spec

-----------------------------------------------------------------------------

(* Every nonempty set of positions has a first one, which Min returns. *)
LEMMA MinIsFirst ==
  ASSUME NEW S, S \subseteq Nat, S # {}
  PROVE  Min(S) \in S /\ \A y \in S : Min(S) <= y
  <1>1. PICK x \in S : \A y \in S : <<y, x>> \notin OpToRel(<, Nat)
    BY NatLessThanWellFounded, WFMin
  <1>2. ASSUME NEW y \in S PROVE x <= y
    <2>1. x \in Nat /\ y \in Nat
      OBVIOUS
    <2>2. <<y, x>> \notin {q \in Nat \X Nat : q[1] < q[2]}
      BY <1>1 DEF OpToRel
    <2>3. <<y, x>> \in Nat \X Nat
      BY <2>1
    <2>4. ~(y < x)
      BY <2>2, <2>3
    <2>. QED BY <2>1, <2>4
  <1>. QED BY <1>2 DEF Min

(* A pattern that is found in the beginning of a text is found at the same *)
(* place in the text.                                                      *)
LEMMA FoundInPrefix ==
  ASSUME NEW m \in Seq(STRING), NEW g \in 0..Len(m), NEW pat, Len(pat) \in Nat,
         findFrom(SubSeq(m, 1, g), pat, 0) # npos
  PROVE  /\ findFrom(m, pat, 0) = findFrom(SubSeq(m, 1, g), pat, 0)
         /\ findFrom(m, pat, 0) \in 0..(g - Len(pat))
  <1>. DEFINE p == SubSeq(m, 1, g)
              H(s) == {i \in 0..(Len(s) - Len(pat)) : SubSeq(s, i + 1, i + Len(pat)) = pat}
  <1>0. Len(m) \in Nat /\ Len(pat) \in Nat /\ g \in Nat /\ g <= Len(m) /\ Len(p) = g
    OBVIOUS
  <1>1. ASSUME NEW i \in 0..(g - Len(pat))
        PROVE  SubSeq(p, i + 1, i + Len(pat)) = SubSeq(m, i + 1, i + Len(pat))
    BY <1>0
  <1>2. \A s : findFrom(s, pat, 0) = IF H(s) = {} THEN npos ELSE Min(H(s))
    BY DEF findFrom
  <1>3. H(p) # {}
    BY <1>2
  <1>4. H(p) = {i \in H(m) : i <= g - Len(pat)}
    <2>. DEFINE P(i) == SubSeq(p, i + 1, i + Len(pat)) = pat
                M(i) == SubSeq(m, i + 1, i + Len(pat)) = pat
    <2>1. H(p) = {i \in 0..(g - Len(pat)) : P(i)} /\ H(m) = {i \in 0..(Len(m) - Len(pat)) : M(i)}
      BY <1>0
    <2>2. \A i \in 0..(g - Len(pat)) : P(i) <=> M(i)
      BY <1>1
    <2>3. 0..(g - Len(pat)) = {i \in 0..(Len(m) - Len(pat)) : i <= g - Len(pat)}
      BY <1>0
    <2>. HIDE DEF P, M, H, p
    <2>. QED BY <2>1, <2>2, <2>3
  <1>5. H(p) \subseteq Nat /\ H(m) \subseteq Nat /\ H(m) # {}
    <2>1. H(p) \subseteq Nat /\ H(m) \subseteq Nat
      BY <1>0
    <2>. HIDE DEF H, p
    <2>. QED BY <1>3, <1>4, <2>1
  <1>6. H(p) \subseteq 0..(g - Len(pat))
    BY <1>0
  <1>. HIDE DEF H, p
  <1>7. Min(H(p)) \in H(p) /\ \A y \in H(p) : Min(H(p)) <= y
    BY <1>3, <1>5, MinIsFirst
  <1>8. Min(H(m)) \in H(m) /\ \A y \in H(m) : Min(H(m)) <= y
    BY <1>5, MinIsFirst
  <1>9. Min(H(m)) <= Min(H(p))
    BY <1>4, <1>7, <1>8
  <1>10. Min(H(m)) \in H(p)
    BY <1>0, <1>4, <1>5, <1>6, <1>7, <1>8, <1>9
  <1>11. Min(H(p)) <= Min(H(m))
    BY <1>7, <1>10
  <1>12. Min(H(p)) = Min(H(m))
    BY <1>5, <1>7, <1>8, <1>9, <1>11
  <1>13. findFrom(p, pat, 0) = Min(H(p)) /\ findFrom(m, pat, 0) = Min(H(m))
    BY <1>2, <1>3, <1>5
  <1>. QED BY <1>6, <1>7, <1>12, <1>13 DEF p

(* The body of a request that parses. *)
LEMMA ParsedBody ==
  ASSUME NEW raw, parse(raw).kind = "request"
  PROVE  LET e == findFrom(raw, CRLF \o CRLF, 0) IN
         ParseBody(raw, e).kind = "value" /\ parse(raw).body = ParseBody(raw, e).value
  <1>. DEFINE b == ParseBody(raw, findFrom(raw, CRLF \o CRLF, 0))
  <1>1. b.kind \in {"value", "nullopt", "throws"}
    BY DEF ParseBody, json_parse, Nullopt, Throws
  <1>. HIDE DEF b
  <1>. DEFINE q == parse(raw)
  <1>2. \/ q = Nullopt
        \/ q = b /\ b.kind # "value"
        \/ q.kind = "request" /\ q.body = b.value /\ b.kind = "value"
    BY DEF parse, b
  <1>3. Nullopt.kind # "request"
    BY DEF Nullopt
  <1>. QED BY <1>1, <1>2, <1>3 DEF b

(* The separator of head and body is four characters long. *)
LEMMA Separator == Len(CRLF \o CRLF) = 4
  <1>1. ASSUME NEW a, NEW b PROVE Len(<<a, b>> \o <<a, b>>) = 4
    OBVIOUS
  <1>. QED BY <1>1, Zenon DEF CRLF

(* A beginning of a request has its body, or none, or one that is itself   *)
(* the beginning of that body and JSON.                                    *)
LEMMA BodyOfPrefix ==
  ASSUME NEW m \in Seq(STRING), NEW g \in 0..Len(m), parse(SubSeq(m, 1, g)).kind = "request",
         ~PrefixIsJson(m)
  PROVE  parse(SubSeq(m, 1, g)).body \in {NoBody, parse(m).body}
  <1>. DEFINE p == SubSeq(m, 1, g)
              pat == CRLF \o CRLF
              e == findFrom(p, pat, 0)
              t == SubSeq(m, e + 5, g)
  <1>0. Len(m) \in Nat /\ g \in Nat /\ g <= Len(m) /\ Len(p) = g
    OBVIOUS
  <1>1. Len(pat) = 4
    BY Separator
  <1>2. ParseBody(p, e).kind = "value" /\ parse(p).body = ParseBody(p, e).value
    BY ParsedBody
  <1>3. CASE g = Len(m)
    <2>1. p = m
      BY <1>3
    <2>. QED BY <2>1
  <1>. HIDE DEF pat
  <1>4. CASE e = npos \/ e + 4 = g
    BY <1>0, <1>2, <1>4 DEF ParseBody
  <1>5. CASE g < Len(m) /\ ~(e = npos \/ e + 4 = g)
    <2>1. e = findFrom(m, pat, 0) /\ e \in 0..(g - 4)
      <3>1. Len(pat) \in Nat /\ findFrom(p, pat, 0) # npos
        BY <1>1, <1>5
      <3>2. findFrom(m, pat, 0) = findFrom(p, pat, 0) /\ findFrom(m, pat, 0) \in 0..(g - Len(pat))
        BY <3>1, FoundInPrefix
      <3>. QED BY <1>1, <3>2
    <2>. HIDE DEF e
    <2>2. e + 4 < g /\ e \in Nat
      BY <1>0, <1>5, <2>1
    <2>3. substr(p, e + 4, npos) = t
      BY <1>0, <2>2 DEF substr, npos
    <2>4. json_parse(t).kind = "value"
      BY <1>0, <1>2, <1>5, <2>3 DEF ParseBody
    <2>5. t \in DOMAIN Json
      BY <2>4 DEF json_parse, Throws, Nullopt
    <2>6. BodyStart(m) = e + 4
      BY <2>1 DEF BodyStart, pat
    <2>7. g \in (BodyStart(m) + 1)..(Len(m) - 1) /\ BodyStart(m) + 1 = e + 5
      BY <1>0, <1>5, <2>2, <2>6
    <2>8. PrefixIsJson(m)
      BY <2>5, <2>7 DEF PrefixIsJson
    <2>. QED BY <2>8
  <1>. QED BY <1>0, <1>3, <1>4, <1>5

(* What the handler is called with was parsed from a beginning of what the *)
(* peer set out to send.                                                   *)
CalledWithPrefix ==
  called # NotCalled =>
    called.kind = "request" /\ \E g \in 0..Len(msg) : called = parse(SubSeq(msg, 1, g))

LEMMA NextCalled == IInv /\ CalledWithPrefix /\ [Next]_vars => CalledWithPrefix'
  <1>. SUFFICES ASSUME IInv, CalledWithPrefix, [Next]_vars PROVE CalledWithPrefix'
    OBVIOUS
  <1>1. msg' = msg
    BY DEF Next, Server, Transfer, Peer, RecvData, RecvEnd, RecvError, Close, CutNoticed, SendSome, SendFails,
           execution, Write, ReadResponse, HangUp, vars, peerVars
  <1>2. CASE execution /\ called' # called
    <2>1. pc = "execution" /\ called' = parse(req) /\ parse(req).kind = "request"
      BY <1>2 DEF execution
    <2>2. req = SubSeq(msg, 1, got) /\ got \in 0..Len(msg)
      BY <2>1 DEF IInv, RecvExact, TypeOK, ConnTypeOK
    <2>. QED BY <1>1, <2>1, <2>2 DEF CalledWithPrefix
  <1>3. CASE called' = called
    BY <1>1, <1>3 DEF CalledWithPrefix
  <1>4. execution \/ called' = called
    BY DEF Next, Server, Transfer, Peer, RecvData, RecvEnd, RecvError, Close, CutNoticed, SendSome, SendFails,
           vars, connVars
  <1>. QED BY <1>2, <1>3, <1>4

(* Over TLS a body that a handler sees is the one the peer sent, whatever  *)
(* the records cut the request into, unless the part that was read is      *)
(* itself JSON.                                                            *)
THEOREM BodyAsSentAlways == Spec => []BodyAsSent
  <1>1. Init => CalledWithPrefix
    BY DEF Init, ConnInit, CalledWithPrefix
  <1>2. IInv /\ CalledWithPrefix => BodyAsSent
    <2>. SUFFICES ASSUME IInv, CalledWithPrefix, called # NotCalled, ~PrefixIsJson(msg)
                  PROVE  called.body \in {NoBody, parse(msg).body}
      BY DEF BodyAsSent
    <2>1. PICK g \in 0..Len(msg) : called = parse(SubSeq(msg, 1, g))
      BY DEF CalledWithPrefix
    <2>2. called.kind = "request" /\ msg \in Seq(STRING)
      BY DEF CalledWithPrefix, IInv, TypeOK, ConnTypeOK
    <2>. QED BY <2>1, <2>2, BodyOfPrefix
  <1>. QED BY <1>1, <1>2, InitIInv, NextIInv, NextCalled, PTL DEF Spec

(* Every step of the process moves it on; those of the peer leave it where *)
(* it is.                                                                  *)
LEMMA NextForward == IInv /\ [Next]_vars => [Forward]_connVars
  <1>. SUFFICES ASSUME IInv, [Next]_vars PROVE [Forward]_connVars
    OBVIOUS
  <1>0. ConnTypeOK
    BY DEF IInv, TypeOK
  <1>1. CASE RecvData
    <2>1. PICK end \in records :
            /\ IsNextEnd(end)
            /\ got' = got + ReadSize(end - got)
      BY <1>1 DEF RecvData
    <2>2. pc = "recv" /\ pc' \in {"recv", "execution", "send"}
      BY <1>1 DEF RecvData, Answer
    <2>3. got \in Nat /\ end \in Nat /\ got < end
      BY <2>1 DEF IInv, TypeOK, ConnTypeOK, IsNextEnd
    <2>4. got < got'
      BY <2>1, <2>3 DEF ReadSize
    <2>. QED BY <2>2, <2>4 DEF Forward
  <1>2. CASE RecvEnd \/ RecvError \/ Close \/ CutNoticed
    BY <1>2 DEF RecvEnd, RecvError, Close, CutNoticed, Answer, Forward, Ended
  <1>3. CASE execution \/ SendSome \/ SendFails
    BY <1>0, <1>3, LaterForward
  <1>4. CASE Peer \/ UNCHANGED vars
    BY <1>4 DEF Peer, vars
  <1>. QED BY <1>1, <1>2, <1>3, <1>4 DEF Next, Server, Transfer

(* HttpsConnection, from recv to its destructor, takes a bounded number of *)
(* reads and writes, whatever the peer sends and wherever records end:     *)
(* each step that changes its state lowers the bound.  It can stay behind  *)
(* only where it waits for the peer.                                       *)
THEOREM HttpsProcessBounded ==
  Spec => /\ [](Left \in 0..(Limit + RespLen + 3))
          /\ [][Left' < Left]_connVars
  <1>1. IInv => Left \in 0..(Limit + RespLen + 3)
    BY LeftBounded DEF IInv, TypeOK
  <1>2. IInv /\ [Next]_vars => [Left' < Left]_connVars
    <2>. SUFFICES ASSUME IInv, [Next]_vars PROVE [Left' < Left]_connVars
      OBVIOUS
    <2>1. IInv' /\ [Forward]_connVars
      BY NextIInv, NextForward
    <2>2. CASE Forward
      BY <2>1, <2>2, ForwardLess DEF IInv, TypeOK
    <2>. QED BY <2>1, <2>2
  <1>. QED BY <1>1, <1>2, InitIInv, NextIInv, PTL DEF Spec
=============================================================================
