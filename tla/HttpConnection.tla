--------------------------- MODULE HttpConnection ---------------------------
(***************************************************************************)
(* HttpConnection (http_connection.cc): the connection over a plain TCP    *)
(* socket.  recv fills an array on the stack and then appends it as a C    *)
(* string, so what is appended reaches to the first NUL in memory: beyond  *)
(* the bytes just received lie those of the read before, or what the stack *)
(* held, and beyond the array whatever follows it.                         *)
(***************************************************************************)
EXTENDS Connection

CONSTANTS Stack,        \* what the uninitialised array may hold
          Beyond        \* what may follow the array in memory before a NUL

ASSUME HttpConnectionAssumption ==
  Stack \subseteq Seq(STRING) /\ \A s \in Stack : Len(s) = BufSize

VARIABLE buf

vars == <<peerVars, connVars, buf>>

NUL == "NUL"

(* The C string that starts at the first byte of mem. *)
c_str(mem) ==
  LET nuls == {i \in DOMAIN mem : mem[i] = NUL}
  IN  IF nuls = {} THEN mem ELSE SubSeq(mem, 1, Min(nuls) - 1)

Init == ConnInit /\ buf \in Stack

(* ::recv returns what is there, at most BufSize bytes. *)
RecvData ==
  /\ pc = "recv" /\ peer # "rst" /\ got < sent
  /\ LET n   == ReadSize(sent - got)
         mem == SubSeq(msg, got + 1, got + n) \o SubSeq(buf, n + 1, BufSize)
     IN  /\ buf' = mem
         /\ got' = got + n
         /\ IF OverLimit(got + n)
              THEN Answer(RequestBufferOverflow) /\ UNCHANGED req
              ELSE /\ \E past \in Beyond : req' = req \o c_str(mem \o past)
                   /\ pc' = IF IsLastRead(n) THEN "execution" ELSE "recv"
                   /\ UNCHANGED resp
  /\ UNCHANGED <<peerVars, total_send, called>>

(* A return of 0 taken for "nothing yet". *)
MutRecvEnd ==
  /\ pc = "recv" /\ peer = "fin" /\ got = sent
  /\ UNCHANGED <<peerVars, pc, got, req, resp, total_send, called, buf>>

(* ::recv returns 0: the peer has ended its stream and all of it was read. *)
RecvEnd ==
  /\ pc = "recv" /\ peer = "fin" /\ got = sent
  /\ pc' = "close"
  /\ UNCHANGED <<peerVars, got, req, resp, total_send, called, buf>>

RecvMinusOne ==
  /\ pc = "recv"
  /\ Answer(InternalError)
  /\ UNCHANGED <<peerVars, got, req, total_send, called, buf>>

(* ::recv returns -1 because the peer reset the connection. *)
RecvError == peer = "rst" /\ RecvMinusOne

(* ::recv returns -1 for another reason: an interrupted call, which is not *)
(* repeated here, or want of memory.  It may happen whatever the peer does.*)
RecvInterrupted == peer # "rst" /\ RecvMinusOne

(* ~HttpConnection *)
Close ==
  /\ pc = "close"
  /\ pc' = "closed"
  /\ UNCHANGED <<peerVars, got, req, resp, total_send, called, buf>>

Transfer ==
  \/ RecvData \/ RecvEnd \/ RecvError
  \/ (SendSome \/ SendFails) /\ UNCHANGED buf
  \/ Close

Server == Transfer \/ RecvInterrupted \/ (execution /\ UNCHANGED buf)

Peer ==
  \/ \E n \in 1..Len(msg) : Write(n) /\ UNCHANGED <<connVars, buf>>
  \/ ReadResponse /\ UNCHANGED <<connVars, buf>>
  \/ \E how \in {"fin", "rst"} : HangUp(how) /\ UNCHANGED <<connVars, buf>>

Next == Server \/ Peer

(* The process runs until it blocks, in ::recv for want of bytes or in     *)
(* ::send for want of room; nothing is assumed of the peer, and no call    *)
(* need be interrupted.                                                    *)
Fairness == WF_vars(Transfer) /\ WF_pc(Executes)

Spec == Init /\ [][Next]_vars /\ Fairness

-----------------------------------------------------------------------------
(* The array keeps its size, and the connection's fields their types. *)
TypeOK == ConnTypeOK /\ Len(buf) = BufSize

(* README, sequence diagram: recv() reads the raw bytes of the request. *)
RecvExact == pc \in {"recv", "execution"} => req = SubSeq(msg, 1, got)
=============================================================================
