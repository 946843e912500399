-------------------------- MODULE HttpsConnection ---------------------------
(***************************************************************************)
(* HttpsConnection (https_connection.cc): the connection over TLS.  The    *)
(* bytes come in records, one per write of the peer, and SSL_read returns  *)
(* at most what is left of one record.  A call that returns WANT_READ or   *)
(* WANT_WRITE is repeated and changes nothing.                             *)
(***************************************************************************)
EXTENDS Connection

CONSTANT MaxRecords     \* bound on the unread records of the peer

ASSUME HttpsConnectionAssumption == MaxRecords \in Nat

VARIABLE records        \* where records end, as positions in msg; those
                        \* before the last position read are forgotten

vars == <<peerVars, connVars, records>>

Init == ConnInit /\ records = {0}

IsNextEnd(e) == e \in records /\ got < e /\ \A f \in records : f <= got \/ e <= f
InsideRecord == got \notin records

(* An append that takes the whole array, whatever was read into it. *)
MutAppendRead(s, chunk) ==
  s \o [i \in 1..BufSize |-> IF i <= Len(chunk) THEN chunk[i] ELSE "?"]

(* req.append(buf, numbytes) *)
AppendRead(s, chunk) == s \o chunk

(* SSL_read returns bytes: the rest of a record that was decrypted before  *)
(* the connection broke is still returned.                                 *)
RecvData ==
  /\ pc = "recv" /\ got < sent
  /\ peer # "rst" \/ InsideRecord
  /\ \E end \in records :
       /\ IsNextEnd(end)
       /\ LET n == ReadSize(end - got) IN
            /\ got' = got + n
            /\ records' = {e \in records : e >= got + n}
            /\ IF OverLimit(got + n)
                 THEN Answer(RequestBufferOverflow) /\ UNCHANGED req
                 ELSE /\ req' = AppendRead(req, SubSeq(msg, got + 1, got + n))
                      /\ pc' = IF IsLastRead(n) THEN "execution" ELSE "recv"
                      /\ UNCHANGED resp
  /\ UNCHANGED <<peerVars, total_send, called>>

(* A close_notify taken for "nothing yet". *)
MutRecvEnd ==
  /\ pc = "recv" /\ peer = "fin" /\ got = sent
  /\ UNCHANGED <<peerVars, pc, got, req, resp, total_send, called, records>>

(* SSL_ERROR_ZERO_RETURN: the peer sent close_notify. *)
RecvEnd ==
  /\ pc = "recv" /\ peer = "fin" /\ got = sent
  /\ pc' = "close"
  /\ UNCHANGED <<peerVars, got, req, resp, total_send, called, records>>

(* Any other error: the connection was reset, or ended without a          *)
(* close_notify.                                                           *)
RecvError ==
  /\ pc = "recv"
  /\ \/ peer = "rst" /\ ~InsideRecord
     \/ peer = "cut" /\ got = sent
  /\ Answer(InternalError)
  /\ UNCHANGED <<peerVars, got, req, total_send, called, records>>

(* ~HttpsConnection, then ~HttpConnection.  SSL_shutdown writes to the     *)
(* socket, and blocks while there is no room.                              *)
Close ==
  /\ pc = "close"
  /\ \/ peer # "rst" /\ Room /\ pc' = "closed"
     \/ peer = "rst" /\ pc' \in Ended
  /\ UNCHANGED <<peerVars, got, req, resp, total_send, called, records>>

(* OpenSSL refuses to write, in send or in the destructor, once it has     *)
(* noticed that the peer's stream ended without close_notify.              *)
CutNoticed ==
  /\ peer = "cut"
  /\ \/ pc = "send" /\ pc' = "close"
     \/ pc = "close" /\ pc' = "closed"
  /\ UNCHANGED <<peerVars, got, req, resp, total_send, called, records>>

Transfer ==
  \/ RecvData \/ RecvEnd \/ RecvError
  \/ (SendSome \/ SendFails) /\ UNCHANGED records
  \/ Close

Server == Transfer \/ CutNoticed \/ (execution /\ UNCHANGED records)

Peer ==
  \/ \E n \in 1..Len(msg) :
       /\ Cardinality(records) <= MaxRecords
       /\ Write(n) /\ records' = records \cup {sent + n} /\ UNCHANGED connVars
  \/ ReadResponse /\ UNCHANGED <<connVars, records>>
  \/ \E how \in {"fin", "cut", "rst"} : HangUp(how) /\ UNCHANGED <<connVars, records>>

Next == Server \/ Peer

(* The process runs until it blocks, for want of a record or of room to    *)
(* write; nothing is assumed of the peer.                                  *)
Fairness == WF_vars(Transfer) /\ WF_pc(Executes)

Spec == Init /\ [][Next]_vars /\ Fairness

-----------------------------------------------------------------------------
(* The connection's fields have their types, and the records end where the *)
(* peer's writes did, the last one at the last byte sent.                  *)
TypeOK ==
  /\ ConnTypeOK
  /\ records \subseteq 0..sent
  /\ sent \in records

(* recv hands execution exactly the bytes the peer wrote, in order, none   *)
(* twice and none of anything else, however the records cut them up.       *)
RecvExact == pc \in {"recv", "execution"} => req = SubSeq(msg, 1, got)
=============================================================================
