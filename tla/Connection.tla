----------------------------- MODULE Connection -----------------------------
(***************************************************************************)
(* What HttpConnection and HttpsConnection share: the peer at the other    *)
(* end of the socket, the execution of a received request, and the steps   *)
(* of process() = recv, execution, send, followed by the destructor.       *)
(* Each of the two modules that extend this one adds its own recv, send    *)
(* and destructor.                                                         *)
(***************************************************************************)
EXTENDS HttpCodec, Status

CONSTANTS Messages,     \* the requests a peer may set out to send
          BufSize,      \* bufsize_, the size of the array recv fills
          Limit,        \* kReceptionBufLimit
          RespLen,      \* length of a serialized response
          SndBuf,       \* what the socket takes of it before the peer reads
          RouterUp,     \* the answers to "has RouterManager a router?"
          Handled       \* the <<method, path>> that resolve to a handler

ASSUME ConnectionAssumption ==
  /\ Messages \subseteq Seq(STRING)
  /\ BufSize \in Nat \ {0}
  /\ Limit \in Nat \ {0}
  /\ RespLen \in Nat \ {0}
  /\ SndBuf \in Nat \ {0}
  /\ RouterUp \subseteq BOOLEAN /\ RouterUp # {}

VARIABLES msg,          \* the request the peer sets out to send
          sent,         \* how much of it the peer has written
          taken,        \* how much of the response it has read
          peer,         \* "open", "fin", "cut" (end without close_notify), "rst"
          pc,           \* where the serving process is
          got,          \* resbytes
          req,          \* recv's req, moved to req_ when recv succeeds
          resp,         \* status of the response being sent
          total_send,
          called        \* history: the Request the handler was called with

peerVars == <<msg, sent, taken, peer>>
connVars == <<pc, got, req, resp, total_send, called>>

Ended == {"closed", "killed"}
NoResp == -1
NotCalled == [kind |-> "none"]

ConnInit ==
  /\ msg \in Messages
  /\ sent = 0 /\ taken = 0 /\ peer = "open"
  /\ pc = "recv" /\ got = 0 /\ req = <<>>
  /\ resp = NoResp /\ total_send = 0 /\ called = NotCalled

-----------------------------------------------------------------------------
(* The peer. *)

Write(n) ==
  /\ peer = "open" /\ pc \notin Ended
  /\ n \in 1..(Len(msg) - sent)
  /\ sent' = sent + n
  /\ UNCHANGED <<msg, taken, peer>>

(* The peer reads from the response; nothing makes it do so. *)
ReadResponse ==
  /\ peer # "rst" /\ pc \notin Ended
  /\ taken' \in (taken + 1)..total_send
  /\ UNCHANGED <<msg, sent, peer>>

(* The peer ends its stream, orderly or not, having sent all or a part. *)
HangUp(how) ==
  /\ peer = "open" \/ (how = "rst" /\ peer # "rst")
  /\ pc \notin Ended
  /\ peer' = how
  /\ UNCHANGED <<msg, sent, taken>>

-----------------------------------------------------------------------------
(* The serving process. *)

(* The read fills the buffer or takes what is there. *)
ReadSize(there) == IF there < BufSize THEN there ELSE BufSize

(* An end test that is off by one: a buffer filled but for one byte is     *)
(* taken for a full one.                                                   *)
MutIsLastRead(n) == n < BufSize - 1

(* A loop that reads on until the peer ends its stream. *)
NeverLastRead(n) == FALSE

(* numbytes < bufsize_ *)
IsLastRead(n) == n < BufSize

(* A limit test on the bytes of the last read, not on the sum. *)
MutOverLimit(n) == n - got >= Limit

(* resbytes >= kReceptionBufLimit *)
OverLimit(n) == n >= Limit

(* makeResp(code) is handed to send; what follows it is the destructor. *)
Answer(code) == resp' = to_http_status(code) /\ pc' = "send"

(* HttpCodec::process(req_) and, through RouterManager::Route, the handler *)
execution ==
  /\ pc = "execution"
  /\ LET r       == parse(req)
         routed  == r.kind = "request" /\ <<r.method, r.path>> \in Handled
     IN
       \/ /\ r.kind = "nullopt"
          /\ Answer(InvalidJsonOrParams) /\ UNCHANGED called
       \/ /\ r.kind = "throws"             \* leaves a noexcept function
          /\ pc' = "killed" /\ UNCHANGED <<resp, called>>
       \/ /\ r.kind = "request" /\ FALSE \in RouterUp
          /\ Answer(InternalError) /\ UNCHANGED called
       \/ /\ r.kind = "request" /\ TRUE \in RouterUp /\ ~routed
          /\ Answer(NotFound) /\ UNCHANGED called
       \/ /\ routed /\ TRUE \in RouterUp
          /\ called' = r
          /\ \/ Answer(Success)
             \/ pc' = "killed" /\ UNCHANGED resp   \* the handler throws
  /\ UNCHANGED <<peerVars, got, req, total_send>>

(* Every execution step is of this form, so fairness of one is fairness of *)
(* the other.                                                              *)
Executes == pc = "execution" /\ pc' \in {"send", "killed"}

(* A write goes on while the socket has room for more; a socket whose peer *)
(* does not read fills up, and there is no timeout.                        *)
Room == total_send - taken < SndBuf

(* A send that takes the first write for the whole of the response. *)
MutSendSome ==
  /\ pc = "send" /\ peer # "rst" /\ Room
  /\ \E n \in 1..(RespLen - total_send) : total_send' = total_send + n
  /\ pc' = "close"
  /\ UNCHANGED <<peerVars, got, req, resp, called>>

(* The loop of send, as the socket takes the bytes: ::send and SSL_write   *)
(* block while there is no room.  A write that is interrupted or told to   *)
(* retry changes nothing.                                                  *)
SendSome ==
  /\ pc = "send" /\ peer # "rst"
  /\ \E n \in 1..(RespLen - total_send) :
       /\ total_send - taken + n <= SndBuf
       /\ total_send' = total_send + n
       /\ pc' = IF total_send + n < RespLen THEN "send" ELSE "close"
  /\ UNCHANGED <<peerVars, got, req, resp, called>>

(* The peer is gone: an error return, or SIGPIPE, which nobody handles. *)
SendFails ==
  /\ pc = "send" /\ peer = "rst"
  /\ pc' \in {"close", "killed"}
  /\ UNCHANGED <<peerVars, got, req, resp, total_send, called>>

-----------------------------------------------------------------------------
(* The variables both kinds of connection have; no more is read than was   *)
(* sent.                                                                   *)
ConnTypeOK ==
  /\ msg \in Messages
  /\ sent \in 0..Len(msg)
  /\ taken \in 0..total_send
  /\ peer \in {"open", "fin", "cut", "rst"}
  /\ pc \in {"recv", "execution", "send", "close"} \cup Ended
  /\ got \in 0..sent
  /\ resp \in {NoResp, 200, 400, 404, 413, 500}
  /\ total_send \in 0..RespLen

(* recv only waits for more after a run of completely filled buffers, so   *)
(* the bytes counted then are a multiple of the buffer size; the first     *)
(* read that fills less ends the request.                                  *)
WaitsOnlyAtFullBuffer ==
  pc = "recv" => \E k \in 0..got : got = k * BufSize

(* The limit on what recv accumulates over its reads: a request that is    *)
(* longer is neither read further nor executed, and 413 is not given to a  *)
(* shorter one.  What becomes of a request of exactly Limit bytes is       *)
(* RefusedOnlyAboveLimit's question.                                       *)
LimitRespected ==
  /\ pc \in {"recv", "execution"} \/ called # NotCalled => got <= Limit
  /\ resp = 413 => got >= Limit

(* server_config.yml: kReceptionBufLimit is "the maximal size of an        *)
(* accumulated request"; so a request of that size is not yet too long.    *)
RefusedOnlyAboveLimit == resp = 413 => got > Limit

(* The handler may find the body missing, when the request was cut before  *)
(* it, but a body it does find is the one that was sent, unless the body   *)
(* begins with another JSON text (11 begins with 1).                       *)
BodyStart(m) == findFrom(m, CRLF \o CRLF, 0) + 4
PrefixIsJson(m) ==
  \E i \in (BodyStart(m) + 1)..(Len(m) - 1) : SubSeq(m, BodyStart(m) + 1, i) \in DOMAIN Json
BodyAsSent ==
  called # NotCalled /\ parse(msg).kind = "request" /\ ~PrefixIsJson(msg) =>
    called.body \in {NoBody, parse(msg).body}

(* README, "Routing": in a handler "req.body is already parsed".  Read so, *)
(* the handler of a request that is sent completely sees its body.         *)
HandlerSeesWholeRequest ==
  called # NotCalled /\ sent = Len(msg) /\ parse(msg).kind = "request" =>
    called.body = parse(msg).body

(* Whatever the reads, the writes and the peer's end of the connection     *)
(* are, the process does what Exchange promises: one handler call and one  *)
(* answer at most, sent whole unless the peer went away.                   *)
X == INSTANCE Exchange WITH
       peer    <- (IF peer \in {"cut", "rst"} THEN "gone" ELSE peer),
       handled <- called # NotCalled,
       answer  <- resp,
       out     <- total_send,
       over    <- (IF pc \in Ended THEN pc ELSE "no")
ImplementsExchange == X!Spec

(* The process is in a write (over TLS also in SSL_shutdown's) that the    *)
(* socket has no room for: it waits for the peer to read or to reset.      *)
Blocked == pc \in {"send", "close"} /\ peer # "rst" /\ ~Room

(* However far the request has come, once the peer hangs up the process    *)
(* does not stay behind: it answers or gives up, and closes the socket.    *)
(* The one exception is a peer that stops reading the response for good    *)
(* without a reset: no write has a timeout.                                *)
HangUpEnds == []<>~Blocked => (peer # "open" ~> pc \in Ended)

(* A request that is sent completely and does not fill its last buffer is  *)
(* answered, and its connection closed, though the peer keeps it open,     *)
(* provided that the peer does not leave the process Blocked for good.     *)
ShortLastReadEnds ==
  []<>~Blocked => (sent = Len(msg) /\ Len(msg) % BufSize # 0 ~> pc \in Ended)
=============================================================================
