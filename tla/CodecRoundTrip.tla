--------------------------- MODULE CodecRoundTrip ---------------------------
(***************************************************************************)
(* A reference for HttpCodec::parse.  A client writes a request piece by   *)
(* piece: a target line of three parts, header lines, a blank line and a   *)
(* body.  What it means by each piece is known, so what parse makes of the *)
(* bytes can be compared with it after every piece.  No part of the target *)
(* line and no header line holds a line end; all else is allowed in them.  *)
(***************************************************************************)
EXTENDS HttpCodec

CONSTANTS Targets,      \* [word, method, path, version]
          Fields,       \* header lines, as [line, colon]: colon is the
                        \* place of the first colon, 0 when there is none
          BodyUnits,    \* what a body is made of
          MaxFields, MaxBody

LineEnd(s, i) == s[i] = CR /\ s[i + 1] = LF
NoLineEnd(s) == \A i \in 1..(Len(s) - 1) : ~LineEnd(s, i)
TargetLine(t) == t.word \o <<SP>> \o t.path \o <<SP>> \o t.version

(* The words of a target line are separated by the first two spaces. *)
IsTarget(t) ==
  /\ t.word \in Seq(STRING) /\ t.path \in Seq(STRING) /\ t.version \in Seq(STRING)
  /\ \A i \in DOMAIN t.word : t.word[i] # SP
  /\ \A i \in DOMAIN t.path : t.path[i] # SP
  /\ NoLineEnd(TargetLine(t))
  /\ t.method = to_method(t.word)

(* An empty line would be the blank one. *)
IsField(f) ==
  /\ f.line \in Seq(STRING) /\ f.line # <<>> /\ NoLineEnd(f.line)
  /\ f.colon \in 0..Len(f.line)
  /\ f.colon > 0 => f.line[f.colon] = COLON
  /\ \A i \in DOMAIN f.line : f.line[i] = COLON => f.colon \in 1..i

ASSUME CodecRoundTripAssumption ==
  /\ MaxFields \in Nat /\ MaxBody \in Nat
  /\ tolower("Host") = "host"
  /\ BodyUnits \subseteq STRING
  /\ \A t \in Targets : IsTarget(t)
  /\ \A f \in Fields : IsField(f)

VARIABLES target, fields, body, blank,   \* what the client has written ...
          raw                            \* ... and as which units

vars == <<target, fields, body, blank, raw>>

Init ==
  /\ target \in Targets /\ fields = <<>> /\ body = <<>> /\ blank = FALSE
  /\ raw = TargetLine(target) \o CRLF

WriteField(f) ==
  /\ ~blank /\ Len(fields) < MaxFields
  /\ fields' = Append(fields, f) /\ raw' = raw \o f.line \o CRLF
  /\ UNCHANGED <<target, body, blank>>

WriteBlank ==
  /\ ~blank /\ blank' = TRUE /\ raw' = raw \o CRLF
  /\ UNCHANGED <<target, fields, body>>

WriteBody(u) ==
  /\ blank /\ Len(body) < MaxBody
  /\ body' = Append(body, u) /\ raw' = Append(raw, u)
  /\ UNCHANGED <<target, fields, blank>>

Next ==
  \/ \E f \in Fields : WriteField(f)
  \/ WriteBlank
  \/ \E u \in BodyUnits : WriteBody(u)

Spec == Init /\ [][Next]_vars

-----------------------------------------------------------------------------
(* The header fields the client means: of two with one name the later. *)
Named == {i \in DOMAIN fields : fields[i].colon > 0}
Name(i) == tolowers(SubSeq(fields[i].line, 1, fields[i].colon - 1))
Value(i) == Trim(SubSeq(fields[i].line, fields[i].colon + 1, Len(fields[i].line)))
Meant ==
  [k \in {Name(i) : i \in Named} |-> Value(Max({i \in Named : Name(i) = k}))]

HasHost == <<"host">> \in DOMAIN Meant
GoodBody == ~blank \/ body = <<>> \/ body \in DOMAIN Json
BodyLines == ~NoLineEnd(body)

(* HttpCodec::parse reads back the method, path, version and JSON value    *)
(* the client wrote, whatever its body holds, and unless the body holds a  *)
(* line end also exactly its header fields; it then accepts a request if   *)
(* and only if it names a method and a Host and its body is JSON.  The     *)
(* offsets of its four searches fit together for every number and shape of *)
(* the header lines.                                                       *)
RoundTrip ==
  LET r == parse(raw) IN
    /\ r.kind = "request" =>
         /\ r.method = target.method
         /\ r.path = target.path
         /\ r.version = target.version
         /\ r.body = IF body = <<>> THEN NoBody ELSE Json[body]
    /\ ~BodyLines =>
         /\ r.kind = "request" <=> target.method # Unknown /\ HasHost /\ GoodBody
         /\ r.kind = "request" => r.headers = Meant
=============================================================================
