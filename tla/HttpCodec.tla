----------------------------- MODULE HttpCodec ------------------------------
(***************************************************************************)
(* HttpCodec (http_codec.cc) as operators.  A request is a sequence of     *)
(* units: a word (a method, a path, a header name, a piece of a body) or   *)
(* one of the delimiters the code searches for.  Words have length one:    *)
(* lengths matter only as offsets, which the code adds and subtracts.      *)
(* Positions are 0-based as in the code; -1 is npos, and a negative count  *)
(* given to substr is a huge size_t, the rest of the string.               *)
(***************************************************************************)
EXTENDS Integers, Sequences, FiniteSetsExt

CONSTANTS Lower,        \* tolower on the words that have capitals
          MethodNames,  \* lower-case method word -> Method
          Json,         \* text nlohmann::json::parse accepts -> its value
          JsonHuge      \* text it refuses with json::out_of_range

CR == "CR"
LF == "LF"
SP == "SP"
COLON == ":"
CRLF == <<CR, LF>>
npos == -1
Unknown == "UNKNOWN"
NoBody == "null"

findFrom(s, pat, from) ==
  LET hits == {i \in from..(Len(s) - Len(pat)) : SubSeq(s, i+1, i + Len(pat)) = pat}
  IN  IF hits = {} THEN npos ELSE Min(hits)

substr(s, pos, n) ==
  SubSeq(s, pos + 1, IF n < 0 \/ pos + n > Len(s) THEN Len(s) ELSE pos + n)

tolower(w) == IF w \in DOMAIN Lower THEN Lower[w] ELSE w
tolowers(s) == [i \in DOMAIN s |-> tolower(s[i])]

to_method(s) ==
  IF Len(s) = 1 /\ tolower(s[1]) \in DOMAIN MethodNames
    THEN MethodNames[tolower(s[1])] ELSE Unknown

(* The target line: method, path and version around the first two spaces. *)
method(targets) == to_method(substr(targets, 0, findFrom(targets, <<SP>>, 0)))

path(targets) ==
  LET first  == findFrom(targets, <<SP>>, 0)
      second == findFrom(targets, <<SP>>, first + 1)
  IN  substr(targets, first + 1, second - first - 1)

version(targets) ==
  LET first  == findFrom(targets, <<SP>>, 0)
      second == findFrom(targets, <<SP>>, first + 1)
  IN  substr(targets, second + 1, npos)

(* A header text one line end short: its last line is never terminated. *)
MutHeaderText(raw, end_targets, end_headers) ==
  substr(raw, end_targets + 2, end_headers - end_targets - 2)

(* The text scanned for header lines.  The second argument of substr is a  *)
(* count, and it is given a position.                                      *)
HeaderText(raw, end_targets, end_headers) ==
  substr(raw, end_targets + 2, end_headers)

(* The while loop visits the lines of the text that a CRLF ends. *)
Lines(h) ==
  LET ends == {i \in 0..(Len(h) - 2) : SubSeq(h, i+1, i+2) = CRLF}
  IN  {l \in [beg : {0} \cup {e + 2 : e \in ends}, end : ends] :
         l.beg <= l.end /\ \A e \in ends : e < l.beg \/ l.end <= e}

Colon(h, l) == findFrom(h, <<COLON>>, l.beg)
HeaderLines(h) == {l \in Lines(h) : Colon(h, l) # npos /\ Colon(h, l) < l.end}

(* Leading blanks are dropped, unless there is nothing else. *)
Trim(v) ==
  LET ink == {i \in DOMAIN v : v[i] # SP}
  IN  IF ink = {} THEN v ELSE SubSeq(v, Min(ink), Len(v))

HeaderKey(h, l) == tolowers(substr(h, l.beg, Colon(h, l) - l.beg))
HeaderValue(h, l) == Trim(substr(h, Colon(h, l) + 1, l.end - Colon(h, l) - 1))

(* Where the last line of a header name begins. *)
LastOf(h, k) == Max({l.beg : l \in {x \in HeaderLines(h) : HeaderKey(h, x) = k}})

(* req.headers: names compare without case, a later line overwrites. *)
Headers(h) ==
  [k \in {HeaderKey(h, l) : l \in HeaderLines(h)} |->
     HeaderValue(h, CHOOSE l \in HeaderLines(h) : l.beg = LastOf(h, k))]

Nullopt == [kind |-> "nullopt"]
Throws == [kind |-> "throws"]

(* A parse without exceptions: text that is not JSON is a value as well. *)
Mutjson_parse(text) ==
  IF text \in DOMAIN Json THEN [kind |-> "value", value |-> Json[text]]
  ELSE [kind |-> "value", value |-> "discarded"]

(* nlohmann::json::parse; only its parse_error is caught. *)
json_parse(text) ==
  IF text \in DOMAIN Json THEN [kind |-> "value", value |-> Json[text]]
  ELSE IF text \in JsonHuge THEN Throws ELSE Nullopt

ParseBody(raw, end_headers) ==
  IF end_headers = npos \/ end_headers + 4 = Len(raw)
    THEN [kind |-> "value", value |-> NoBody]
    ELSE json_parse(substr(raw, end_headers + 4, npos))

(* The positions given to substr are never past the end of the text: a     *)
(* CRLF was found at end_targets, a CRLF CRLF at end_headers.              *)
parse(raw) ==
  LET end_targets == findFrom(raw, CRLF, 0)
      end_headers == findFrom(raw, CRLF \o CRLF, 0)
      targets     == substr(raw, 0, end_targets)
      headers     == HeaderText(raw, end_targets, end_headers)
      hmap        == Headers(headers)
      body        == ParseBody(raw, end_headers)
  IN  IF \/ end_targets = npos
         \/ method(targets) = Unknown
         \/ findFrom(headers, CRLF, 0) = npos
         \/ tolowers(<<"Host">>) \notin DOMAIN hmap
      THEN Nullopt
      ELSE IF body.kind # "value" THEN body
      ELSE [kind |-> "request", method |-> method(targets),
            path |-> path(targets), version |-> version(targets),
            headers |-> hmap, body |-> body.value]
=============================================================================
