---------------------------- MODULE CodecProofs -----------------------------
(***************************************************************************)
(* HttpCodec::parse reads back what a client wrote (CodecRoundTrip), for   *)
(* every set of target lines, header lines and body units, any number of   *)
(* header lines and any length of the body.                                *)
(*                                                                         *)
(* The induction is over the client's steps, not over the text: Layout     *)
(* says where each line is in what was written, and every write keeps it.  *)
(* In a text laid out like that each of the parser's searches finds what   *)
(* the client put there: the first line end closes the target line, the    *)
(* first blank line is the client's, and the lines the header loop visits  *)
(* are the header lines.                                                   *)
(***************************************************************************)
EXTENDS CodecRoundTrip, SequenceTheorems, WellFoundedInduction, TLAPS

(* What requests are made of. *)
Unit == STRING \cup {CR, LF, SP}

(* The delimiters are four units. *)
LEMMA Distinct == CR # LF /\ CR # SP /\ CR # COLON /\ LF # SP /\ LF # COLON /\ SP # COLON
  BY DEF CR, LF, SP, COLON

-----------------------------------------------------------------------------
(* First and last positions *)

(* Every nonempty set of positions has a first one, which Min returns. *)
LEMMA MinIsFirst ==
  ASSUME NEW S, S \subseteq Nat, S # {}
  PROVE  Min(S) \in S /\ \A y \in S : Min(S) <= y
  <1>1. PICK x \in S : \A y \in S : <<y, x>> \notin OpToRel(<, Nat)
    BY NatLessThanWellFounded, WFMin
  <1>2. ASSUME NEW y \in S PROVE x <= y
    <2>1. x \in Nat /\ y \in Nat
      OBVIOUS
    <2>2. <<y, x>> \notin {q \in Nat \X Nat : q[1] < q[2]}
      BY <1>1 DEF OpToRel
    <2>3. <<y, x>> \in Nat \X Nat
      BY <2>1
    <2>4. ~(y < x)
      BY <2>2, <2>3
    <2>. QED BY <2>1, <2>4
  <1>. QED BY <1>2 DEF Min

(* An element no other is below is the minimum. *)
LEMMA MinIs ==
  ASSUME NEW S, S \subseteq Int, NEW x \in S, \A y \in S : x <= y
  PROVE  Min(S) = x
  <1>1. Min(S) \in S /\ \A y \in S : Min(S) <= y
    BY DEF Min
  <1>2. Min(S) \in Int /\ x \in Int /\ Min(S) <= x /\ x <= Min(S)
    BY <1>1
  <1>. QED BY <1>2

(* An element no other is above is the maximum. *)
LEMMA MaxIs ==
  ASSUME NEW S, S \subseteq Int, NEW x \in S, \A y \in S : y <= x
  PROVE  Max(S) = x
  <1>1. Max(S) \in S /\ \A y \in S : y <= Max(S)
    BY DEF Max
  <1>2. Max(S) \in Int /\ x \in Int /\ Max(S) <= x /\ x <= Max(S)
    BY <1>1
  <1>. QED BY <1>2

(* Every nonempty bounded set of positions has a last one. *)
LEMMA LastExists ==
  ASSUME NEW n \in Nat, NEW S, S \subseteq 1..n, S # {}
  PROVE  \E x \in S : \A y \in S : y <= x
  <1>. DEFINE D == {n - x : x \in S}
  <1>1. D \subseteq Nat /\ D # {}
    <2>1. ASSUME NEW x \in S PROVE n - x \in Nat
      <3>1. x \in 1..n
        OBVIOUS
      <3>. QED BY <3>1
    <2>. QED BY <2>1
  <1>. HIDE DEF D
  <1>2. Min(D) \in D /\ \A d \in D : Min(D) <= d
    BY <1>1, MinIsFirst
  <1>3. PICK x \in S : Min(D) = n - x
    BY <1>2 DEF D
  <1>4. ASSUME NEW y \in S PROVE y <= x
    <2>1. n - y \in D
      BY DEF D
    <2>2. n - x <= n - y
      BY <1>2, <1>3, <2>1
    <2>3. x \in Int /\ y \in Int
      OBVIOUS
    <2>. QED BY <2>2, <2>3
  <1>. QED BY <1>4

-----------------------------------------------------------------------------
(* What the searches of the parser find *)

LEMMA CrLf == CRLF \in Seq(Unit) /\ Len(CRLF) = 2 /\ CRLF[1] = CR /\ CRLF[2] = LF
  <1>1. CR \in Unit /\ LF \in Unit
    BY DEF Unit
  <1>2. ASSUME NEW a \in Unit, NEW b \in Unit
        PROVE  <<a, b>> \in Seq(Unit) /\ Len(<<a, b>>) = 2 /\ <<a, b>>[1] = a /\ <<a, b>>[2] = b
    OBVIOUS
  <1>. QED BY <1>1, <1>2, Zenon DEF CRLF

(* The separator of head and body, unit by unit. *)
LEMMA TwiceCrLf ==
  LET v == CRLF \o CRLF IN
    v \in Seq(Unit) /\ Len(v) = 4 /\ v[1] = CR /\ v[2] = LF /\ v[3] = CR /\ v[4] = LF
  <1>. DEFINE v == CRLF \o CRLF
  <1>1. /\ v \in Seq(Unit) /\ Len(v) = Len(CRLF) + Len(CRLF)
        /\ \A i \in 1..(Len(CRLF) + Len(CRLF)) :
             v[i] = IF i <= Len(CRLF) THEN CRLF[i] ELSE CRLF[i - Len(CRLF)]
    BY CrLf, ConcatProperties
  <1>. HIDE DEF v
  <1>2. Len(v) = 4 /\ v[1] = CRLF[1] /\ v[2] = CRLF[2] /\ v[3] = CRLF[1] /\ v[4] = CRLF[2]
    BY <1>1, CrLf
  <1>. QED BY <1>1, <1>2, CrLf DEF v

(* Where the line ends of a text are, as offsets. *)
Ends(s) == {i \in 0..(Len(s) - 2) : s[i + 1] = CR /\ s[i + 2] = LF}
Blanks(s) == {i \in Ends(s) : i + 2 \in Ends(s)}

(* The units of s after the first a, up to the b-th. *)
LEMMA Slice ==
  ASSUME NEW S, NEW s \in Seq(S), NEW a \in Nat, NEW b \in Nat, a <= b, b <= Len(s)
  PROVE  /\ SubSeq(s, a + 1, b) \in Seq(S)
         /\ Len(SubSeq(s, a + 1, b)) = b - a
         /\ \A i \in 1..(b - a) : SubSeq(s, a + 1, b)[i] = s[a + i]
  <1>1. SubSeq(s, a + 1, b) \in Seq(S)
    OBVIOUS
  <1>2. Len(SubSeq(s, a + 1, b)) = b - a
    OBVIOUS
  <1>3. \A i \in 1..(b - a) : SubSeq(s, a + 1, b)[i] = s[a + i]
    OBVIOUS
  <1>. QED BY <1>1, <1>2, <1>3

(* A text that is the units of s from the a-th on. *)
LEMMA SliceIs ==
  ASSUME NEW S, NEW s \in Seq(S), NEW a \in Nat, NEW t \in Seq(S), a + Len(t) <= Len(s),
         \A i \in 1..Len(t) : s[a + i] = t[i]
  PROVE  SubSeq(s, a + 1, a + Len(t)) = t
  <1>. DEFINE b == a + Len(t)
              u == SubSeq(s, a + 1, b)
  <1>0. Len(t) \in Nat /\ b \in Nat /\ a <= b /\ b - a = Len(t) /\ b <= Len(s)
    OBVIOUS
  <1>. HIDE DEF b
  <1>1. u \in Seq(S) /\ Len(u) = b - a /\ \A i \in 1..(b - a) : u[i] = s[a + i]
    BY <1>0, Slice
  <1>. HIDE DEF u
  <1>2. Len(u) = Len(t) /\ \A i \in 1..Len(u) : u[i] = t[i]
    BY <1>0, <1>1
  <1>3. u = t
    BY <1>1, <1>2, SeqEqual
  <1>. QED BY <1>3 DEF u, b

(* A match of the line end, unit by unit. *)
LEMMA PairAt ==
  ASSUME NEW s \in Seq(Unit), NEW i \in 0..(Len(s) - 2)
  PROVE  SubSeq(s, i + 1, i + 2) = CRLF <=> s[i + 1] = CR /\ s[i + 2] = LF
  <1>. DEFINE u == SubSeq(s, i + 1, i + 2)
  <1>1. i \in Nat /\ Len(s) \in Nat /\ i + 2 \in Nat /\ i + 2 <= Len(s) /\ i + 2 - i = 2
    OBVIOUS
  <1>2. u \in Seq(Unit) /\ Len(u) = 2 /\ \A j \in 1..2 : u[j] = s[i + j]
    BY <1>1, Slice
  <1>. HIDE DEF u
  <1>3. u[1] = s[i + 1] /\ u[2] = s[i + 2]
    BY <1>2
  <1>4. CRLF \in Seq(Unit) /\ Len(CRLF) = 2 /\ CRLF[1] = CR /\ CRLF[2] = LF
    BY CrLf
  <1>5. u = CRLF <=> u[1] = CR /\ u[2] = LF
    BY <1>2, <1>4, SeqEqual
  <1>. QED BY <1>3, <1>5 DEF u

(* A match of the separator, unit by unit. *)
LEMMA FourAt ==
  ASSUME NEW s \in Seq(Unit), NEW i \in 0..(Len(s) - 4)
  PROVE  SubSeq(s, i + 1, i + 4) = CRLF \o CRLF <=>
           s[i + 1] = CR /\ s[i + 2] = LF /\ s[i + 3] = CR /\ s[i + 4] = LF
  <1>. DEFINE u == SubSeq(s, i + 1, i + 4)
              v == CRLF \o CRLF
  <1>1. i \in Nat /\ Len(s) \in Nat /\ i + 4 \in Nat /\ i + 4 <= Len(s) /\ i + 4 - i = 4
    OBVIOUS
  <1>2. u \in Seq(Unit) /\ Len(u) = 4 /\ \A j \in 1..4 : u[j] = s[i + j]
    BY <1>1, Slice
  <1>. HIDE DEF u
  <1>3. u[1] = s[i + 1] /\ u[2] = s[i + 2] /\ u[3] = s[i + 3] /\ u[4] = s[i + 4]
    BY <1>2
  <1>4. v \in Seq(Unit) /\ Len(v) = 4 /\ v[1] = CR /\ v[2] = LF /\ v[3] = CR /\ v[4] = LF
    BY TwiceCrLf
  <1>. HIDE DEF v
  <1>5. u = v <=> u[1] = CR /\ u[2] = LF /\ u[3] = CR /\ u[4] = LF
    <2>1. ASSUME u[1] = CR, u[2] = LF, u[3] = CR, u[4] = LF PROVE \A j \in 1..4 : u[j] = v[j]
      BY <1>4, <2>1
    <2>. QED BY <1>2, <1>4, <2>1, SeqEqual
  <1>. QED BY <1>3, <1>5 DEF u, v

(* A match of a single unit. *)
LEMMA OneAt ==
  ASSUME NEW s \in Seq(Unit), NEW i \in 0..(Len(s) - 1), NEW c
  PROVE  SubSeq(s, i + 1, i + 1) = <<c>> <=> s[i + 1] = c
  <1>. DEFINE u == SubSeq(s, i + 1, i + 1)
  <1>1. i \in Nat /\ Len(s) \in Nat /\ i + 1 \in Nat /\ i + 1 <= Len(s) /\ i + 1 - i = 1
    OBVIOUS
  <1>2. u \in Seq(Unit) /\ Len(u) = 1 /\ u[1] = s[i + 1]
    <2>1. u \in Seq(Unit)
      BY <1>1
    <2>2. Len(u) = 1
      BY <1>1
    <2>3. u[1] = s[i + 1]
      BY <1>1
    <2>. QED BY <2>1, <2>2, <2>3
  <1>. HIDE DEF u
  <1>3. u[1] = s[i + 1]
    BY <1>2
  <1>4. u = <<u[1]>>
    <2>1. u[1] \in Unit
      BY <1>2
    <2>2. <<u[1]>> \in Seq(Unit) /\ Len(<<u[1]>>) = 1 /\ <<u[1]>>[1] = u[1]
      BY <2>1
    <2>. QED BY <1>2, <2>2, SeqEqual
  <1>5. u = <<c>> <=> u[1] = c
    BY <1>4
  <1>. QED BY <1>3, <1>5 DEF u

(* raw.find("\r\n") finds the first line end. *)
LEMMA FindEnd ==
  ASSUME NEW s \in Seq(Unit)
  PROVE  findFrom(s, CRLF, 0) = IF Ends(s) = {} THEN npos ELSE Min(Ends(s))
  <1>1. Len(CRLF) = 2
    BY DEF CRLF
  <1>2. {i \in 0..(Len(s) - Len(CRLF)) : SubSeq(s, i + 1, i + Len(CRLF)) = CRLF} = Ends(s)
    BY <1>1, PairAt DEF Ends
  <1>. QED BY <1>2 DEF findFrom

(* raw.find("\r\n\r\n") finds the first blank line. *)
LEMMA FindBlank ==
  ASSUME NEW s \in Seq(Unit)
  PROVE  findFrom(s, CRLF \o CRLF, 0) = IF Blanks(s) = {} THEN npos ELSE Min(Blanks(s))
  <1>. DEFINE pat == CRLF \o CRLF
  <1>1. Len(pat) = 4
    <2>1. ASSUME NEW a, NEW b PROVE Len(<<a, b>> \o <<a, b>>) = 4
      OBVIOUS
    <2>. QED BY <2>1, Zenon DEF CRLF
  <1>2. ASSUME NEW i \in 0..(Len(s) - 4) PROVE SubSeq(s, i + 1, i + 4) = pat <=> i \in Blanks(s)
    <2>1. /\ i \in 0..(Len(s) - 2) /\ i + 2 \in 0..(Len(s) - 2)
          /\ i + 2 + 1 = i + 3 /\ i + 2 + 2 = i + 4
      OBVIOUS
    <2>2. i \in Blanks(s) <=> s[i + 1] = CR /\ s[i + 2] = LF /\ s[i + 3] = CR /\ s[i + 4] = LF
      BY <2>1 DEF Ends, Blanks
    <2>. QED BY <2>2, FourAt
  <1>3. ASSUME NEW i \in Blanks(s) PROVE i \in 0..(Len(s) - 4)
    BY DEF Blanks, Ends
  <1>. HIDE DEF pat
  <1>4. {i \in 0..(Len(s) - Len(pat)) : SubSeq(s, i + 1, i + Len(pat)) = pat} = Blanks(s)
    BY <1>1, <1>2, <1>3
  <1>5. findFrom(s, pat, 0) = IF Blanks(s) = {} THEN npos ELSE Min(Blanks(s))
    BY <1>4 DEF findFrom
  <1>. QED BY <1>5 DEF pat

(* Where a unit occurs, from a place on. *)
Hits(s, c, from) == {i \in from..(Len(s) - 1) : s[i + 1] = c}

(* A search for a single unit finds the first one from a position on. *)
LEMMA FindOne ==
  ASSUME NEW s \in Seq(Unit), NEW c, NEW from \in Nat
  PROVE  findFrom(s, <<c>>, from) = IF Hits(s, c, from) = {} THEN npos ELSE Min(Hits(s, c, from))
  <1>1. Len(<<c>>) = 1
    OBVIOUS
  <1>2. ASSUME NEW i \in from..(Len(s) - 1)
        PROVE  SubSeq(s, i + 1, i + 1) = <<c>> <=> s[i + 1] = c
    BY OneAt
  <1>3. {i \in from..(Len(s) - Len(<<c>>)) : SubSeq(s, i + 1, i + Len(<<c>>)) = <<c>>} = Hits(s, c, from)
    BY <1>1, <1>2 DEF Hits
  <1>. QED BY <1>3 DEF findFrom

-----------------------------------------------------------------------------
(* Where things are in what was written *)

LineAt(s, a, t) ==
  /\ a + Len(t) + 2 <= Len(s)
  /\ \A i \in 1..Len(t) : s[a + i] = t[i]
  /\ s[a + Len(t) + 1] = CR /\ s[a + Len(t) + 2] = LF

Offset(t) == Len(TargetLine(t)) + 2         \* of the header lines

(* Header line i begins at[i] units after the target line, and the lines   *)
(* are next to each other.                                                 *)
Placed(s, t, fs, at) ==
  /\ s \in Seq(Unit) /\ t \in Targets /\ fs \in Seq(Fields)
  /\ at \in [1..(Len(fs) + 1) -> Nat]
  /\ LineAt(s, 0, TargetLine(t))
  /\ at[1] = 0
  /\ \A i \in 1..Len(fs) : /\ at[i + 1] = at[i] + Len(fs[i].line) + 2
                           /\ LineAt(s, Offset(t) + at[i], fs[i].line)
  /\ \A i, j \in 1..(Len(fs) + 1) : i < j => at[i] < at[j]
  /\ \A k \in 0..(at[Len(fs) + 1] - 1) :
       \E i \in 1..Len(fs) : at[i] <= k /\ k < at[i + 1]

(* Behind them, from z on, there are the blank line and the body, if any.  *)
Closed(s, z, bl, bd) ==
  /\ bl \in BOOLEAN /\ bd \in Seq(STRING) /\ (~bl => bd = <<>>)
  /\ Len(s) = z + (IF bl THEN 2 + Len(bd) ELSE 0)
  /\ bl => /\ s[z + 1] = CR /\ s[z + 2] = LF
           /\ \A j \in 1..Len(bd) : s[z + 2 + j] = bd[j]

Layout ==
  \E at \in [1..(Len(fields) + 1) -> Nat] :
    /\ Placed(raw, target, fields, at)
    /\ Closed(raw, Offset(target) + at[Len(fields) + 1], blank, body)

(* What the client writes is made of units. *)
LEMMA TextOfUnits == ASSUME NEW s \in Seq(STRING) PROVE s \in Seq(Unit)
  BY SeqMonotonic DEF Unit

(* The target line, part by part. *)
LEMMA TargetLineFacts ==
  ASSUME NEW t \in Targets
  PROVE  /\ TargetLine(t) \in Seq(Unit)
         /\ Len(TargetLine(t)) = Len(t.word) + 1 + Len(t.path) + 1 + Len(t.version)
         /\ \A i \in 1..Len(t.word) : TargetLine(t)[i] = t.word[i]
         /\ TargetLine(t)[Len(t.word) + 1] = SP
         /\ \A i \in 1..Len(t.path) : TargetLine(t)[Len(t.word) + 1 + i] = t.path[i]
         /\ TargetLine(t)[Len(t.word) + 1 + Len(t.path) + 1] = SP
         /\ \A i \in 1..Len(t.version) :
              TargetLine(t)[Len(t.word) + 1 + Len(t.path) + 1 + i] = t.version[i]
  <1>. DEFINE a == t.word
              b == t.path
              c == t.version
              s1 == a \o <<SP>>
              s2 == s1 \o b
              s3 == s2 \o <<SP>>
  <1>1. a \in Seq(Unit) /\ b \in Seq(Unit) /\ c \in Seq(Unit)
    <2>1. IsTarget(t)
      BY CodecRoundTripAssumption
    <2>2. t.word \in Seq(STRING) /\ t.path \in Seq(STRING) /\ t.version \in Seq(STRING)
      BY <2>1 DEF IsTarget
    <2>. QED BY <2>2, TextOfUnits
  <1>2. <<SP>> \in Seq(Unit) /\ Len(<<SP>>) = 1 /\ <<SP>>[1] = SP
    <2>1. SP \in Unit
      BY DEF Unit
    <2>. QED BY <2>1
  <1>. HIDE DEF a, b, c
  <1>3. Len(a) \in Nat /\ Len(b) \in Nat /\ Len(c) \in Nat
    BY <1>1
  <1>4. /\ s1 \in Seq(Unit) /\ Len(s1) = Len(a) + 1
        /\ (\A i \in 1..Len(a) : s1[i] = a[i]) /\ s1[Len(a) + 1] = SP
    <2>1. /\ s1 \in Seq(Unit) /\ Len(s1) = Len(a) + Len(<<SP>>)
          /\ \A i \in 1..(Len(a) + Len(<<SP>>)) : s1[i] = IF i <= Len(a) THEN a[i] ELSE <<SP>>[i - Len(a)]
      BY <1>1, <1>2, ConcatProperties
    <2>. HIDE DEF s1
    <2>2. \A i \in 1..(Len(a) + 1) : s1[i] = IF i <= Len(a) THEN a[i] ELSE <<SP>>[i - Len(a)]
      BY <1>2, <2>1
    <2>3. Len(a) + 1 \in 1..(Len(a) + 1) /\ ~(Len(a) + 1 <= Len(a)) /\ Len(a) + 1 - Len(a) = 1
      BY <1>3
    <2>4. s1[Len(a) + 1] = SP
      BY <1>2, <2>2, <2>3
    <2>. QED BY <1>2, <1>3, <2>1, <2>2, <2>4
  <1>. HIDE DEF s1
  <1>5. /\ s2 \in Seq(Unit) /\ Len(s2) = Len(a) + 1 + Len(b)
        /\ (\A i \in 1..(Len(a) + 1) : s2[i] = s1[i])
        /\ (\A i \in 1..Len(b) : s2[Len(a) + 1 + i] = b[i])
    <2>1. /\ s2 \in Seq(Unit) /\ Len(s2) = Len(s1) + Len(b)
          /\ \A i \in 1..(Len(s1) + Len(b)) : s2[i] = IF i <= Len(s1) THEN s1[i] ELSE b[i - Len(s1)]
      BY <1>1, <1>4, ConcatProperties
    <2>. HIDE DEF s2
    <2>2. ASSUME NEW i \in 1..Len(b) PROVE s2[Len(s1) + i] = b[i]
      <3>1. /\ Len(s1) + i \in 1..(Len(s1) + Len(b)) /\ ~(Len(s1) + i <= Len(s1))
            /\ Len(s1) + i - Len(s1) = i
        BY <1>3, <1>4
      <3>. QED BY <2>1, <3>1
    <2>. QED BY <1>3, <1>4, <2>1, <2>2
  <1>. HIDE DEF s2
  <1>6. /\ s3 \in Seq(Unit) /\ Len(s3) = Len(s2) + 1
        /\ (\A i \in 1..Len(s2) : s3[i] = s2[i]) /\ s3[Len(s2) + 1] = SP
    <2>1. /\ s3 \in Seq(Unit) /\ Len(s3) = Len(s2) + Len(<<SP>>)
          /\ \A i \in 1..(Len(s2) + Len(<<SP>>)) : s3[i] = IF i <= Len(s2) THEN s2[i] ELSE <<SP>>[i - Len(s2)]
      BY <1>2, <1>5, ConcatProperties
    <2>. HIDE DEF s3
    <2>2. \A i \in 1..(Len(s2) + 1) : s3[i] = IF i <= Len(s2) THEN s2[i] ELSE <<SP>>[i - Len(s2)]
      BY <1>2, <2>1
    <2>3. /\ Len(s2) \in Nat
          /\ Len(s2) + 1 \in 1..(Len(s2) + 1) /\ ~(Len(s2) + 1 <= Len(s2)) /\ Len(s2) + 1 - Len(s2) = 1
      BY <1>5
    <2>4. s3[Len(s2) + 1] = SP
      BY <1>2, <2>2, <2>3
    <2>. QED BY <1>2, <2>1, <2>2, <2>3, <2>4
  <1>. HIDE DEF s3
  <1>. DEFINE s4 == s3 \o c
  <1>7. /\ s4 \in Seq(Unit) /\ Len(s4) = Len(s3) + Len(c)
        /\ (\A i \in 1..Len(s3) : s4[i] = s3[i])
        /\ (\A i \in 1..Len(c) : s4[Len(s3) + i] = c[i])
    <2>1. /\ s4 \in Seq(Unit) /\ Len(s4) = Len(s3) + Len(c)
          /\ \A i \in 1..(Len(s3) + Len(c)) : s4[i] = IF i <= Len(s3) THEN s3[i] ELSE c[i - Len(s3)]
      BY <1>1, <1>6, ConcatProperties
    <2>. HIDE DEF s4
    <2>2. ASSUME NEW i \in 1..Len(c) PROVE s4[Len(s3) + i] = c[i]
      <3>1. /\ Len(s3) + i \in 1..(Len(s3) + Len(c)) /\ ~(Len(s3) + i <= Len(s3))
            /\ Len(s3) + i - Len(s3) = i /\ Len(s3) \in Nat
        BY <1>3, <1>6
      <3>. QED BY <2>1, <3>1
    <2>. QED BY <1>3, <1>6, <2>1, <2>2
  <1>8. TargetLine(t) = s4
    BY DEF TargetLine, s4, s3, s2, s1, a, b, c
  <1>. HIDE DEF s4
  <1>9. Len(s2) = Len(a) + 1 + Len(b) /\ Len(s3) = Len(a) + 1 + Len(b) + 1
    BY <1>3, <1>5, <1>6
  <1>10. /\ \A i \in 1..Len(a) : s4[i] = a[i]
         /\ s4[Len(a) + 1] = SP
         /\ \A i \in 1..Len(b) : s4[Len(a) + 1 + i] = b[i]
         /\ s4[Len(a) + 1 + Len(b) + 1] = SP
         /\ \A i \in 1..Len(c) : s4[Len(a) + 1 + Len(b) + 1 + i] = c[i]
         /\ Len(s4) = Len(a) + 1 + Len(b) + 1 + Len(c)
    <2>1. \A i \in 1..(Len(a) + 1) : s4[i] = s1[i]
      BY <1>3, <1>5, <1>6, <1>7, <1>9
    <2>2. ASSUME NEW i \in 1..Len(b) PROVE s4[Len(a) + 1 + i] = b[i]
      <3>1. Len(a) + 1 + i \in 1..Len(s2) /\ Len(a) + 1 + i \in 1..Len(s3)
        BY <1>3, <1>9
      <3>. QED BY <1>5, <1>6, <1>7, <3>1
    <2>3. s4[Len(a) + 1 + Len(b) + 1] = SP
      <3>1. Len(s3) \in 1..Len(s3)
        BY <1>3, <1>9
      <3>2. s4[Len(s3)] = s3[Len(s3)]
        BY <1>7, <3>1
      <3>3. s3[Len(s3)] = SP
        BY <1>6, <1>9
      <3>. QED BY <1>9, <3>2, <3>3
    <2>. QED BY <1>3, <1>4, <1>7, <1>9, <2>1, <2>2, <2>3
  <1>. QED BY <1>7, <1>8, <1>10 DEF a, b, c

(* A text and what is written behind it. *)
LEMMA Extended ==
  ASSUME NEW s \in Seq(Unit), NEW t \in Seq(Unit)
  PROVE  /\ s \o t \in Seq(Unit) /\ Len(s \o t) = Len(s) + Len(t)
         /\ Len(s) \in Nat /\ Len(t) \in Nat
         /\ \A i \in 1..Len(s) : (s \o t)[i] = s[i]
         /\ \A i \in 1..Len(t) : (s \o t)[Len(s) + i] = t[i]
  <1>. DEFINE u == s \o t
  <1>1. /\ u \in Seq(Unit) /\ Len(u) = Len(s) + Len(t)
        /\ \A i \in 1..(Len(s) + Len(t)) : u[i] = IF i <= Len(s) THEN s[i] ELSE t[i - Len(s)]
    BY ConcatProperties
  <1>2. Len(s) \in Nat /\ Len(t) \in Nat
    OBVIOUS
  <1>. HIDE DEF u
  <1>3. ASSUME NEW i \in 1..Len(t) PROVE u[Len(s) + i] = t[i]
    <2>1. /\ Len(s) + i \in 1..(Len(s) + Len(t)) /\ ~(Len(s) + i <= Len(s))
          /\ Len(s) + i - Len(s) = i
      BY <1>2
    <2>. QED BY <1>1, <2>1
  <1>4. \A i \in 1..Len(s) : u[i] = s[i]
    BY <1>1, <1>2
  <1>. QED BY <1>1, <1>2, <1>3, <1>4 DEF u

(* Append, element by element. *)
LEMMA Appended ==
  ASSUME NEW S, NEW s \in Seq(S), NEW u \in S
  PROVE  /\ Append(s, u) \in Seq(S) /\ Len(Append(s, u)) = Len(s) + 1
         /\ (\A i \in 1..Len(s) : Append(s, u)[i] = s[i])
         /\ Append(s, u)[Len(s) + 1] = u
  BY AppendProperties

(* A line, written behind a text, is there; lines in the text stay.        *)
LEMMA LineWritten ==
  ASSUME NEW s \in Seq(Unit), NEW t \in Seq(Unit)
  PROVE  /\ s \o t \o CRLF \in Seq(Unit) /\ Len(s \o t \o CRLF) = Len(s) + Len(t) + 2
         /\ \A i \in 1..Len(s) : (s \o t \o CRLF)[i] = s[i]
         /\ LineAt(s \o t \o CRLF, Len(s), t)
  <1>. DEFINE u == s \o t
              v == u \o CRLF
  <1>1. /\ u \in Seq(Unit) /\ Len(u) = Len(s) + Len(t) /\ Len(s) \in Nat /\ Len(t) \in Nat
        /\ \A i \in 1..Len(s) : u[i] = s[i]
        /\ \A i \in 1..Len(t) : u[Len(s) + i] = t[i]
    BY Extended
  <1>. HIDE DEF u
  <1>2. /\ v \in Seq(Unit) /\ Len(v) = Len(u) + Len(CRLF)
        /\ \A i \in 1..Len(u) : v[i] = u[i]
        /\ \A i \in 1..Len(CRLF) : v[Len(u) + i] = CRLF[i]
    BY <1>1, CrLf, Extended
  <1>. HIDE DEF v
  <1>3. v[Len(u) + 1] = CR /\ v[Len(u) + 2] = LF /\ Len(v) = Len(s) + Len(t) + 2
    BY <1>1, <1>2, CrLf
  <1>4. \A i \in 1..Len(s) : v[i] = s[i]
    BY <1>1, <1>2
  <1>5. ASSUME NEW i \in 1..Len(t) PROVE v[Len(s) + i] = t[i]
    <2>1. Len(s) + i \in 1..Len(u)
      BY <1>1
    <2>. QED BY <1>1, <1>2, <2>1
  <1>6. LineAt(v, Len(s), t)
    BY <1>1, <1>3, <1>5 DEF LineAt
  <1>. QED BY <1>2, <1>3, <1>4, <1>6 DEF u, v

(* A line stays in a text that is continued. *)
LEMMA LineStays ==
  ASSUME NEW s \in Seq(Unit), NEW v \in Seq(Unit), Len(s) <= Len(v),
         \A i \in 1..Len(s) : v[i] = s[i],
         NEW a \in Nat, NEW t \in Seq(Unit), LineAt(s, a, t)
  PROVE  LineAt(v, a, t)
  <1>1. Len(s) \in Nat /\ Len(v) \in Nat /\ Len(t) \in Nat /\ a + Len(t) + 2 <= Len(s)
    BY DEF LineAt
  <1>2. ASSUME NEW i \in 1..(Len(t) + 2) PROVE a + i \in 1..Len(s) /\ v[a + i] = s[a + i]
    <2>1. a + i \in 1..Len(s)
      BY <1>1
    <2>. QED BY <2>1
  <1>3. v[a + (Len(t) + 1)] = s[a + (Len(t) + 1)] /\ v[a + (Len(t) + 2)] = s[a + (Len(t) + 2)]
    <2>1. Len(t) + 1 \in 1..(Len(t) + 2) /\ Len(t) + 2 \in 1..(Len(t) + 2)
      BY <1>1
    <2>. QED BY <1>2, <2>1
  <1>4. a + (Len(t) + 1) = a + Len(t) + 1 /\ a + (Len(t) + 2) = a + Len(t) + 2
    BY <1>1
  <1>5. ASSUME NEW i \in 1..Len(t) PROVE v[a + i] = t[i]
    <2>1. i \in 1..(Len(t) + 2)
      BY <1>1
    <2>. QED BY <1>2, <2>1 DEF LineAt
  <1>. QED BY <1>1, <1>3, <1>4, <1>5 DEF LineAt

(* The lines of a request are texts, and no header line is empty. *)
LEMMA FieldFacts ==
  ASSUME NEW f \in Fields
  PROVE  /\ IsField(f) /\ f.line \in Seq(Unit) /\ Len(f.line) \in Nat /\ Len(f.line) >= 1
         /\ NoLineEnd(f.line) /\ f.colon \in 0..Len(f.line)
         /\ f.colon > 0 => f.line[f.colon] = COLON
         /\ \A i \in 1..Len(f.line) : f.line[i] = COLON => f.colon \in 1..i
  <1>1. IsField(f)
    BY CodecRoundTripAssumption
  <1>2. f.line \in Seq(STRING) /\ f.line # <<>> /\ NoLineEnd(f.line) /\ f.colon \in 0..Len(f.line)
    BY <1>1 DEF IsField
  <1>3. f.line \in Seq(Unit)
    BY <1>2, TextOfUnits
  <1>4. Len(f.line) \in Nat /\ Len(f.line) # 0 /\ DOMAIN f.line = 1..Len(f.line)
    BY <1>2, EmptySeq, LenProperties
  <1>. QED BY <1>1, <1>2, <1>3, <1>4 DEF IsField

(* The shape of the target line's place in a text. *)
LEMMA OffsetFacts ==
  ASSUME NEW t \in Targets
  PROVE  Len(TargetLine(t)) \in Nat /\ Len(TargetLine(t)) >= 2 /\ Offset(t) \in Nat
  <1>1. IsTarget(t)
    BY CodecRoundTripAssumption
  <1>2. Len(t.word) \in Nat /\ Len(t.path) \in Nat /\ Len(t.version) \in Nat
    BY <1>1 DEF IsTarget
  <1>3. Len(TargetLine(t)) = Len(t.word) + 1 + Len(t.path) + 1 + Len(t.version)
    BY TargetLineFacts
  <1>4. ASSUME NEW i \in Nat, NEW j \in Nat, NEW k \in Nat, NEW l, l = i + 1 + j + 1 + k
        PROVE  l \in Nat /\ l >= 2 /\ l + 2 \in Nat
    BY <1>4
  <1>. QED BY <1>2, <1>3, <1>4 DEF Offset

(* What is written behind a text moves nothing in it. *)
LEMMA PlacedStays ==
  ASSUME NEW s, NEW t, NEW fs, NEW at, Placed(s, t, fs, at),
         NEW v \in Seq(Unit), Len(s) <= Len(v), \A i \in 1..Len(s) : v[i] = s[i]
  PROVE  Placed(v, t, fs, at)
  <1>1. s \in Seq(Unit) /\ t \in Targets /\ fs \in Seq(Fields) /\ at \in [1..(Len(fs) + 1) -> Nat]
    BY DEF Placed
  <1>2. TargetLine(t) \in Seq(Unit) /\ Offset(t) \in Nat
    BY <1>1, TargetLineFacts, OffsetFacts
  <1>3. LineAt(v, 0, TargetLine(t))
    <2>1. LineAt(s, 0, TargetLine(t))
      BY DEF Placed
    <2>. QED BY <1>1, <1>2, <2>1, LineStays
  <1>4. ASSUME NEW i \in 1..Len(fs) PROVE LineAt(v, Offset(t) + at[i], fs[i].line)
    <2>1. fs[i] \in Fields /\ Len(fs) \in Nat
      BY <1>1
    <2>2. i \in 1..(Len(fs) + 1)
      BY <2>1
    <2>3. fs[i].line \in Seq(Unit) /\ Offset(t) + at[i] \in Nat
      <3>1. fs[i].line \in Seq(Unit)
        BY <2>1, FieldFacts
      <3>2. at[i] \in Nat
        BY <1>1, <2>2
      <3>. QED BY <1>2, <3>1, <3>2
    <2>4. LineAt(s, Offset(t) + at[i], fs[i].line)
      BY DEF Placed
    <2>. QED BY <1>1, <2>3, <2>4, LineStays
  <1>. QED BY <1>3, <1>4 DEF Placed

(* A header line written behind the others. *)
LinesOnly(s, t, fs) ==
  \E at \in [1..(Len(fs) + 1) -> Nat] :
    Placed(s, t, fs, at) /\ Len(s) = Offset(t) + at[Len(fs) + 1]
LineAdded(s, fs, f, v, gs) == v = s \o f.line \o CRLF /\ gs = Append(fs, f)

(* A header line written behind the others keeps all in place. *)
LEMMA PlacedMore ==
  ASSUME NEW s, NEW t, NEW fs, LinesOnly(s, t, fs), NEW f \in Fields,
         NEW v, NEW gs, LineAdded(s, fs, f, v, gs)
  PROVE  LinesOnly(v, t, gs)
  <1>0. PICK at \in [1..(Len(fs) + 1) -> Nat] :
          Placed(s, t, fs, at) /\ Len(s) = Offset(t) + at[Len(fs) + 1]
    BY DEF LinesOnly
  <1>. DEFINE n == Len(fs)
              m == Len(f.line)
              b == [i \in 1..(n + 2) |-> IF i <= n + 1 THEN at[i] ELSE at[n + 1] + m + 2]
  <1>1. s \in Seq(Unit) /\ t \in Targets /\ fs \in Seq(Fields) /\ at \in [1..(n + 1) -> Nat]
    BY <1>0 DEF Placed
  <1>2. n \in Nat /\ m \in Nat /\ m >= 1 /\ f.line \in Seq(Unit) /\ Offset(t) \in Nat
    BY <1>1, FieldFacts, OffsetFacts
  <1>3. v \in Seq(Unit) /\ Len(v) = Len(s) + m + 2 /\ (\A i \in 1..Len(s) : v[i] = s[i])
        /\ LineAt(v, Len(s), f.line) /\ Len(s) \in Nat
    <2>1. Len(s) \in Nat
      BY <1>1
    <2>. QED BY <1>1, <1>2, <2>1, LineWritten DEF LineAdded
  <1>4. gs \in Seq(Fields) /\ Len(gs) = n + 1 /\ (\A i \in 1..n : gs[i] = fs[i]) /\ gs[n + 1] = f
    BY <1>1, AppendProperties DEF LineAdded
  <1>5. Placed(v, t, fs, at)
    <2>1. Len(s) <= Len(v)
      BY <1>2, <1>3
    <2>. QED BY <1>0, <1>3, <2>1, PlacedStays
  <1>. HIDE DEF n, m
  <1>6. at[n + 1] \in Nat /\ Len(s) = Offset(t) + at[n + 1]
    <2>1. n + 1 \in 1..(n + 1)
      BY <1>2
    <2>. QED BY <1>0, <1>1, <2>1 DEF n
  <1>7. /\ b \in [1..(n + 2) -> Nat]
        /\ \A i \in 1..(n + 1) : b[i] = at[i]
        /\ b[n + 2] = at[n + 1] + m + 2
    <2>1. ASSUME NEW i \in 1..(n + 2) PROVE (IF i <= n + 1 THEN at[i] ELSE at[n + 1] + m + 2) \in Nat
      <3>1. CASE i <= n + 1
        <4>1. i \in 1..(n + 1)
          BY <1>2, <3>1
        <4>. QED BY <1>1, <3>1, <4>1
      <3>2. CASE ~(i <= n + 1)
        BY <1>2, <1>6, <3>2
      <3>. QED BY <3>1, <3>2
    <2>2. n + 2 \in 1..(n + 2) /\ ~(n + 2 <= n + 1)
      BY <1>2
    <2>. QED BY <1>2, <2>1, <2>2
  <1>. HIDE DEF b
  <1>8. /\ \A i \in 1..n : at[i + 1] = at[i] + Len(fs[i].line) + 2 /\ LineAt(v, Offset(t) + at[i], fs[i].line)
        /\ \A i, j \in 1..(n + 1) : i < j => at[i] < at[j]
        /\ \A k \in 0..(at[n + 1] - 1) : \E i \in 1..n : at[i] <= k /\ k < at[i + 1]
        /\ LineAt(v, 0, TargetLine(t)) /\ at[1] = 0
    BY <1>5 DEF Placed, n
  <1>9. b[1] = 0
    BY <1>2, <1>7, <1>8
  <1>10. ASSUME NEW i \in 1..(n + 1)
         PROVE  b[i + 1] = b[i] + Len(gs[i].line) + 2 /\ LineAt(v, Offset(t) + b[i], gs[i].line)
    <2>1. CASE i = n + 1
      <3>1. b[i] = at[n + 1] /\ b[i + 1] = at[n + 1] + m + 2 /\ gs[i] = f
        BY <1>2, <1>4, <1>7, <2>1
      <3>. QED BY <1>3, <1>6, <3>1 DEF m
    <2>2. CASE i # n + 1
      <3>1. i \in 1..n /\ i + 1 \in 1..(n + 1)
        BY <1>2, <2>2
      <3>2. b[i] = at[i] /\ b[i + 1] = at[i + 1] /\ gs[i] = fs[i]
        BY <1>4, <1>7, <3>1
      <3>. QED BY <1>8, <3>1, <3>2
    <2>. QED BY <2>1, <2>2
  <1>11. ASSUME NEW i \in 1..(n + 2), NEW j \in 1..(n + 2), i < j PROVE b[i] < b[j]
    <2>1. i \in 1..(n + 1)
      BY <1>2, <1>11
    <2>2. CASE j = n + 2
      <3>1. n + 1 \in 1..(n + 1) /\ (i = n + 1 \/ i < n + 1)
        BY <1>2, <2>1
      <3>2. at[i] \in Nat /\ at[i] <= at[n + 1]
        BY <1>1, <1>6, <1>8, <2>1, <3>1 DEF n
      <3>3. b[i] = at[i] /\ b[j] = at[n + 1] + m + 2
        BY <1>7, <2>1, <2>2
      <3>. QED BY <1>2, <1>6, <3>2, <3>3
    <2>3. CASE j # n + 2
      <3>1. j \in 1..(n + 1)
        BY <1>2, <2>3
      <3>. QED BY <1>7, <1>8, <1>11, <2>1, <3>1
    <2>. QED BY <2>2, <2>3
  <1>12. ASSUME NEW k \in 0..(b[n + 2] - 1)
         PROVE  \E i \in 1..(n + 1) : b[i] <= k /\ k < b[i + 1]
    <2>1. CASE k < at[n + 1]
      <3>1. k \in 0..(at[n + 1] - 1)
        BY <1>6, <2>1
      <3>2. PICK i \in 1..n : at[i] <= k /\ k < at[i + 1]
        BY <1>8, <3>1
      <3>3. i \in 1..(n + 1) /\ i + 1 \in 1..(n + 1)
        BY <1>2
      <3>. QED BY <1>7, <3>2, <3>3
    <2>2. CASE ~(k < at[n + 1])
      <3>1. n + 1 \in 1..(n + 1) /\ n + 1 + 1 = n + 2
        BY <1>2
      <3>2. b[n + 1] = at[n + 1] /\ b[n + 2] \in Nat
        BY <1>2, <1>6, <1>7, <3>1
      <3>3. b[n + 1] <= k /\ k < b[n + 1 + 1]
        BY <1>6, <2>2, <3>1, <3>2
      <3>. QED BY <3>1, <3>3
    <2>. QED BY <2>1, <2>2
  <1>13. Len(gs) = n + 1 /\ Len(gs) + 1 = n + 2
    BY <1>2, <1>4 DEF n
  <1>14. Placed(v, t, gs, b)
    <2>1. b \in [1..(Len(gs) + 1) -> Nat]
      BY <1>7, <1>13
    <2>2. \A i \in 1..Len(gs) : /\ b[i + 1] = b[i] + Len(gs[i].line) + 2
                                /\ LineAt(v, Offset(t) + b[i], gs[i].line)
      BY <1>10, <1>13
    <2>3. \A i, j \in 1..(Len(gs) + 1) : i < j => b[i] < b[j]
      BY <1>11, <1>13
    <2>4. \A k \in 0..(b[Len(gs) + 1] - 1) : \E i \in 1..Len(gs) : b[i] <= k /\ k < b[i + 1]
      BY <1>12, <1>13
    <2>. QED BY <1>1, <1>3, <1>4, <1>8, <1>9, <2>1, <2>2, <2>3, <2>4, Zenon DEF Placed
  <1>15. Len(v) = Offset(t) + b[n + 2]
    <2>1. Len(v) = Len(s) + m + 2 /\ Len(s) = Offset(t) + at[n + 1] /\ b[n + 2] = at[n + 1] + m + 2
      BY <1>3, <1>6, <1>7
    <2>2. ASSUME NEW o \in Nat, NEW k \in Nat PROVE o + k + m + 2 = o + (k + m + 2)
      BY <1>2
    <2>. QED BY <1>2, <1>6, <2>1, <2>2
  <1>16. b \in [1..(Len(gs) + 1) -> Nat] /\ Len(v) = Offset(t) + b[Len(gs) + 1]
    BY <1>7, <1>13, <1>15
  <1>. QED BY <1>14, <1>16 DEF LinesOnly

(* The target line alone is laid out. *)
LEMMA InitLayout == Init => Layout
  <1>. SUFFICES ASSUME Init PROVE Layout
    OBVIOUS
  <1>. DEFINE l == TargetLine(target)
              at == [i \in 1..1 |-> 0]
  <1>1. /\ target \in Targets /\ fields = <<>> /\ body = <<>> /\ blank = FALSE
        /\ raw = l \o CRLF
    BY DEF Init
  <1>2. l \in Seq(Unit) /\ Len(l) \in Nat /\ Offset(target) = Len(l) + 2
    <2>1. l \in Seq(Unit) /\ Len(l) \in Nat
      BY <1>1, TargetLineFacts, OffsetFacts
    <2>. QED BY <2>1 DEF Offset
  <1>. HIDE DEF l
  <1>3. raw \in Seq(Unit) /\ Len(raw) = Len(l) + 2 /\ LineAt(raw, 0, l)
    <2>1. /\ l \o CRLF \in Seq(Unit) /\ Len(l \o CRLF) = Len(l) + Len(CRLF)
          /\ \A i \in 1..Len(l) : (l \o CRLF)[i] = l[i]
          /\ \A i \in 1..Len(CRLF) : (l \o CRLF)[Len(l) + i] = CRLF[i]
      BY <1>2, CrLf, Extended
    <2>2. raw[Len(l) + 1] = CR /\ raw[Len(l) + 2] = LF /\ Len(raw) = Len(l) + 2
      BY <1>1, <2>1, CrLf
    <2>3. 0 + Len(l) + 1 = Len(l) + 1 /\ 0 + Len(l) + 2 = Len(l) + 2 /\ \A i \in 1..Len(l) : 0 + i = i
      BY <1>2
    <2>. QED BY <1>1, <1>2, <2>1, <2>2, <2>3 DEF LineAt
  <1>4. fields \in Seq(Fields) /\ Len(fields) = 0
    BY <1>1, EmptySeq
  <1>5. at \in [1..(Len(fields) + 1) -> Nat] /\ at[1] = 0 /\ at[Len(fields) + 1] = 0
    BY <1>4
  <1>. HIDE DEF at
  <1>6. Placed(raw, target, fields, at)
    <2>1. \A i \in 1..Len(fields) : FALSE
      BY <1>4
    <2>2. \A i, j \in 1..(Len(fields) + 1) : ~(i < j)
      BY <1>4
    <2>3. \A k \in 0..(at[Len(fields) + 1] - 1) : FALSE
      BY <1>5
    <2>. QED BY <1>1, <1>3, <1>4, <1>5, <2>1, <2>2, <2>3 DEF Placed, l
  <1>7. Closed(raw, Offset(target) + at[Len(fields) + 1], blank, body)
    <2>1. <<>> \in Seq(STRING)
      OBVIOUS
    <2>2. Len(raw) = Offset(target) + at[Len(fields) + 1] + 0
      BY <1>2, <1>3, <1>5
    <2>. QED BY <1>1, <2>1, <2>2 DEF Closed
  <1>. QED BY <1>5, <1>6, <1>7 DEF Layout

(* Every write of the client keeps the layout. *)
LEMMA NextLayout == Layout /\ [Next]_vars => Layout'
  <1>. SUFFICES ASSUME Layout, [Next]_vars PROVE Layout'
    OBVIOUS
  <1>. DEFINE n == Len(fields)
  <1>1. PICK at \in [1..(n + 1) -> Nat] :
          /\ Placed(raw, target, fields, at)
          /\ Closed(raw, Offset(target) + at[n + 1], blank, body)
    BY DEF Layout
  <1>2. raw \in Seq(Unit) /\ target \in Targets /\ fields \in Seq(Fields) /\ Len(raw) \in Nat
    BY <1>1 DEF Placed
  <1>. DEFINE z == Offset(target) + at[n + 1]
  <1>3. n \in Nat /\ z \in Nat
    <2>1. n \in Nat
      BY <1>2
    <2>2. n + 1 \in 1..(n + 1)
      BY <2>1
    <2>. QED BY <1>1, <1>2, <2>1, <2>2, OffsetFacts
  <1>. HIDE DEF z, n
  <1>4. ASSUME NEW f \in Fields, WriteField(f) PROVE Layout'
    <2>1. /\ ~blank /\ fields' = Append(fields, f) /\ raw' = raw \o f.line \o CRLF
          /\ target' = target /\ body' = body /\ blank' = blank
      BY <1>4 DEF WriteField
    <2>2. Len(raw) = z /\ body = <<>>
      BY <1>1, <1>3, <2>1 DEF Closed, z
    <2>3. PICK b \in [1..(Len(fields') + 1) -> Nat] :
            /\ Placed(raw', target, fields', b)
            /\ Len(raw') = Offset(target) + b[Len(fields') + 1]
      <3>1. LinesOnly(raw, target, fields)
        BY <1>1, <2>2 DEF LinesOnly, z, n
      <3>2. LineAdded(raw, fields, f, raw', fields')
        BY <2>1 DEF LineAdded
      <3>3. LinesOnly(raw', target, fields')
        BY <3>1, <3>2, PlacedMore, Zenon
      <3>. QED BY <3>3 DEF LinesOnly
    <2>4. raw' \in Seq(Unit) /\ Len(raw') \in Nat
      BY <2>3 DEF Placed
    <2>5. Closed(raw', Offset(target') + b[Len(fields') + 1], blank', body')
      <3>1. Len(raw') = Offset(target') + b[Len(fields') + 1] + 0
        BY <2>1, <2>3, <2>4
      <3>2. <<>> \in Seq(STRING) /\ blank' = FALSE /\ body' = <<>>
        BY <1>1, <2>1, <2>2 DEF Closed
      <3>. QED BY <3>1, <3>2 DEF Closed
    <2>. QED BY <2>1, <2>3, <2>5 DEF Layout
  <1>5. CASE WriteBlank
    <2>1. /\ ~blank /\ blank' = TRUE /\ raw' = raw \o CRLF
          /\ target' = target /\ fields' = fields /\ body' = body
      BY <1>5 DEF WriteBlank
    <2>2. Len(raw) = z /\ body = <<>>
      BY <1>1, <1>3, <2>1 DEF Closed, z
    <2>3. /\ raw' \in Seq(Unit) /\ Len(raw') = Len(raw) + 2
          /\ \A i \in 1..Len(raw) : raw'[i] = raw[i]
          /\ raw'[Len(raw) + 1] = CR /\ raw'[Len(raw) + 2] = LF
      <3>1. /\ raw \o CRLF \in Seq(Unit) /\ Len(raw \o CRLF) = Len(raw) + Len(CRLF)
            /\ \A i \in 1..Len(raw) : (raw \o CRLF)[i] = raw[i]
            /\ \A i \in 1..Len(CRLF) : (raw \o CRLF)[Len(raw) + i] = CRLF[i]
        BY <1>2, CrLf, Extended
      <3>. QED BY <2>1, <3>1, CrLf
    <2>4. Placed(raw', target, fields, at)
      <3>1. Len(raw) <= Len(raw')
        BY <1>2, <2>3
      <3>. QED BY <1>1, <2>3, <3>1, PlacedStays
    <2>5. Closed(raw', z, TRUE, <<>>)
      <3>1. <<>> \in Seq(STRING) /\ Len(<<>>) = 0 /\ \A j \in 1..Len(<<>>) : FALSE
        OBVIOUS
      <3>2. Len(raw') = z + (IF TRUE THEN 2 + Len(<<>>) ELSE 0)
        BY <1>3, <2>2, <2>3, <3>1
      <3>. QED BY <2>2, <2>3, <3>1, <3>2 DEF Closed
    <2>. QED BY <1>1, <2>1, <2>2, <2>4, <2>5 DEF Layout, z, n
  <1>6. ASSUME NEW u \in BodyUnits, WriteBody(u) PROVE Layout'
    <2>1. /\ blank = TRUE /\ body' = Append(body, u) /\ raw' = Append(raw, u)
          /\ target' = target /\ fields' = fields /\ blank' = blank
      BY <1>1, <1>6 DEF WriteBody, Closed
    <2>2. u \in STRING /\ u \in Unit
      BY CodecRoundTripAssumption DEF Unit
    <2>3. /\ body \in Seq(STRING) /\ Len(body) \in Nat /\ Len(raw) = z + 2 + Len(body)
          /\ raw[z + 1] = CR /\ raw[z + 2] = LF
          /\ \A j \in 1..Len(body) : raw[z + 2 + j] = body[j]
      <3>1. /\ body \in Seq(STRING) /\ Len(raw) = z + (2 + Len(body))
            /\ raw[z + 1] = CR /\ raw[z + 2] = LF
            /\ \A j \in 1..Len(body) : raw[z + 2 + j] = body[j]
        BY <1>1, <2>1 DEF Closed, z
      <3>2. Len(body) \in Nat
        BY <3>1
      <3>3. z + (2 + Len(body)) = z + 2 + Len(body)
        BY <1>3, <3>2
      <3>. QED BY <3>1, <3>2, <3>3
    <2>4. /\ raw' \in Seq(Unit) /\ Len(raw') = Len(raw) + 1
          /\ (\A i \in 1..Len(raw) : raw'[i] = raw[i]) /\ raw'[Len(raw) + 1] = u
      <3>1. /\ Append(raw, u) \in Seq(Unit) /\ Len(Append(raw, u)) = Len(raw) + 1
            /\ (\A i \in 1..Len(raw) : Append(raw, u)[i] = raw[i])
            /\ Append(raw, u)[Len(raw) + 1] = u
        BY <1>2, <2>2, Appended, Zenon
      <3>. QED BY <2>1, <3>1, Zenon
    <2>5. /\ body' \in Seq(STRING) /\ Len(body') = Len(body) + 1
          /\ (\A i \in 1..Len(body) : body'[i] = body[i]) /\ body'[Len(body) + 1] = u
      <3>1. /\ Append(body, u) \in Seq(STRING) /\ Len(Append(body, u)) = Len(body) + 1
            /\ (\A i \in 1..Len(body) : Append(body, u)[i] = body[i])
            /\ Append(body, u)[Len(body) + 1] = u
        BY <2>2, <2>3, Appended, Zenon
      <3>. QED BY <2>1, <3>1, Zenon
    <2>6. Placed(raw', target, fields, at)
      <3>1. Len(raw) <= Len(raw')
        BY <1>2, <2>4
      <3>. QED BY <1>1, <2>4, <3>1, PlacedStays
    <2>7. ASSUME NEW j \in 1..Len(body') PROVE raw'[z + 2 + j] = body'[j]
      <3>1. CASE j = Len(body) + 1
        <4>1. z + 2 + j = Len(raw) + 1
          BY <1>3, <2>3, <3>1
        <4>. QED BY <2>4, <2>5, <3>1, <4>1
      <3>2. CASE j # Len(body) + 1
        <4>1. j \in 1..Len(body) /\ z + 2 + j \in 1..Len(raw)
          BY <1>3, <2>3, <2>5, <3>2
        <4>. QED BY <2>3, <2>4, <2>5, <4>1
      <3>. QED BY <3>1, <3>2
    <2>8. raw'[z + 1] = CR /\ raw'[z + 2] = LF
      <3>1. z + 1 \in 1..Len(raw) /\ z + 2 \in 1..Len(raw)
        BY <1>3, <2>3
      <3>. QED BY <2>3, <2>4, <3>1
    <2>9. Closed(raw', z, TRUE, body')
      <3>1. Len(raw') = z + (IF TRUE THEN 2 + Len(body') ELSE 0)
        BY <1>3, <2>3, <2>4, <2>5
      <3>. QED BY <2>5, <2>7, <2>8, <3>1 DEF Closed
    <2>. QED BY <1>1, <2>1, <2>6, <2>9 DEF Layout, z, n
  <1>7. CASE UNCHANGED vars
    BY <1>1, <1>7 DEF Layout, vars, z, n
  <1>. QED BY <1>4, <1>5, <1>6, <1>7 DEF Next

(* A line ends where it ends and nowhere before. *)
LEMMA LineEnds ==
  ASSUME NEW s \in Seq(Unit), NEW a \in Nat, NEW l \in Seq(Unit), NoLineEnd(l),
         LineAt(s, a, l), NEW k \in a..(a + Len(l) + 1)
  PROVE  k \in Ends(s) <=> k = a + Len(l)
  <1>. DEFINE m == Len(l)
  <1>1. m \in Nat /\ Len(s) \in Nat /\ k \in Nat /\ a + m + 2 <= Len(s)
    BY DEF LineAt
  <1>2. /\ \A i \in 1..m : s[a + i] = l[i]
        /\ s[a + m + 1] = CR /\ s[a + m + 2] = LF
    BY DEF LineAt
  <1>3. \A i \in 1..(m - 1) : ~(l[i] = CR /\ l[i + 1] = LF)
    BY DEF NoLineEnd, LineEnd
  <1>. HIDE DEF m
  <1>4. CASE k = a + m
    <2>1. k \in 0..(Len(s) - 2) /\ k + 1 = a + m + 1 /\ k + 2 = a + m + 2
      BY <1>1, <1>4
    <2>. QED BY <1>2, <1>4, <2>1 DEF Ends, m
  <1>5. CASE k = a + m + 1
    <2>1. k + 1 = a + m + 2 /\ k # a + m
      BY <1>1, <1>5
    <2>. QED BY <1>2, <2>1, Distinct DEF Ends, m
  <1>6. CASE k < a + m
    <2>1. k # a + m
      BY <1>1, <1>6
    <2>2. PICK i \in 1..m : i = k - a + 1
      BY <1>1, <1>6
    <2>3. s[k + 1] = l[i]
      <3>1. k + 1 = a + i
        BY <1>1, <2>2
      <3>. QED BY <1>2, <3>1
    <2>4. CASE i = m
      <3>1. k + 2 = a + m + 1
        BY <1>1, <2>2, <2>4
      <3>2. s[k + 2] # LF
        BY <1>2, <3>1, Distinct
      <3>. QED BY <2>1, <3>2 DEF Ends, m
    <2>5. CASE i # m
      <3>1. i \in 1..(m - 1) /\ i + 1 \in 1..m /\ k + 2 = a + (i + 1)
        BY <1>1, <2>2, <2>5
      <3>2. s[k + 2] = l[i + 1]
        BY <1>2, <3>1
      <3>3. ~(s[k + 1] = CR /\ s[k + 2] = LF)
        BY <1>3, <2>3, <3>1, <3>2
      <3>. QED BY <2>1, <3>3 DEF Ends, m
    <2>. QED BY <2>4, <2>5
  <1>7. k = a + m \/ k = a + m + 1 \/ k < a + m
    BY <1>1 DEF m
  <1>. QED BY <1>4, <1>5, <1>6, <1>7

(* What a layout says of one header line. *)
LEMMA LineFacts ==
  ASSUME NEW s, NEW t, NEW fs, NEW at, Placed(s, t, fs, at), NEW i \in 1..Len(fs)
  PROVE  /\ fs[i] \in Fields /\ fs[i].line \in Seq(Unit)
         /\ Len(fs[i].line) \in Nat /\ Len(fs[i].line) >= 1 /\ NoLineEnd(fs[i].line)
         /\ at[i] \in Nat /\ at[i + 1] \in Nat /\ at[i + 1] = at[i] + Len(fs[i].line) + 2
         /\ Offset(t) + at[i] \in Nat
         /\ LineAt(s, Offset(t) + at[i], fs[i].line)
  <1>1. t \in Targets /\ fs \in Seq(Fields) /\ at \in [1..(Len(fs) + 1) -> Nat]
    BY DEF Placed
  <1>2. fs[i] \in Fields /\ Len(fs) \in Nat
    BY <1>1
  <1>3. i \in 1..(Len(fs) + 1) /\ i + 1 \in 1..(Len(fs) + 1)
    BY <1>2
  <1>4. at[i] \in Nat /\ at[i + 1] \in Nat
    BY <1>1, <1>3
  <1>5. at[i + 1] = at[i] + Len(fs[i].line) + 2 /\ LineAt(s, Offset(t) + at[i], fs[i].line)
    BY DEF Placed
  <1>6. Offset(t) + at[i] \in Nat
    BY <1>1, <1>4, OffsetFacts
  <1>7. /\ fs[i].line \in Seq(Unit) /\ NoLineEnd(fs[i].line)
        /\ Len(fs[i].line) \in Nat /\ Len(fs[i].line) >= 1
    BY <1>2, FieldFacts
  <1>. QED BY <1>2, <1>4, <1>5, <1>6, <1>7

(* No line ends where it begins: header lines are not empty. *)
LEMMA LineStart ==
  ASSUME NEW s, NEW t, NEW fs, NEW at, Placed(s, t, fs, at), NEW i \in 1..Len(fs)
  PROVE  Offset(t) + at[i] \notin Ends(s)
  <1>. DEFINE a == Offset(t) + at[i]
              l == fs[i].line
  <1>1. s \in Seq(Unit)
    BY DEF Placed
  <1>2. /\ l \in Seq(Unit) /\ Len(l) \in Nat /\ Len(l) >= 1 /\ NoLineEnd(l)
        /\ a \in Nat /\ LineAt(s, a, l)
    BY LineFacts
  <1>. HIDE DEF a, l
  <1>3. a \in a..(a + Len(l) + 1) /\ a # a + Len(l)
    BY <1>2
  <1>4. a \notin Ends(s)
    BY <1>1, <1>2, <1>3, LineEnds
  <1>. QED BY <1>4 DEF a

(* The target line ends at the first line end. *)
LEMMA TargetEnd ==
  ASSUME NEW s, NEW t, NEW fs, NEW at, Placed(s, t, fs, at)
  PROVE  /\ findFrom(s, CRLF, 0) = Len(TargetLine(t))
         /\ \A k \in 0..(Offset(t) - 1) : k \in Ends(s) <=> k = Len(TargetLine(t))
  <1>. DEFINE l == TargetLine(t)
  <1>1. s \in Seq(Unit) /\ t \in Targets /\ LineAt(s, 0, l)
    BY DEF Placed
  <1>2. l \in Seq(Unit) /\ Len(l) \in Nat /\ Offset(t) = Len(l) + 2
    BY <1>1, TargetLineFacts, OffsetFacts DEF Offset
  <1>3. NoLineEnd(l)
    <2>1. IsTarget(t)
      BY <1>1, CodecRoundTripAssumption
    <2>. QED BY <2>1 DEF IsTarget
  <1>. HIDE DEF l
  <1>4. ASSUME NEW k \in 0..(Len(l) + 1) PROVE k \in Ends(s) <=> k = Len(l)
    <2>1. k \in 0..(0 + Len(l) + 1) /\ 0 + Len(l) = Len(l)
      BY <1>2
    <2>2. 0 \in Nat
      OBVIOUS
    <2>3. k \in Ends(s) <=> k = 0 + Len(l)
      BY <1>1, <1>2, <1>3, <2>1, <2>2, LineEnds
    <2>. QED BY <2>1, <2>3
  <1>5. Len(l) \in Ends(s) /\ Ends(s) \subseteq Int
    <2>1. Len(l) \in 0..(Len(l) + 1)
      BY <1>2
    <2>. QED BY <1>4, <2>1 DEF Ends
  <1>6. ASSUME NEW k \in Ends(s) PROVE Len(l) <= k
    <2>1. k \in Nat
      BY DEF Ends
    <2>2. CASE k < Len(l)
      <3>1. k \in 0..(Len(l) + 1) /\ k # Len(l)
        BY <1>2, <2>1, <2>2
      <3>. QED BY <1>4, <3>1
    <2>. QED BY <1>2, <2>1, <2>2
  <1>7. Min(Ends(s)) = Len(l)
    BY <1>5, <1>6, MinIs
  <1>8. findFrom(s, CRLF, 0) = Len(l)
    BY <1>1, <1>5, <1>7, FindEnd
  <1>9. \A k \in 0..(Offset(t) - 1) : k \in Ends(s) <=> k = Len(l)
    BY <1>2, <1>4
  <1>. QED BY <1>8, <1>9 DEF l

(* Behind the end of a line the next begins. *)
LEMMA NextLine ==
  ASSUME NEW s, NEW t, NEW fs, NEW at, Placed(s, t, fs, at),
         NEW k \in Ends(s), k < Offset(t) + at[Len(fs) + 1]
  PROVE  \E i \in 1..(Len(fs) + 1) : k + 2 = Offset(t) + at[i]
  <1>. DEFINE o == Offset(t)
              n == Len(fs)
  <1>1. s \in Seq(Unit) /\ t \in Targets /\ fs \in Seq(Fields) /\ at[1] = 0
        /\ at \in [1..(n + 1) -> Nat]
    BY DEF Placed
  <1>2. n \in Nat /\ o \in Nat /\ k \in Nat /\ n + 1 \in 1..(n + 1)
    BY <1>1, OffsetFacts DEF Ends
  <1>3. at[n + 1] \in Nat
    BY <1>1, <1>2
  <1>4. CASE k < o
    <2>1. k \in 0..(o - 1)
      BY <1>2, <1>4
    <2>2. k = Len(TargetLine(t)) /\ o = k + 2
      BY <2>1, TargetEnd DEF Offset
    <2>3. 1 \in 1..(n + 1) /\ k + 2 = o + at[1]
      BY <1>1, <1>2, <2>2
    <2>. QED BY <2>3
  <1>5. CASE ~(k < o)
    <2>1. k - o \in 0..(at[n + 1] - 1)
      BY <1>2, <1>3, <1>5
    <2>2. PICK i \in 1..n : at[i] <= k - o /\ k - o < at[i + 1]
      BY <2>1 DEF Placed
    <2>. DEFINE l == fs[i].line
                a == o + at[i]
    <2>3. /\ l \in Seq(Unit) /\ Len(l) \in Nat /\ NoLineEnd(l) /\ a \in Nat /\ LineAt(s, a, l)
          /\ at[i] \in Nat /\ at[i + 1] \in Nat /\ at[i + 1] = at[i] + Len(l) + 2
      BY LineFacts
    <2>. HIDE DEF l
    <2>4. k \in a..(a + Len(l) + 1)
      <3>1. /\ k \in Nat /\ o \in Nat /\ at[i] \in Nat /\ Len(l) \in Nat
            /\ at[i] <= k - o /\ k - o < at[i] + Len(l) + 2
        BY <1>2, <2>2, <2>3
      <3>. QED BY <3>1
    <2>5. k = a + Len(l)
      <3>. HIDE DEF a
      <3>. QED BY <1>1, <2>3, <2>4, LineEnds
    <2>6. k + 2 = o + at[i + 1] /\ i + 1 \in 1..(n + 1)
      <3>. HIDE DEF o
      <3>1. k = o + at[i] + Len(l)
        BY <2>5
      <3>0. o \in Nat /\ at[i] \in Nat /\ Len(l) \in Nat
        BY <1>2, <2>3
      <3>2. k + 2 = o + (at[i] + Len(l) + 2)
        BY <3>0, <3>1
      <3>. QED BY <1>2, <2>3, <3>2
    <2>. QED BY <2>6
  <1>. QED BY <1>4, <1>5

(* The blank line is the first empty one. *)
HeadersEnd(z, bl) == IF bl THEN z - 2 ELSE npos

(* The first blank line is the client's: a body cannot bring it forward. *)
LEMMA BlankFound ==
  ASSUME NEW s, NEW t, NEW fs, NEW at, NEW bl, NEW bd, Placed(s, t, fs, at),
         Closed(s, Offset(t) + at[Len(fs) + 1], bl, bd)
  PROVE  findFrom(s, CRLF \o CRLF, 0) = HeadersEnd(Offset(t) + at[Len(fs) + 1], bl)
  <1>. DEFINE o == Offset(t)
              n == Len(fs)
              z == o + at[n + 1]
              found == findFrom(s, CRLF \o CRLF, 0)
  <1>0. s \in Seq(Unit) => found = IF Blanks(s) = {} THEN npos ELSE Min(Blanks(s))
    BY FindBlank
  <1>. HIDE DEF found
  <1>1. /\ s \in Seq(Unit) /\ t \in Targets /\ fs \in Seq(Fields) /\ at[1] = 0
        /\ at \in [1..(n + 1) -> Nat] /\ Len(s) \in Nat
    BY DEF Placed
  <1>2. n \in Nat /\ o \in Nat /\ o = Len(TargetLine(t)) + 2 /\ n + 1 \in 1..(n + 1)
    BY <1>1, OffsetFacts DEF Offset
  <1>3. at[n + 1] \in Nat /\ z \in Nat
    BY <1>1, <1>2
  <1>4. ASSUME NEW k \in Blanks(s) PROVE z <= k + 2
    <2>1. k \in Ends(s) /\ k + 2 \in Ends(s) /\ k \in Nat
      BY DEF Blanks, Ends
    <2>2. CASE k < z
      <3>1. PICK i \in 1..(n + 1) : k + 2 = o + at[i]
        BY <2>1, <2>2, NextLine
      <3>2. i \notin 1..n
        BY <2>1, <3>1, LineStart
      <3>3. i = n + 1
        BY <1>2, <3>2
      <3>. QED BY <1>3, <2>1, <3>1, <3>3
    <2>. QED BY <1>3, <2>1, <2>2
  <1>5. CASE bl
    <2>1. Len(s) >= z + 2 /\ s[z + 1] = CR /\ s[z + 2] = LF
      <3>1. bd \in Seq(STRING) /\ Len(s) = z + (2 + Len(bd)) /\ s[z + 1] = CR /\ s[z + 2] = LF
        BY <1>5 DEF Closed
      <3>2. Len(bd) \in Nat
        BY <3>1
      <3>. QED BY <1>3, <3>1, <3>2
    <2>. HIDE DEF z
    <2>2. z \in Ends(s)
      <3>1. z \in 0..(Len(s) - 2)
        BY <1>1, <1>3, <2>1
      <3>. QED BY <2>1, <3>1 DEF Ends
    <2>3. z - 2 \in Ends(s)
      <3>1. CASE n = 0
        <4>1. z - 2 = Len(TargetLine(t)) /\ z - 2 \in 0..(o - 1)
          BY <1>1, <1>2, <3>1, OffsetFacts DEF z
        <4>. QED BY <4>1, TargetEnd
      <3>2. CASE n # 0
        <4>. DEFINE l == fs[n].line
                    a == o + at[n]
        <4>1. n \in 1..n
          BY <1>2, <3>2
        <4>2. /\ l \in Seq(Unit) /\ Len(l) \in Nat /\ NoLineEnd(l) /\ a \in Nat /\ LineAt(s, a, l)
              /\ at[n] \in Nat /\ at[n + 1] \in Nat /\ at[n + 1] = at[n] + Len(l) + 2
          BY <4>1, LineFacts
        <4>. HIDE DEF l
        <4>3. z - 2 = a + Len(l) /\ z - 2 \in a..(a + Len(l) + 1)
          <5>. HIDE DEF o
          <5>1. z = o + at[n + 1]
            BY DEF z
          <5>0. o \in Nat /\ at[n] \in Nat /\ Len(l) \in Nat /\ at[n + 1] = at[n] + Len(l) + 2
            BY <1>2, <4>2
          <5>2. z - 2 = o + at[n] + Len(l)
            BY <5>0, <5>1
          <5>3. a \in Nat /\ Len(l) \in Nat /\ z - 2 = a + Len(l)
            BY <5>0, <5>2
          <5>. HIDE DEF a
          <5>. QED BY <5>3
        <4>. HIDE DEF a
        <4>. QED BY <1>1, <4>2, <4>3, LineEnds
      <3>. QED BY <3>1, <3>2
    <2>4. z - 2 \in Blanks(s)
      <3>1. z - 2 + 2 = z
        BY <1>3
      <3>. QED BY <2>2, <2>3, <3>1 DEF Blanks
    <2>5. Blanks(s) \subseteq Int /\ \A k \in Blanks(s) : z - 2 <= k
      <3>1. ASSUME NEW k \in Blanks(s) PROVE k \in Int /\ z - 2 <= k
        <4>1. k \in Int
          BY DEF Blanks, Ends
        <4>2. z <= k + 2
          BY <1>4 DEF z
        <4>. QED BY <1>3, <4>1, <4>2
      <3>. QED BY <3>1
    <2>6. Min(Blanks(s)) = z - 2
      BY <2>4, <2>5, MinIs
    <2>7. found = z - 2
      BY <1>0, <1>1, <2>4, <2>6
    <2>. QED BY <1>5, <2>7 DEF HeadersEnd, z, found
  <1>6. CASE ~bl
    <2>1. Len(s) = z
      BY <1>3, <1>6 DEF Closed
    <2>2. ASSUME NEW k \in Blanks(s) PROVE FALSE
      <3>1. k \in Nat /\ k + 2 \in 0..(Len(s) - 2)
        BY DEF Blanks, Ends
      <3>2. z <= k + 2
        BY <1>4
      <3>. QED BY <1>3, <2>1, <3>1, <3>2
    <2>3. found = npos
      BY <1>0, <1>1, <2>2
    <2>. QED BY <1>6, <2>3 DEF HeadersEnd, found
  <1>. QED BY <1>5, <1>6

(* The first occurrence of a unit, when there is one at x and none before. *)
LEMMA FirstOne ==
  ASSUME NEW s \in Seq(Unit), NEW c, NEW from \in Nat, NEW x \in from..(Len(s) - 1), s[x + 1] = c,
         \A k \in from..(x - 1) : s[k + 1] # c
  PROVE  findFrom(s, <<c>>, from) = x
  <1>1. x \in Hits(s, c, from) /\ Hits(s, c, from) \subseteq Int
    BY DEF Hits
  <1>2. ASSUME NEW k \in Hits(s, c, from) PROVE x <= k
    <2>1. k \in from..(Len(s) - 1) /\ s[k + 1] = c
      BY DEF Hits
    <2>2. x \in Int /\ k \in Int
      BY <2>1
    <2>3. CASE k < x
      <3>1. k \in from..(x - 1)
        BY <2>1, <2>2, <2>3
      <3>. QED BY <2>1, <3>1
    <2>. QED BY <2>2, <2>3
  <1>3. Min(Hits(s, c, from)) = x
    BY <1>1, <1>2, MinIs
  <1>. QED BY <1>1, <1>3, FindOne

(* The words of the target line are read back. *)
LEMMA TargetRead ==
  ASSUME NEW t \in Targets
  PROVE  /\ method(TargetLine(t)) = t.method
         /\ path(TargetLine(t)) = t.path
         /\ version(TargetLine(t)) = t.version
  <1>. DEFINE l == TargetLine(t)
              w == Len(t.word)
              p == Len(t.path)
              v == Len(t.version)
  <1>1. /\ l \in Seq(Unit) /\ Len(l) = w + 1 + p + 1 + v
        /\ \A i \in 1..w : l[i] = t.word[i]
        /\ l[w + 1] = SP
        /\ \A i \in 1..p : l[w + 1 + i] = t.path[i]
        /\ l[w + 1 + p + 1] = SP
        /\ \A i \in 1..v : l[w + 1 + p + 1 + i] = t.version[i]
    BY TargetLineFacts
  <1>2. IsTarget(t)
    BY CodecRoundTripAssumption
  <1>3. /\ t.word \in Seq(Unit) /\ t.path \in Seq(Unit) /\ t.version \in Seq(Unit)
        /\ w \in Nat /\ p \in Nat /\ v \in Nat
        /\ \A i \in 1..w : t.word[i] # SP
        /\ \A i \in 1..p : t.path[i] # SP
        /\ t.method = to_method(t.word)
    <2>1. t.word \in Seq(STRING) /\ t.path \in Seq(STRING) /\ t.version \in Seq(STRING)
      BY <1>2 DEF IsTarget
    <2>2. DOMAIN t.word = 1..w /\ DOMAIN t.path = 1..p /\ w \in Nat /\ p \in Nat /\ v \in Nat
      BY <2>1
    <2>. QED BY <1>2, <2>1, <2>2, TextOfUnits DEF IsTarget
  <1>. HIDE DEF l, w, p, v
  <1>4. SubSeq(l, 0 + 1, 0 + w) = t.word
    <2>1. 0 \in Nat /\ 0 + w <= Len(l) /\ \A i \in 1..w : 0 + i = i
      BY <1>1, <1>3
    <2>2. \A i \in 1..w : l[0 + i] = t.word[i]
      BY <1>1, <2>1
    <2>. QED BY <1>1, <1>3, <2>1, <2>2, SliceIs DEF w
  <1>5. SubSeq(l, (w + 1) + 1, (w + 1) + p) = t.path
    <2>1. w + 1 \in Nat /\ (w + 1) + p <= Len(l)
      BY <1>1, <1>3
    <2>. QED BY <1>1, <1>3, <2>1, SliceIs DEF p
  <1>6. SubSeq(l, (w + 1 + p + 1) + 1, (w + 1 + p + 1) + v) = t.version
    <2>1. w + 1 + p + 1 \in Nat /\ (w + 1 + p + 1) + v <= Len(l)
      BY <1>1, <1>3
    <2>. QED BY <1>1, <1>3, <2>1, SliceIs DEF v
  <1>7. findFrom(l, <<SP>>, 0) = w
    <2>1. w \in 0..(Len(l) - 1) /\ 0 \in Nat
      BY <1>1, <1>3
    <2>2. ASSUME NEW k \in 0..(w - 1) PROVE l[k + 1] # SP
      <3>1. k + 1 \in 1..w
        BY <1>3
      <3>. QED BY <1>1, <1>3, <3>1
    <2>. QED BY <1>1, <2>1, <2>2, FirstOne
  <1>8. findFrom(l, <<SP>>, w + 1) = w + 1 + p
    <2>. DEFINE x == w + 1 + p
                b == w + 1
    <2>1. x \in b..(Len(l) - 1) /\ b \in Nat /\ l[x + 1] = SP
      BY <1>1, <1>3
    <2>2. ASSUME NEW k \in b..(x - 1) PROVE l[k + 1] # SP
      <3>. DEFINE i == k - w
      <3>1. i \in 1..p /\ k + 1 = w + 1 + i
        BY <1>3
      <3>. HIDE DEF i
      <3>2. l[w + 1 + i] = t.path[i] /\ t.path[i] # SP
        BY <1>1, <1>3, <3>1
      <3>. QED BY <3>1, <3>2
    <2>. HIDE DEF x, b
    <2>3. l \in Seq(Unit)
      BY <1>1
    <2>4. findFrom(l, <<SP>>, b) = x
      BY <2>1, <2>2, <2>3, FirstOne
    <2>. QED BY <2>4 DEF x, b
  <1>9. method(l) = t.method
    <2>1. ~(w < 0) /\ ~(0 + w > Len(l))
      BY <1>1, <1>3
    <2>2. substr(l, 0, w) = t.word
      BY <1>4, <2>1 DEF substr
    <2>. QED BY <1>3, <1>7, <2>2 DEF method
  <1>10. path(l) = t.path
    <2>1. (w + 1 + p) - w - 1 = p /\ ~(p < 0) /\ ~((w + 1) + p > Len(l))
      BY <1>1, <1>3
    <2>2. substr(l, w + 1, p) = t.path
      BY <1>5, <2>1 DEF substr
    <2>. QED BY <1>7, <1>8, <2>1, <2>2 DEF path
  <1>11. version(l) = t.version
    <2>1. npos < 0 /\ Len(l) = (w + 1 + p + 1) + v
      BY <1>1, <1>3 DEF npos
    <2>2. substr(l, w + 1 + p + 1, npos) = t.version
      BY <1>6, <2>1 DEF substr
    <2>. QED BY <1>7, <1>8, <2>2 DEF version
  <1>. QED BY <1>9, <1>10, <1>11 DEF l

(* The text before the first line end is the target line. *)
LEMMA TargetText ==
  ASSUME NEW s, NEW t, NEW fs, NEW at, Placed(s, t, fs, at)
  PROVE  substr(s, 0, Len(TargetLine(t))) = TargetLine(t)
  <1>. DEFINE l == TargetLine(t)
  <1>1. s \in Seq(Unit) /\ t \in Targets /\ LineAt(s, 0, l)
    BY DEF Placed
  <1>2. l \in Seq(Unit) /\ Len(l) \in Nat /\ Len(s) \in Nat
    <2>1. Len(s) \in Nat
      BY <1>1
    <2>2. l \in Seq(Unit)
      BY <1>1, TargetLineFacts
    <2>. QED BY <2>1, <2>2
  <1>. HIDE DEF l
  <1>3. 0 \in Nat /\ 0 + Len(l) <= Len(s) /\ \A i \in 1..Len(l) : s[0 + i] = l[i]
    BY <1>1, <1>2 DEF LineAt
  <1>4. SubSeq(s, 0 + 1, 0 + Len(l)) = l
    BY <1>1, <1>2, <1>3, SliceIs
  <1>5. ~(Len(l) < 0) /\ ~(0 + Len(l) > Len(s))
    BY <1>2, <1>3
  <1>6. substr(s, 0, Len(l)) = l
    BY <1>4, <1>5 DEF substr
  <1>. QED BY <1>6 DEF l

(* The body is what follows the blank line. *)
BodyRead(bd) == IF bd = <<>> THEN [kind |-> "value", value |-> NoBody] ELSE json_parse(bd)

(* What parse takes for the body is the body. *)
LEMMA BodyFound ==
  ASSUME NEW s \in Seq(Unit), NEW z \in Nat, z >= 2, NEW bl, NEW bd, Closed(s, z, bl, bd)
  PROVE  ParseBody(s, HeadersEnd(z, bl)) = BodyRead(bd)
  <1>1. bd \in Seq(STRING) /\ Len(bd) \in Nat /\ Len(s) \in Nat
    BY DEF Closed
  <1>2. bd \in Seq(Unit)
    BY <1>1, TextOfUnits
  <1>3. CASE ~bl
    <2>1. bd = <<>>
      BY <1>3 DEF Closed
    <2>. QED BY <1>3, <2>1 DEF ParseBody, HeadersEnd, BodyRead
  <1>4. CASE bl
    <2>1. Len(s) = z + (2 + Len(bd)) /\ \A j \in 1..Len(bd) : s[z + 2 + j] = bd[j]
      BY <1>4 DEF Closed
    <2>2. z - 2 # npos /\ (z - 2) + 4 = z + 2
      BY DEF npos
    <2>3. CASE bd = <<>>
      <3>1. (z - 2) + 4 = Len(s)
        BY <2>1, <2>2, <2>3
      <3>. QED BY <1>4, <2>3, <3>1 DEF ParseBody, HeadersEnd, BodyRead
    <2>4. CASE bd # <<>>
      <3>1. Len(bd) # 0
        BY <1>1, <2>4, EmptySeq
      <3>2. (z - 2) + 4 # Len(s)
        BY <1>1, <2>1, <2>2, <3>1
      <3>3. SubSeq(s, (z + 2) + 1, (z + 2) + Len(bd)) = bd
        <4>1. z + 2 \in Nat /\ (z + 2) + Len(bd) <= Len(s)
          BY <1>1, <2>1
        <4>. QED BY <1>1, <1>2, <2>1, <4>1, SliceIs
      <3>4. npos < 0 /\ Len(s) = (z + 2) + Len(bd)
        BY <1>1, <2>1 DEF npos
      <3>5. substr(s, z + 2, npos) = bd
        BY <3>3, <3>4 DEF substr
      <3>. QED BY <1>4, <2>2, <2>4, <3>2, <3>5 DEF ParseBody, HeadersEnd, BodyRead
    <2>. QED BY <2>3, <2>4
  <1>. QED BY <1>3, <1>4

(* The text scanned for header lines begins with them, and holds the blank *)
(* line when there is one: the target line has more than one unit, so that *)
(* a position taken for a count reaches far enough.                        *)
ScannedText(s, t, z, bl) == HeaderText(s, Len(TargetLine(t)), HeadersEnd(z, bl))
Shows(h, s, o, z, bl) ==
  /\ h \in Seq(Unit) /\ o + Len(h) <= Len(s) /\ z <= Len(h)
  /\ bl => z + 2 <= Len(h)
  /\ \A i \in 1..Len(h) : h[i] = s[o + i]

(* The text the header loop scans holds all the header lines. *)
LEMMA HeaderTextIs ==
  ASSUME NEW s, NEW t, NEW fs, NEW at, NEW bl, NEW bd, Placed(s, t, fs, at),
         Closed(s, Offset(t) + at[Len(fs) + 1], bl, bd)
  PROVE  Shows(ScannedText(s, t, Offset(t) + at[Len(fs) + 1], bl), s, Offset(t), at[Len(fs) + 1], bl)
  <1>. DEFINE o == Offset(t)
              z == at[Len(fs) + 1]
              e == IF bl THEN (o + z) - 2 ELSE npos
              h == HeaderText(s, Len(TargetLine(t)), e)
              M == IF e < 0 \/ o + e > Len(s) THEN Len(s) ELSE o + e
  <1>1. /\ s \in Seq(Unit) /\ t \in Targets /\ fs \in Seq(Fields) /\ Len(s) \in Nat
        /\ at \in [1..(Len(fs) + 1) -> Nat]
    BY DEF Placed
  <1>2. o \in Nat /\ o = Len(TargetLine(t)) + 2 /\ o >= 4 /\ z \in Nat
    <2>1. Len(fs) \in Nat
      BY <1>1
    <2>2. Len(fs) + 1 \in 1..(Len(fs) + 1)
      BY <2>1
    <2>3. Len(TargetLine(t)) \in Nat /\ Len(TargetLine(t)) >= 2
      BY <1>1, OffsetFacts
    <2>. QED BY <1>1, <2>2, <2>3 DEF Offset
  <1>3. h = SubSeq(s, o + 1, M)
    BY <1>2 DEF HeaderText, substr
  <1>4. Closed(s, o + z, bl, bd)
    OBVIOUS
  <1>. HIDE DEF o, z, h
  <1>5. M \in Nat /\ o + z <= M /\ M <= Len(s) /\ (bl => o + z + 2 <= M)
    <2>1. CASE bl
      <3>1. bd \in Seq(STRING) /\ Len(s) = o + z + (2 + Len(bd))
        BY <1>4, <2>1 DEF Closed
      <3>2. Len(bd) \in Nat
        BY <3>1
      <3>3. e = (o + z) - 2
        BY <2>1
      <3>. HIDE DEF e
      <3>4. e \in Int /\ ~(e < 0)
        BY <1>2, <3>3
      <3>5. CASE o + e > Len(s)
        BY <1>1, <1>2, <3>1, <3>2, <3>5
      <3>6. CASE ~(o + e > Len(s))
        BY <1>1, <1>2, <3>1, <3>2, <3>3, <3>4, <3>6
      <3>. QED BY <3>5, <3>6
    <2>2. CASE ~bl
      <3>1. Len(s) = o + z
        BY <1>2, <1>4, <2>2 DEF Closed
      <3>2. e < 0
        BY <2>2 DEF npos
      <3>. QED BY <1>1, <2>2, <3>1, <3>2
    <2>. QED BY <2>1, <2>2
  <1>. HIDE DEF M, e
  <1>6. o <= M /\ M - o \in Nat
    BY <1>2, <1>5
  <1>7. h \in Seq(Unit) /\ Len(h) = M - o /\ \A i \in 1..(M - o) : h[i] = s[o + i]
    BY <1>1, <1>2, <1>3, <1>5, <1>6, Slice
  <1>8. /\ o + Len(h) <= Len(s) /\ z <= Len(h)
        /\ bl => z + 2 <= Len(h)
    BY <1>1, <1>2, <1>5, <1>7
  <1>9. \A i \in 1..Len(h) : h[i] = s[o + i]
    BY <1>7
  <1>10. Shows(h, s, o, z, bl)
    BY <1>7, <1>8, <1>9 DEF Shows
  <1>. QED BY <1>10 DEF ScannedText, HeadersEnd, h, e, o, z

(* The lines of a header text: the header lines and the blank one, if any. *)
Count(fs, bl) == Len(fs) + (IF bl THEN 1 ELSE 0)
Width(fs, i) == IF i <= Len(fs) THEN Len(fs[i].line) ELSE 0
EndOf(fs, at, i) == at[i] + Width(fs, i)
LineOf(fs, at, i) == [beg |-> at[i], end |-> EndOf(fs, at, i)]

(* A text that begins with the lines and has no other line ends. *)
Scanned(h, fs, at, bl) ==
  /\ h \in Seq(Unit) /\ fs \in Seq(Fields) /\ at \in [1..(Len(fs) + 1) -> Nat]
  /\ bl \in BOOLEAN
  /\ at[1] = 0
  /\ \A i \in 1..Len(fs) : /\ at[i + 1] = at[i] + Len(fs[i].line) + 2 /\ at[i + 1] <= Len(h)
                           /\ \A j \in 1..Len(fs[i].line) : h[at[i] + j] = fs[i].line[j]
  /\ \A i, j \in 1..(Len(fs) + 1) : i < j => at[i] < at[j]
  /\ Ends(h) = {EndOf(fs, at, i) : i \in 1..Count(fs, bl)}

(* The line ends of the header text are those of the lines. *)
LEMMA TextScanned ==
  ASSUME NEW s, NEW t, NEW fs, NEW at, NEW bl, NEW bd, Placed(s, t, fs, at),
         Closed(s, Offset(t) + at[Len(fs) + 1], bl, bd), NoLineEnd(bd),
         NEW h, Shows(h, s, Offset(t), at[Len(fs) + 1], bl)
  PROVE  Scanned(h, fs, at, bl)
  <1>. DEFINE o == Offset(t)
              n == Len(fs)
              z == at[n + 1]
  <1>0. h \in Seq(Unit) /\ Len(h) \in Nat
    BY DEF Shows
  <1>1. /\ s \in Seq(Unit) /\ t \in Targets /\ fs \in Seq(Fields) /\ bl \in BOOLEAN
        /\ at \in [1..(n + 1) -> Nat] /\ Len(s) \in Nat /\ Len(h) \in Nat
    BY <1>0 DEF Placed, Closed
  <1>2. n \in Nat /\ o \in Nat /\ n + 1 \in 1..(n + 1)
    BY <1>1, OffsetFacts
  <1>3. z \in Nat
    BY <1>1, <1>2
  <1>4. Closed(s, o + z, bl, bd)
    OBVIOUS
  <1>5. \A k \in 0..(z - 1) : \E i \in 1..n : at[i] <= k /\ k < at[i + 1]
    BY DEF Placed
  <1>6. /\ o + Len(h) <= Len(s) /\ z <= Len(h) /\ (bl => z + 2 <= Len(h))
        /\ \A i \in 1..Len(h) : h[i] = s[o + i]
    BY DEF Shows
  <1>7. \A i, j \in 1..(n + 1) : i < j => at[i] < at[j]
    BY DEF Placed
  <1>. HIDE DEF o, n, z
  <1>8. ASSUME NEW k \in 0..(Len(h) - 2)
        PROVE  k \in Ends(h) <=> o + k \in Ends(s)
    <2>1. k + 1 \in 1..Len(h) /\ k + 2 \in 1..Len(h) /\ o + (k + 1) = o + k + 1 /\ o + (k + 2) = o + k + 2
      BY <1>1, <1>2
    <2>2. o + k \in 0..(Len(s) - 2)
      BY <1>1, <1>2, <1>6
    <2>3. h[k + 1] = s[o + k + 1] /\ h[k + 2] = s[o + k + 2]
      BY <1>6, <2>1
    <2>. QED BY <2>2, <2>3 DEF Ends
  <1>9. ASSUME NEW i \in 1..Count(fs, bl) PROVE EndOf(fs, at, i) \in Ends(h)
    <2>1. CASE i \in 1..n
      <3>. DEFINE l == fs[i].line
                  a == o + at[i]
      <3>1. /\ l \in Seq(Unit) /\ Len(l) \in Nat /\ NoLineEnd(l) /\ a \in Nat /\ LineAt(s, a, l)
            /\ at[i] \in Nat /\ at[i + 1] \in Nat /\ at[i + 1] = at[i] + Len(l) + 2
        BY <2>1, LineFacts DEF n, o
      <3>2. EndOf(fs, at, i) = at[i] + Len(l)
        BY <1>2, <2>1 DEF EndOf, Width, n, z
      <3>3. at[i + 1] <= z
        <4>1. i + 1 \in 1..(n + 1) /\ (i + 1 = n + 1 \/ i + 1 < n + 1)
          BY <1>2, <2>1
        <4>2. at[i + 1] = z \/ at[i + 1] < z
          BY <1>2, <1>7, <4>1 DEF z
        <4>3. at[i + 1] \in Nat
          BY <3>1
        <4>. QED BY <1>3, <4>2, <4>3
      <3>. HIDE DEF l
      <3>4. o \in Nat /\ at[i] \in Nat /\ Len(l) \in Nat /\ a \in Nat
            /\ at[i] + Len(l) + 2 <= z /\ z \in Nat /\ Len(h) \in Nat /\ z <= Len(h)
        BY <1>0, <1>2, <1>3, <1>6, <3>1, <3>3
      <3>5. at[i] + Len(l) \in 0..(Len(h) - 2) /\ o + (at[i] + Len(l)) = a + Len(l)
        <4>1. at[i] + Len(l) + 2 <= Len(h) /\ at[i] \in Nat /\ Len(l) \in Nat /\ o \in Nat /\ Len(h) \in Nat
          BY <3>4
        <4>2. at[i] + Len(l) \in 0..(Len(h) - 2)
          BY <4>1
        <4>3. o + (at[i] + Len(l)) = a + Len(l)
          BY <4>1
        <4>. QED BY <4>2, <4>3
      <3>6. a + Len(l) \in a..(a + Len(l) + 1)
        <4>. HIDE DEF a
        <4>. QED BY <3>4
      <3>. HIDE DEF a
      <3>7. a + Len(l) \in Ends(s)
        BY <1>1, <3>1, <3>6, LineEnds
      <3>8. at[i] + Len(l) \in Ends(h)
        BY <1>8, <3>5, <3>7
      <3>. QED BY <3>2, <3>8
    <2>2. CASE i \notin 1..n
      <3>1. bl /\ i = n + 1 /\ ~(i <= n)
        BY <1>1, <1>2, <2>2 DEF Count, n
      <3>2. EndOf(fs, at, i) = z
        BY <1>3, <3>1 DEF EndOf, Width, n, z
      <3>3. z \in 0..(Len(h) - 2)
        BY <1>1, <1>3, <1>6, <3>1
      <3>4. s[o + z + 1] = CR /\ s[o + z + 2] = LF
        BY <1>4, <3>1 DEF Closed
      <3>5. o + z \in 0..(Len(s) - 2)
        BY <1>1, <1>2, <1>6, <3>3
      <3>6. o + z \in Ends(s)
        BY <3>4, <3>5 DEF Ends
      <3>. QED BY <1>8, <3>2, <3>3, <3>6
    <2>. QED BY <2>1, <2>2
  <1>10. ASSUME NEW k \in Ends(h) PROVE \E i \in 1..Count(fs, bl) : k = EndOf(fs, at, i)
    <2>1. k \in 0..(Len(h) - 2) /\ k \in Nat
      BY DEF Ends
    <2>2. o + k \in Ends(s)
      BY <1>8, <2>1
    <2>3. CASE k < z
      <3>1. k \in 0..(z - 1)
        BY <1>3, <2>1, <2>3
      <3>2. PICK i \in 1..n : at[i] <= k /\ k < at[i + 1]
        BY <1>5, <3>1
      <3>. DEFINE l == fs[i].line
                  a == o + at[i]
      <3>3. /\ l \in Seq(Unit) /\ Len(l) \in Nat /\ NoLineEnd(l) /\ a \in Nat /\ LineAt(s, a, l)
            /\ at[i] \in Nat /\ at[i + 1] \in Nat /\ at[i + 1] = at[i] + Len(l) + 2
        BY LineFacts DEF n, o
      <3>4. EndOf(fs, at, i) = at[i] + Len(l)
        BY <1>2 DEF EndOf, Width, n, z
      <3>. HIDE DEF l
      <3>5. /\ o \in Nat /\ at[i] \in Nat /\ Len(l) \in Nat
            /\ at[i] <= k /\ k < at[i] + Len(l) + 2 /\ k \in Nat
        BY <1>2, <2>1, <3>2, <3>3
      <3>6. o + k \in a..(a + Len(l) + 1)
        BY <3>5
      <3>7. o + k = a + Len(l)
        <4>. HIDE DEF a
        <4>. QED BY <1>1, <2>2, <3>3, <3>6, LineEnds
      <3>8. k = at[i] + Len(l)
        BY <3>5, <3>7
      <3>9. i \in 1..Count(fs, bl)
        BY <1>1, <1>2 DEF Count, n
      <3>. QED BY <3>4, <3>8, <3>9
    <2>4. CASE ~(k < z)
      <3>1. bl
        <4>1. CASE ~bl
          <5>1. Len(s) = o + z + 0
            BY <1>4, <4>1 DEF Closed
          <5>. QED BY <1>1, <1>2, <1>3, <1>6, <2>1, <2>4, <5>1
        <4>. QED BY <4>1
      <3>2. /\ bd \in Seq(STRING) /\ Len(s) = o + z + (2 + Len(bd))
            /\ s[o + z + 1] = CR /\ s[o + z + 2] = LF
            /\ \A j \in 1..Len(bd) : s[o + z + 2 + j] = bd[j]
        BY <1>4, <3>1 DEF Closed
      <3>3. Len(bd) \in Nat
        BY <3>2
      <3>4. s[o + k + 1] = CR /\ s[o + k + 2] = LF /\ o + k + 2 <= Len(s)
        BY <1>1, <1>2, <2>1, <2>2 DEF Ends
      <3>5. CASE k = z
        <4>1. n + 1 \in 1..Count(fs, bl) /\ ~(n + 1 <= n)
          BY <1>2, <3>1 DEF Count, n
        <4>2. EndOf(fs, at, n + 1) = k
          BY <1>3, <3>5, <4>1 DEF EndOf, Width, n, z
        <4>. QED BY <4>1, <4>2
      <3>6. CASE k = z + 1
        <4>1. o + k + 1 = o + z + 2
          BY <1>2, <1>3, <3>6
        <4>. QED BY <3>2, <3>4, <4>1, Distinct
      <3>7. CASE k > z + 1
        <4>. DEFINE j == (k - z) - 1
        <4>1. /\ j \in 1..(Len(bd) - 1) /\ j \in 1..Len(bd) /\ j + 1 \in 1..Len(bd)
              /\ o + z + 2 + j = o + k + 1 /\ o + z + 2 + (j + 1) = o + k + 2
          <5>1. Len(s) = o + z + (2 + Len(bd)) /\ o + k + 2 <= Len(s)
            BY <3>2, <3>4
          <5>. QED BY <1>1, <1>2, <1>3, <2>1, <3>3, <3>7, <5>1
        <4>. HIDE DEF j
        <4>2. bd[j] = CR /\ bd[j + 1] = LF
          BY <3>2, <3>4, <4>1
        <4>. QED BY <4>1, <4>2 DEF NoLineEnd, LineEnd
      <3>8. k = z \/ k = z + 1 \/ k > z + 1
        BY <1>3, <2>1, <2>4
      <3>. QED BY <3>5, <3>6, <3>7, <3>8
    <2>. QED BY <2>3, <2>4
  <1>11. ASSUME NEW i \in 1..n
        PROVE  /\ at[i + 1] = at[i] + Len(fs[i].line) + 2 /\ at[i + 1] <= Len(h)
               /\ \A j \in 1..Len(fs[i].line) : h[at[i] + j] = fs[i].line[j]
    <2>. DEFINE l == fs[i].line
    <2>1. /\ l \in Seq(Unit) /\ Len(l) \in Nat /\ LineAt(s, o + at[i], l)
          /\ at[i] \in Nat /\ at[i + 1] \in Nat /\ at[i + 1] = at[i] + Len(l) + 2
      BY LineFacts DEF n, o
    <2>2. at[i + 1] <= z
      <3>1. i + 1 \in 1..(n + 1) /\ (i + 1 = n + 1 \/ i + 1 < n + 1)
        BY <1>2
      <3>2. at[i + 1] = z \/ at[i + 1] < z
        BY <1>2, <1>7, <3>1 DEF z
      <3>3. at[i + 1] \in Nat
        BY <2>1
      <3>. QED BY <1>3, <3>2, <3>3
    <2>3. at[i + 1] <= Len(h)
      BY <1>1, <1>3, <1>6, <2>1, <2>2
    <2>4. ASSUME NEW j \in 1..Len(l) PROVE h[at[i] + j] = l[j]
      <3>1. at[i] + j \in 1..Len(h) /\ o + (at[i] + j) = o + at[i] + j
        <4>1. /\ o \in Nat /\ at[i] \in Nat /\ Len(l) \in Nat /\ Len(h) \in Nat
              /\ at[i] + Len(l) + 2 <= Len(h)
          BY <1>0, <1>2, <2>1, <2>3
        <4>. HIDE DEF l
        <4>2. j \in Nat /\ 1 <= j /\ j <= Len(l)
          BY <4>1
        <4>. QED BY <4>1, <4>2
      <3>2. s[o + at[i] + j] = l[j]
        BY <2>1 DEF LineAt
      <3>. QED BY <1>6, <3>1, <3>2
    <2>. QED BY <2>1, <2>3, <2>4
  <1>12. Ends(h) = {EndOf(fs, at, i) : i \in 1..Count(fs, bl)}
    BY <1>9, <1>10
  <1>13. at[1] = 0
    BY DEF Placed
  <1>. QED BY <1>0, <1>1, <1>7, <1>11, <1>12, <1>13 DEF Scanned, n

(* The lines come one after the other. *)
LEMMA LineOrder ==
  ASSUME NEW h, NEW fs, NEW at, NEW bl, Scanned(h, fs, at, bl)
  PROVE  /\ Len(fs) \in Nat /\ Count(fs, bl) \in Nat /\ Count(fs, bl) <= Len(fs) + 1
         /\ Len(fs) <= Count(fs, bl)
         /\ \A i \in 1..Count(fs, bl) : /\ at[i] \in Nat /\ EndOf(fs, at, i) \in Nat
                                        /\ at[i] <= EndOf(fs, at, i)
         /\ \A i \in 1..Len(fs) : at[i + 1] = EndOf(fs, at, i) + 2
         /\ \A i, j \in 1..Count(fs, bl) : i < j => EndOf(fs, at, i) < at[j]
         /\ \A i, j \in 1..Count(fs, bl) : EndOf(fs, at, i) <= EndOf(fs, at, j) => i <= j
  <1>. DEFINE n == Len(fs)
              c == Count(fs, bl)
              E(i) == EndOf(fs, at, i)
  <1>1. fs \in Seq(Fields) /\ at \in [1..(n + 1) -> Nat] /\ bl \in BOOLEAN
    BY DEF Scanned
  <1>2. n \in Nat /\ c \in Nat /\ c <= n + 1 /\ n <= c
    <2>1. n \in Nat
      BY <1>1
    <2>. QED BY <1>1, <2>1 DEF Count
  <1>3. ASSUME NEW i \in 1..n
        PROVE  Len(fs[i].line) \in Nat /\ EndOf(fs, at, i) = at[i] + Len(fs[i].line)
               /\ at[i + 1] = at[i] + Len(fs[i].line) + 2
    <2>1. fs[i] \in Fields
      BY <1>1
    <2>2. Len(fs[i].line) \in Nat
      BY <2>1, FieldFacts
    <2>3. i <= n
      BY <1>2
    <2>. QED BY <2>2, <2>3 DEF EndOf, Width, Scanned
  <1>4. \A i, j \in 1..(n + 1) : i < j => at[i] < at[j]
    BY DEF Scanned
  <1>. HIDE DEF n, c
  <1>5. ASSUME NEW i \in 1..c PROVE at[i] \in Nat /\ E(i) \in Nat /\ at[i] <= E(i)
    <2>1. i \in 1..(n + 1)
      BY <1>2
    <2>2. at[i] \in Nat
      BY <1>1, <2>1
    <2>3. CASE i <= n
      <3>1. i \in 1..n
        BY <1>2, <2>3
      <3>2. Len(fs[i].line) \in Nat /\ E(i) = at[i] + Len(fs[i].line)
        BY <1>3, <3>1
      <3>. HIDE DEF E
      <3>. QED BY <2>2, <3>2
    <2>4. CASE ~(i <= n)
      <3>1. E(i) = at[i] + 0
        BY <2>4 DEF EndOf, Width, n
      <3>. HIDE DEF E
      <3>. QED BY <2>2, <3>1
    <2>. QED BY <2>3, <2>4
  <1>6. ASSUME NEW i \in 1..n PROVE at[i + 1] = E(i) + 2
    <2>1. i \in 1..(n + 1)
      BY <1>2
    <2>2. at[i] \in Nat
      BY <1>1, <2>1
    <2>3. Len(fs[i].line) \in Nat /\ E(i) = at[i] + Len(fs[i].line) /\ at[i + 1] = at[i] + Len(fs[i].line) + 2
      BY <1>3
    <2>. QED BY <2>2, <2>3
  <1>7. ASSUME NEW i \in 1..c, NEW j \in 1..c, i < j PROVE E(i) < at[j]
    <2>1. i \in 1..n /\ i + 1 \in 1..(n + 1) /\ j \in 1..(n + 1) /\ (i + 1 = j \/ i + 1 < j)
      BY <1>2, <1>7
    <2>2. at[i + 1] = at[j] \/ at[i + 1] < at[j]
      BY <1>4, <2>1
    <2>3. at[j] \in Nat /\ E(i) \in Nat /\ at[i + 1] = E(i) + 2
      BY <1>5, <1>6, <2>1
    <2>. HIDE DEF E
    <2>. QED BY <2>2, <2>3
  <1>. HIDE DEF E
  <1>8. ASSUME NEW i \in 1..c, NEW j \in 1..c, E(i) <= E(j) PROVE i <= j
    <2>1. CASE j < i
      <3>1. E(j) < at[i] /\ at[i] <= E(i) /\ E(i) \in Nat /\ E(j) \in Nat /\ at[i] \in Nat
        BY <1>5, <1>7, <2>1
      <3>. QED BY <1>8, <3>1
    <2>. QED BY <1>2, <2>1
  <1>. QED BY <1>2, <1>5, <1>6, <1>7, <1>8 DEF n, c, E

(* The loop visits the lines, from their beginning to their end. *)
LEMMA LinesAre ==
  ASSUME NEW h, NEW fs, NEW at, NEW bl, Scanned(h, fs, at, bl)
  PROVE  Lines(h) = {LineOf(fs, at, i) : i \in 1..Count(fs, bl)}
  <1>. DEFINE n == Len(fs)
              c == Count(fs, bl)
              E(i) == EndOf(fs, at, i)
              begs == {0} \cup {e + 2 : e \in Ends(h)}
  <1>1. /\ n \in Nat /\ c \in Nat /\ c <= n + 1 /\ n <= c
        /\ \A i \in 1..c : at[i] \in Nat /\ E(i) \in Nat /\ at[i] <= E(i)
        /\ \A i \in 1..n : at[i + 1] = E(i) + 2
        /\ \A i, j \in 1..c : i < j => E(i) < at[j]
        /\ \A i, j \in 1..c : E(i) <= E(j) => i <= j
    BY LineOrder
  <1>2. h \in Seq(Unit) /\ at[1] = 0 /\ Ends(h) = {E(i) : i \in 1..c}
    BY DEF Scanned
  <1>3. Lines(h) = {l \in [beg : begs, end : Ends(h)] :
                      l.beg <= l.end /\ \A e \in Ends(h) : e < l.beg \/ l.end <= e}
    <2>1. {i \in 0..(Len(h) - 2) : SubSeq(h, i+1, i+2) = CRLF} = Ends(h)
      BY <1>2, PairAt DEF Ends
    <2>. QED BY <2>1 DEF Lines
  <1>4. ASSUME NEW i \in 1..c PROVE LineOf(fs, at, i) = [beg |-> at[i], end |-> E(i)]
    BY DEF LineOf
  <1>. HIDE DEF n, c, E
  <1>5. ASSUME NEW l \in Lines(h) PROVE \E i \in 1..c : l = [beg |-> at[i], end |-> E(i)]
    <2>1. /\ l \in [beg : begs, end : Ends(h)] /\ l.beg <= l.end
          /\ \A e \in Ends(h) : e < l.beg \/ l.end <= e
      BY <1>3
    <2>2. PICK j \in 1..c : l.end = E(j)
      BY <1>2, <2>1
    <2>3. l.beg \in begs /\ l = [beg |-> l.beg, end |-> E(j)]
      BY <2>1, <2>2
    <2>. DEFINE b == l.beg
    <2>4. b <= E(j) /\ \A i \in 1..c : E(i) < b \/ E(j) <= E(i)
      BY <1>2, <2>1, <2>2
    <2>5. b \in begs
      BY <2>3
    <2>. HIDE DEF b
    <2>6. b = at[j]
      <3>1. CASE b = 0
        <4>1. 1 \in 1..c
          BY <1>1
        <4>2. E(1) \in Nat /\ E(j) <= E(1)
          BY <1>1, <2>4, <3>1, <4>1
        <4>3. j <= 1
          BY <1>1, <4>1, <4>2
        <4>4. j = 1
          BY <1>1, <4>3
        <4>. QED BY <1>2, <3>1, <4>4
      <3>2. CASE b # 0
        <4>1. PICK i \in 1..c : b = E(i) + 2
          BY <1>2, <2>5, <3>2
        <4>2. E(i) \in Nat /\ E(j) \in Nat
          BY <1>1
        <4>3. ~(E(j) <= E(i))
          BY <2>4, <4>1, <4>2
        <4>4. E(i) <= E(j)
          BY <4>2, <4>3
        <4>5. i <= j /\ i # j
          BY <1>1, <4>2, <4>3, <4>4
        <4>6. i \in 1..n /\ i + 1 \in 1..c /\ i + 1 <= j
          BY <1>1, <4>5
        <4>7. b = at[i + 1]
          BY <1>1, <4>1, <4>6
        <4>8. E(j) <= E(i + 1)
          <5>1. b \in Nat /\ b <= E(i + 1) /\ E(i + 1) \in Nat
            BY <1>1, <4>6, <4>7
          <5>2. ~(E(i + 1) < b)
            BY <5>1
          <5>. QED BY <2>4, <4>6, <5>2
        <4>9. j <= i + 1
          BY <1>1, <4>6, <4>8
        <4>10. j = i + 1
          BY <1>1, <4>6, <4>9
        <4>. QED BY <4>7, <4>10
      <3>. QED BY <3>1, <3>2
    <2>. QED BY <2>3, <2>6 DEF b
  <1>6. ASSUME NEW i \in 1..c PROVE [beg |-> at[i], end |-> E(i)] \in Lines(h)
    <2>1. E(i) \in Ends(h)
      BY <1>2
    <2>2. at[i] \in begs
      <3>1. CASE i = 1
        BY <1>2, <3>1
      <3>2. CASE i # 1
        <4>. DEFINE k == i - 1
        <4>1. k \in 1..n /\ k \in 1..c /\ k + 1 = i
          BY <1>1, <3>2
        <4>. HIDE DEF k
        <4>2. at[i] = E(k) + 2 /\ E(k) \in Ends(h)
          BY <1>1, <1>2, <4>1
        <4>. QED BY <4>2
      <3>. QED BY <3>1, <3>2
    <2>3. ASSUME NEW e \in Ends(h) PROVE e < at[i] \/ E(i) <= e
      <3>1. PICK j \in 1..c : e = E(j)
        BY <1>2
      <3>2. CASE j < i
        BY <1>1, <3>1, <3>2
      <3>3. CASE j = i
        <4>1. E(i) \in Nat
          BY <1>1
        <4>. QED BY <3>1, <3>3, <4>1
      <3>4. CASE i < j
        <4>1. E(i) < at[j] /\ at[j] <= E(j) /\ E(i) \in Nat /\ at[j] \in Nat /\ E(j) \in Nat
          BY <1>1, <3>4
        <4>. QED BY <3>1, <4>1
      <3>. QED BY <1>1, <3>2, <3>3, <3>4
    <2>4. at[i] <= E(i)
      BY <1>1
    <2>. HIDE DEF begs
    <2>. QED BY <1>3, <2>1, <2>2, <2>3, <2>4
  <1>7. Lines(h) = {[beg |-> at[i], end |-> E(i)] : i \in 1..c}
    BY <1>5, <1>6
  <1>. QED BY <1>4, <1>7 DEF c

-----------------------------------------------------------------------------
(* Header fields *)

NamedOf(fs) == {i \in 1..Len(fs) : fs[i].colon > 0}
NameOf(f) == tolowers(SubSeq(f.line, 1, f.colon - 1))
ValueOf(f) == Trim(SubSeq(f.line, f.colon + 1, Len(f.line)))

(* A piece of a line, cut out of the text the line is in. *)
LEMMA Piece ==
  ASSUME NEW h \in Seq(Unit), NEW l \in Seq(Unit), NEW a \in Nat, a + Len(l) <= Len(h),
         \A j \in 1..Len(l) : h[a + j] = l[j],
         NEW p \in Nat, NEW q \in Nat, p <= q, q <= Len(l)
  PROVE  SubSeq(h, (a + p) + 1, a + q) = SubSeq(l, p + 1, q)
  <1>. DEFINE x == a + p
              y == a + q
              u == SubSeq(h, x + 1, y)
              v == SubSeq(l, p + 1, q)
  <1>0. Len(l) \in Nat /\ Len(h) \in Nat
    OBVIOUS
  <1>1. x \in Nat /\ y \in Nat /\ x <= y /\ y <= Len(h) /\ y - x = q - p /\ q - p \in Nat
    BY <1>0
  <1>2. ASSUME NEW i \in 1..(q - p) PROVE p + i \in 1..Len(l) /\ x + i = a + (p + i)
    BY <1>0
  <1>. HIDE DEF x, y
  <1>3. u \in Seq(Unit) /\ Len(u) = y - x /\ \A i \in 1..(y - x) : u[i] = h[x + i]
    BY <1>1, Slice
  <1>4. v \in Seq(Unit) /\ Len(v) = q - p /\ \A i \in 1..(q - p) : v[i] = l[p + i]
    BY Slice
  <1>. HIDE DEF u, v
  <1>5. ASSUME NEW i \in 1..(q - p) PROVE u[i] = v[i]
    <2>1. u[i] = h[x + i]
      BY <1>1, <1>3
    <2>2. p + i \in 1..Len(l) /\ x + i = a + (p + i)
      BY <1>2
    <2>3. h[a + (p + i)] = l[p + i]
      BY <2>2
    <2>4. v[i] = l[p + i]
      BY <1>4
    <2>. QED BY <2>1, <2>2, <2>3, <2>4
  <1>6. u = v
    BY <1>1, <1>3, <1>4, <1>5, SeqEqual
  <1>. QED BY <1>6 DEF u, v, x, y

(* A header line has its colon where the client put it; in a line without  *)
(* one the search finds nothing, or something behind the line.             *)
LEMMA ColonIs ==
  ASSUME NEW h, NEW fs, NEW at, NEW bl, Scanned(h, fs, at, bl), NEW i \in 1..Count(fs, bl)
  PROVE  LET l == LineOf(fs, at, i) IN
           /\ i \in NamedOf(fs) => Colon(h, l) = (at[i] + fs[i].colon) - 1 /\ Colon(h, l) < l.end
                                   /\ Colon(h, l) # npos
           /\ i \notin NamedOf(fs) => Colon(h, l) = npos \/ ~(Colon(h, l) < l.end)
  <1>. DEFINE l == LineOf(fs, at, i)
              e == EndOf(fs, at, i)
              C == Colon(h, l)
  <1>1. h \in Seq(Unit) /\ fs \in Seq(Fields) /\ Len(fs) \in Nat /\ Len(h) \in Nat
    BY DEF Scanned
  <1>2. at[i] \in Nat /\ e \in Nat /\ at[i] <= e /\ l.beg = at[i] /\ l.end = e
    BY LineOrder DEF LineOf
  <1>3. C = findFrom(h, <<COLON>>, at[i])
    BY <1>2 DEF Colon
  <1>. HIDE DEF l, e, C
  <1>4. ASSUME i \in 1..Len(fs)
        PROVE  LET f == fs[i] IN
               /\ f.colon \in 0..Len(f.line) /\ Len(f.line) \in Nat
               /\ f.colon > 0 => f.line[f.colon] = COLON
               /\ \A j \in 1..Len(f.line) : f.line[j] = COLON => f.colon \in 1..j
               /\ \A j \in 1..Len(f.line) : h[at[i] + j] = f.line[j]
               /\ e = at[i] + Len(f.line) /\ e + 2 <= Len(h)
    <2>1. fs[i] \in Fields
      BY <1>1, <1>4
    <2>2. at[i + 1] = e + 2 /\ at[i + 1] <= Len(h)
      <3>1. at[i + 1] = e + 2
        BY <1>4, LineOrder DEF e
      <3>2. at[i + 1] <= Len(h)
        BY <1>4 DEF Scanned
      <3>. QED BY <3>1, <3>2
    <2>3. e = at[i] + Len(fs[i].line)
      BY <1>1, <1>4 DEF EndOf, Width, e
    <2>4. \A j \in 1..Len(fs[i].line) : h[at[i] + j] = fs[i].line[j]
      BY <1>4 DEF Scanned
    <2>. QED BY <2>1, <2>2, <2>3, <2>4, FieldFacts
  <1>5. ASSUME i \in NamedOf(fs)
        PROVE  C = (at[i] + fs[i].colon) - 1 /\ C < e /\ C # npos
    <2>. DEFINE f == fs[i]
                m == Len(f.line)
                k == f.colon
                x == (at[i] + k) - 1
    <2>1. i \in 1..Len(fs) /\ k > 0
      BY <1>5 DEF NamedOf
    <2>2. /\ k \in 0..m /\ m \in Nat /\ f.line[k] = COLON
          /\ \A j \in 1..m : f.line[j] = COLON => k \in 1..j
          /\ \A j \in 1..m : h[at[i] + j] = f.line[j]
          /\ e = at[i] + m /\ e + 2 <= Len(h)
      BY <1>4, <2>1
    <2>. HIDE DEF k, m, f
    <2>3. k \in 1..m /\ x \in Nat /\ x + 1 = at[i] + k /\ x < e /\ x # npos /\ x \in at[i]..(Len(h) - 1)
      <3>1. /\ at[i] \in Nat /\ k \in Nat /\ m \in Nat /\ Len(h) \in Nat /\ 1 <= k /\ k <= m
            /\ e = at[i] + m /\ at[i] + m + 2 <= Len(h)
        BY <1>1, <1>2, <2>1, <2>2
      <3>2. x \in Nat /\ x + 1 = at[i] + k /\ x < e
        BY <3>1
      <3>3. x # npos
        BY <3>2 DEF npos
      <3>4. k \in 1..m /\ x \in at[i]..(Len(h) - 1)
        BY <3>1
      <3>. QED BY <3>2, <3>3, <3>4
    <2>. HIDE DEF x
    <2>4. h[x + 1] = COLON
      BY <2>2, <2>3
    <2>5. ASSUME NEW y \in at[i]..(x - 1) PROVE h[y + 1] # COLON
      <3>. DEFINE j == (y + 1) - at[i]
      <3>1. j \in 1..m /\ y + 1 = at[i] + j /\ j < k
        <4>1. /\ at[i] \in Nat /\ k \in Nat /\ m \in Nat /\ x \in Nat /\ k <= m
              /\ x + 1 = at[i] + k
          BY <1>2, <2>2, <2>3
        <4>2. y \in Int /\ at[i] <= y /\ y <= x - 1
          BY <4>1
        <4>. QED BY <4>1, <4>2
      <3>. HIDE DEF j
      <3>2. CASE f.line[j] = COLON
        <4>1. k \in 1..j
          BY <2>2, <3>1, <3>2
        <4>. QED BY <2>2, <3>1, <4>1
      <3>3. h[at[i] + j] = f.line[j]
        BY <2>2, <3>1
      <3>. QED BY <3>1, <3>2, <3>3
    <2>6. findFrom(h, <<COLON>>, at[i]) = x
      <3>. DEFINE b == at[i]
      <3>1. h \in Seq(Unit) /\ b \in Nat /\ x \in b..(Len(h) - 1)
        BY <1>1, <1>2, <2>3
      <3>2. \A y \in b..(x - 1) : h[y + 1] # COLON
        BY <2>5
      <3>. HIDE DEF b
      <3>3. findFrom(h, <<COLON>>, b) = x
        BY <2>4, <3>1, <3>2, FirstOne
      <3>. QED BY <3>3 DEF b
    <2>. QED BY <1>3, <2>3, <2>6 DEF x, k, f
  <1>6. ASSUME i \notin NamedOf(fs) PROVE C = npos \/ ~(C < e)
    <2>1. ASSUME NEW y \in Hits(h, COLON, at[i]) PROVE ~(y < e)
      <3>1. y \in at[i]..(Len(h) - 1) /\ h[y + 1] = COLON /\ y \in Int
        BY <1>2 DEF Hits
      <3>2. CASE i \in 1..Len(fs)
        <4>. DEFINE f == fs[i]
                    m == Len(f.line)
                    j == (y + 1) - at[i]
        <4>1. /\ f.colon \in 0..m /\ m \in Nat
              /\ \A q \in 1..m : f.line[q] = COLON => f.colon \in 1..q
              /\ \A q \in 1..m : h[at[i] + q] = f.line[q]
              /\ e = at[i] + m
          BY <1>4, <3>2
        <4>2. ~(f.colon > 0)
          BY <1>6, <3>2 DEF NamedOf
        <4>. HIDE DEF f, m
        <4>3. CASE y < e
          <5>1. j \in 1..m /\ y + 1 = at[i] + j
            BY <1>2, <3>1, <4>1, <4>3
          <5>. HIDE DEF j
          <5>2. f.line[j] = COLON
            BY <3>1, <4>1, <5>1
          <5>3. f.colon \in 1..j
            BY <4>1, <5>1, <5>2
          <5>. QED BY <4>1, <4>2, <5>1, <5>3
        <4>. QED BY <4>3
      <3>3. CASE i \notin 1..Len(fs)
        <4>1. ~(i <= Len(fs))
          BY <1>1, <3>3
        <4>2. e = at[i] + 0
          BY <4>1 DEF e, EndOf, Width
        <4>. QED BY <1>2, <3>1, <4>2
      <3>. QED BY <3>2, <3>3
    <2>2. C = IF Hits(h, COLON, at[i]) = {} THEN npos ELSE Min(Hits(h, COLON, at[i]))
      BY <1>1, <1>2, <1>3, FindOne
    <2>3. CASE Hits(h, COLON, at[i]) # {}
      <3>1. Hits(h, COLON, at[i]) \subseteq Nat
        BY <1>2 DEF Hits
      <3>2. Min(Hits(h, COLON, at[i])) \in Hits(h, COLON, at[i])
        BY <2>3, <3>1, MinIsFirst
      <3>. QED BY <2>1, <2>2, <2>3, <3>2
    <2>. QED BY <2>2, <2>3
  <1>. QED BY <1>2, <1>5, <1>6 DEF C, l

(* The lines the loop reads are the client's lines with a colon. *)
LEMMA HeaderLinesAre ==
  ASSUME NEW h, NEW fs, NEW at, NEW bl, Scanned(h, fs, at, bl)
  PROVE  HeaderLines(h) = {LineOf(fs, at, i) : i \in NamedOf(fs)}
  <1>1. Lines(h) = {LineOf(fs, at, i) : i \in 1..Count(fs, bl)}
    BY LinesAre
  <1>2. ASSUME NEW i \in NamedOf(fs) PROVE i \in 1..Count(fs, bl)
    BY LineOrder DEF NamedOf
  <1>3. ASSUME NEW i \in 1..Count(fs, bl)
        PROVE  LineOf(fs, at, i) \in HeaderLines(h) <=> i \in NamedOf(fs)
    <2>. DEFINE l == LineOf(fs, at, i)
    <2>1. l \in Lines(h)
      BY <1>1
    <2>2. (Colon(h, l) # npos /\ Colon(h, l) < l.end) <=> i \in NamedOf(fs)
      BY ColonIs
    <2>. HIDE DEF l
    <2>3. l \in HeaderLines(h) <=> i \in NamedOf(fs)
      BY <2>1, <2>2 DEF HeaderLines
    <2>. QED BY <2>3 DEF l
  <1>4. ASSUME NEW l \in HeaderLines(h) PROVE \E i \in NamedOf(fs) : l = LineOf(fs, at, i)
    <2>1. PICK i \in 1..Count(fs, bl) : l = LineOf(fs, at, i)
      BY <1>1 DEF HeaderLines
    <2>. QED BY <1>3, <2>1
  <1>. QED BY <1>2, <1>3, <1>4

(* A header line is read as the field the client meant. *)
LEMMA FieldRead ==
  ASSUME NEW h, NEW fs, NEW at, NEW bl, Scanned(h, fs, at, bl), NEW i \in NamedOf(fs)
  PROVE  /\ HeaderKey(h, LineOf(fs, at, i)) = NameOf(fs[i])
         /\ HeaderValue(h, LineOf(fs, at, i)) = ValueOf(fs[i])
  <1>. DEFINE f == fs[i]
              k == f.colon
              m == Len(f.line)
              a == at[i]
              r == LineOf(fs, at, i)
  <1>1. h \in Seq(Unit) /\ fs \in Seq(Fields) /\ Len(h) \in Nat /\ i \in 1..Len(fs) /\ k > 0
    BY DEF Scanned, NamedOf
  <1>2. f \in Fields
    BY <1>1
  <1>3. f.line \in Seq(Unit) /\ k \in 0..m /\ m \in Nat
    BY <1>2, FieldFacts
  <1>4. i \in 1..Count(fs, bl)
    BY <1>1, LineOrder
  <1>5. Colon(h, r) = (a + k) - 1
    BY <1>4, ColonIs
  <1>6. /\ a \in Nat /\ r.beg = a /\ r.end = EndOf(fs, at, i) /\ EndOf(fs, at, i) = a + m
        /\ at[i + 1] = EndOf(fs, at, i) + 2 /\ at[i + 1] <= Len(h)
        /\ \A j \in 1..m : h[a + j] = f.line[j]
    <2>1. a \in Nat /\ at[i + 1] = EndOf(fs, at, i) + 2
      BY <1>1, <1>4, LineOrder
    <2>2. r.beg = a /\ r.end = EndOf(fs, at, i)
      BY DEF LineOf
    <2>3. EndOf(fs, at, i) = a + m
      BY <1>1 DEF EndOf, Width
    <2>4. at[i + 1] <= Len(h) /\ \A j \in 1..m : h[a + j] = f.line[j]
      BY <1>1 DEF Scanned
    <2>. QED BY <2>1, <2>2, <2>3, <2>4
  <1>7. a + m + 2 <= Len(h) /\ r.end = a + m
    BY <1>6
  <1>. DEFINE L == f.line
  <1>8. SubSeq(h, (a + 0) + 1, a + (k - 1)) = SubSeq(L, 0 + 1, k - 1)
    <2>1. 0 \in Nat /\ k - 1 \in Nat /\ 0 <= k - 1 /\ k - 1 <= Len(L) /\ a + Len(L) <= Len(h)
      BY <1>1, <1>3, <1>6, <1>7
    <2>. HIDE DEF a, k, L
    <2>. QED BY <1>1, <1>3, <1>6, <2>1, Piece DEF L
  <1>9. SubSeq(h, (a + k) + 1, a + m) = SubSeq(L, k + 1, m)
    <2>1. k \in Nat /\ k <= Len(L) /\ a + Len(L) <= Len(h)
      BY <1>1, <1>3, <1>6, <1>7
    <2>. HIDE DEF a, k
    <2>. QED BY <1>1, <1>3, <1>6, <2>1, Piece
  <1>. HIDE DEF a, k, m, r, L
  <1>10. substr(h, r.beg, Colon(h, r) - r.beg) = SubSeq(L, 1, k - 1)
    <2>1. /\ ((a + k) - 1) - a = k - 1 /\ ~(k - 1 < 0) /\ ~(a + (k - 1) > Len(h))
          /\ (a + 0) + 1 = a + 1 /\ 0 + 1 = 1
      BY <1>1, <1>3, <1>6, <1>7
    <2>2. substr(h, a, k - 1) = SubSeq(h, a + 1, a + (k - 1))
      BY <2>1 DEF substr
    <2>. QED BY <1>5, <1>6, <1>8, <2>1, <2>2
  <1>11. substr(h, Colon(h, r) + 1, r.end - Colon(h, r) - 1) = SubSeq(L, k + 1, m)
    <2>1. /\ ((a + k) - 1) + 1 = a + k /\ (a + m) - ((a + k) - 1) - 1 = m - k
          /\ ~(m - k < 0) /\ ~((a + k) + (m - k) > Len(h)) /\ (a + k) + (m - k) = a + m
      BY <1>1, <1>3, <1>6, <1>7
    <2>2. substr(h, a + k, m - k) = SubSeq(h, (a + k) + 1, a + m)
      BY <2>1 DEF substr
    <2>. QED BY <1>5, <1>7, <1>9, <2>1, <2>2
  <1>12. HeaderKey(h, r) = NameOf(f)
    BY <1>10 DEF HeaderKey, NameOf, k, L
  <1>13. HeaderValue(h, r) = ValueOf(f)
    BY <1>11 DEF HeaderValue, ValueOf, k, L, m
  <1>. QED BY <1>12, <1>13 DEF r

MeantBy(fs) ==
  [k \in {NameOf(fs[i]) : i \in NamedOf(fs)} |->
     ValueOf(fs[Max({i \in NamedOf(fs) : NameOf(fs[i]) = k})])]

(* Of the lines with one name the header map keeps the last. *)
LEMMA HeadersAre ==
  ASSUME NEW h, NEW fs, NEW at, NEW bl, Scanned(h, fs, at, bl)
  PROVE  Headers(h) = MeantBy(fs)
  <1>. DEFINE N == NamedOf(fs)
              K == {NameOf(fs[i]) : i \in N}
              R(i) == LineOf(fs, at, i)
  <1>1. HeaderLines(h) = {R(i) : i \in N}
    BY HeaderLinesAre
  <1>2. ASSUME NEW i \in N
        PROVE  HeaderKey(h, R(i)) = NameOf(fs[i]) /\ HeaderValue(h, R(i)) = ValueOf(fs[i]) /\ R(i).beg = at[i]
    <2>1. R(i).beg = at[i]
      BY DEF LineOf
    <2>. QED BY <2>1, FieldRead
  <1>3. /\ Len(fs) \in Nat /\ N \subseteq 1..Len(fs) /\ at \in [1..(Len(fs) + 1) -> Nat]
        /\ \A i, j \in 1..(Len(fs) + 1) : i < j => at[i] < at[j]
    <2>1. fs \in Seq(Fields) /\ at \in [1..(Len(fs) + 1) -> Nat]
          /\ \A i, j \in 1..(Len(fs) + 1) : i < j => at[i] < at[j]
      BY DEF Scanned
    <2>2. Len(fs) \in Nat
      BY <2>1
    <2>. QED BY <2>1, <2>2 DEF NamedOf
  <1>. HIDE DEF N, R
  <1>4. ASSUME NEW i \in N, NEW j \in N
        PROVE  /\ i \in Nat /\ j \in Nat /\ at[i] \in Nat /\ at[j] \in Nat
               /\ i <= j => at[i] <= at[j]
               /\ at[i] = at[j] => i = j
    <2>1. i \in 1..(Len(fs) + 1) /\ j \in 1..(Len(fs) + 1) /\ i \in Nat /\ j \in Nat
      BY <1>3
    <2>2. at[i] \in Nat /\ at[j] \in Nat
      BY <1>3, <2>1
    <2>3. (i < j => at[i] < at[j]) /\ (j < i => at[j] < at[i])
      BY <1>3, <2>1
    <2>. QED BY <2>1, <2>2, <2>3
  <1>5. {HeaderKey(h, l) : l \in HeaderLines(h)} = K
    BY <1>1, <1>2
  <1>6. ASSUME NEW k \in K
        PROVE  HeaderValue(h, CHOOSE l \in HeaderLines(h) : l.beg = LastOf(h, k)) =
                 ValueOf(fs[Max({i \in N : NameOf(fs[i]) = k})])
    <2>. DEFINE I == {i \in N : NameOf(fs[i]) = k}
                B == {l.beg : l \in {x \in HeaderLines(h) : HeaderKey(h, x) = k}}
    <2>1. I \subseteq 1..Len(fs) /\ I # {}
      BY <1>3
    <2>. HIDE DEF I
    <2>2. PICK x \in I : \A y \in I : y <= x
      BY <1>3, <2>1, LastExists
    <2>3. x \in N /\ NameOf(fs[x]) = k
      BY DEF I
    <2>4. Max(I) = x
      <3>1. I \subseteq Int
        BY <1>3, <2>1
      <3>. QED BY <2>2, <3>1, MaxIs
    <2>5. at[x] \in B
      <3>1. R(x) \in HeaderLines(h) /\ HeaderKey(h, R(x)) = k /\ R(x).beg = at[x]
        BY <1>1, <1>2, <2>3
      <3>. QED BY <3>1
    <2>6. ASSUME NEW b \in B PROVE b \in Int /\ b <= at[x]
      <3>1. PICK l \in HeaderLines(h) : HeaderKey(h, l) = k /\ b = l.beg
        OBVIOUS
      <3>2. PICK i \in N : l = R(i)
        BY <1>1
      <3>3. i \in I /\ b = at[i]
        BY <1>2, <3>1, <3>2 DEF I
      <3>. QED BY <1>4, <2>2, <2>3, <3>3
    <2>7. LastOf(h, k) = at[x]
      <3>. HIDE DEF B
      <3>1. B \subseteq Int /\ \A b \in B : b <= at[x]
        BY <2>6
      <3>2. Max(B) = at[x]
        BY <2>5, <3>1, MaxIs
      <3>. QED BY <3>2 DEF LastOf, B
    <2>. DEFINE c == CHOOSE l \in HeaderLines(h) : l.beg = at[x]
    <2>8. c = R(x)
      <3>1. R(x) \in HeaderLines(h) /\ R(x).beg = at[x]
        BY <1>1, <1>2, <2>3
      <3>2. ASSUME NEW l \in HeaderLines(h), l.beg = at[x] PROVE l = R(x)
        <4>1. PICK i \in N : l = R(i)
          BY <1>1
        <4>2. at[i] = at[x]
          BY <1>2, <3>2, <4>1
        <4>. QED BY <1>4, <2>3, <4>1, <4>2
      <3>. QED BY <3>1, <3>2
    <2>9. HeaderValue(h, c) = ValueOf(fs[x])
      BY <1>2, <2>3, <2>8
    <2>. QED BY <2>4, <2>7, <2>9 DEF I
  <1>. QED BY <1>5, <1>6 DEF Headers, MeantBy, N

(* The key parse looks up is the client's name for the host. *)
LEMMA HostName == tolowers(<<"Host">>) = <<"host">>
  <1>1. DOMAIN <<"Host">> = 1..1 /\ <<"Host">>[1] = "Host"
    OBVIOUS
  <1>2. tolowers(<<"Host">>) = [i \in 1..1 |-> tolower(<<"Host">>[i])]
    BY <1>1 DEF tolowers
  <1>3. \A i \in 1..1 : <<"Host">>[i] = "Host" /\ tolower("Host") = "host"
    BY <1>1, CodecRoundTripAssumption
  <1>4. tolowers(<<"Host">>) = [i \in 1..1 |-> "host"]
    BY <1>2, <1>3
  <1>5. <<"host">> = [i \in 1..1 |-> "host"]
    OBVIOUS
  <1>. QED BY <1>4, <1>5

(* What parse returns for a text in the layout, up to its header map. *)
Refused(t, h) ==
  t.method = Unknown \/ findFrom(h, CRLF, 0) = npos \/ <<"host">> \notin DOMAIN Headers(h)
Answer(t, h, b) ==
  IF Refused(t, h) THEN Nullopt
  ELSE IF b.kind # "value" THEN b
  ELSE [kind |-> "request", method |-> t.method, path |-> t.path,
        version |-> t.version, headers |-> Headers(h), body |-> b.value]

(* parse answers from the target line, the scanned text and the body. *)
LEMMA ParseIs ==
  ASSUME NEW s, NEW t, NEW fs, NEW at, NEW bl, NEW bd, Placed(s, t, fs, at),
         Closed(s, Offset(t) + at[Len(fs) + 1], bl, bd)
  PROVE  parse(s) = Answer(t, ScannedText(s, t, Offset(t) + at[Len(fs) + 1], bl), BodyRead(bd))
  <1>. DEFINE T == Len(TargetLine(t))
              z == Offset(t) + at[Len(fs) + 1]
              e == HeadersEnd(z, bl)
              found == findFrom(s, CRLF \o CRLF, 0)
              h == ScannedText(s, t, z, bl)
              b == BodyRead(bd)
  <1>1. t \in Targets /\ s \in Seq(Unit) /\ T \in Nat /\ z \in Nat /\ z >= 2
    <2>1. /\ t \in Targets /\ s \in Seq(Unit) /\ fs \in Seq(Fields)
          /\ at \in [1..(Len(fs) + 1) -> Nat]
      BY DEF Placed
    <2>2. Len(fs) \in Nat
      BY <2>1
    <2>3. Len(fs) + 1 \in 1..(Len(fs) + 1)
      BY <2>2
    <2>4. at[Len(fs) + 1] \in Nat
      BY <2>1, <2>3
    <2>5. T \in Nat /\ Offset(t) = T + 2
      BY <2>1, OffsetFacts DEF Offset
    <2>. HIDE DEF T
    <2>. QED BY <2>1, <2>4, <2>5
  <1>2. findFrom(s, CRLF, 0) = T
    BY TargetEnd
  <1>3. found = e
    BY BlankFound
  <1>4. substr(s, 0, T) = TargetLine(t)
    BY TargetText
  <1>5. /\ method(TargetLine(t)) = t.method /\ path(TargetLine(t)) = t.path
        /\ version(TargetLine(t)) = t.version
    BY <1>1, TargetRead
  <1>6. h = HeaderText(s, T, e)
    BY DEF ScannedText
  <1>7. ParseBody(s, e) = b
    BY <1>1, BodyFound
  <1>8. T # npos
    <2>. HIDE DEF T
    <2>. QED BY <1>1 DEF npos
  <1>. HIDE DEF T, e, found, h, b
  <1>9. parse(s) =
          IF \/ T = npos \/ method(TargetLine(t)) = Unknown \/ findFrom(h, CRLF, 0) = npos
             \/ tolowers(<<"Host">>) \notin DOMAIN Headers(h)
          THEN Nullopt
          ELSE IF b.kind # "value" THEN b
          ELSE [kind |-> "request", method |-> method(TargetLine(t)), path |-> path(TargetLine(t)),
                version |-> version(TargetLine(t)), headers |-> Headers(h), body |-> b.value]
    BY <1>2, <1>3, <1>4, <1>6, <1>7, Zenon DEF parse, found
  <1>10. parse(s) = Answer(t, h, b)
    BY <1>5, <1>8, <1>9, HostName, Zenon DEF Answer, Refused
  <1>. QED BY <1>10 DEF h, b

(* In the layout a request is read back. *)
LEMMA LayoutRead == Layout => RoundTrip
  <1>. SUFFICES ASSUME Layout PROVE RoundTrip
    OBVIOUS
  <1>1. PICK at \in [1..(Len(fields) + 1) -> Nat] :
          /\ Placed(raw, target, fields, at)
          /\ Closed(raw, Offset(target) + at[Len(fields) + 1], blank, body)
    BY DEF Layout
  <1>. DEFINE h == ScannedText(raw, target, Offset(target) + at[Len(fields) + 1], blank)
              b == BodyRead(body)
              r == parse(raw)
              Refuse == Refused(target, h)
  <1>2. r = Answer(target, h, b)
    BY <1>1, ParseIs
  <1>3. /\ b.kind = "value" <=> body = <<>> \/ body \in DOMAIN Json
        /\ b.kind = "value" => b.value = IF body = <<>> THEN NoBody ELSE Json[body]
        /\ b.kind # "request"
    <2>1. CASE body = <<>>
      <3>1. b = [kind |-> "value", value |-> NoBody]
        BY <2>1 DEF BodyRead
      <3>. QED BY <2>1, <3>1
    <2>2. CASE body # <<>> /\ body \in DOMAIN Json
      <3>1. b = [kind |-> "value", value |-> Json[body]]
        BY <2>2 DEF BodyRead, json_parse
      <3>. QED BY <2>2, <3>1
    <2>3. CASE body # <<>> /\ body \notin DOMAIN Json
      <3>1. b = Throws \/ b = Nullopt
        BY <2>3 DEF BodyRead, json_parse
      <3>2. b.kind = "throws" \/ b.kind = "nullopt"
        BY <3>1 DEF Throws, Nullopt
      <3>. QED BY <2>3, <3>2
    <2>. QED BY <2>1, <2>2, <2>3
  <1>4. GoodBody <=> body = <<>> \/ body \in DOMAIN Json
    BY <1>1 DEF GoodBody, Closed
  <1>5. Shows(h, raw, Offset(target), at[Len(fields) + 1], blank)
    BY <1>1, HeaderTextIs
  <1>. HIDE DEF h, b, r, Refuse
  <1>6. /\ r.kind = "request" <=> ~Refuse /\ b.kind = "value"
        /\ r.kind = "request" =>
             /\ r.method = target.method /\ r.path = target.path /\ r.version = target.version
             /\ r.headers = Headers(h) /\ r.body = b.value
    <2>1. CASE Refuse
      <3>1. r.kind = "nullopt"
        BY <1>2, <2>1 DEF Nullopt, Answer, Refuse
      <3>. QED BY <2>1, <3>1
    <2>2. CASE ~Refuse /\ b.kind # "value"
      <3>1. r = b
        BY <1>2, <2>2 DEF Answer, Refuse
      <3>. QED BY <1>3, <2>2, <3>1
    <2>3. CASE ~Refuse /\ b.kind = "value"
      <3>1. r = [kind |-> "request", method |-> target.method, path |-> target.path,
                 version |-> target.version, headers |-> Headers(h), body |-> b.value]
        BY <1>2, <2>3 DEF Answer, Refuse
      <3>2. /\ r.kind = "request" /\ r.method = target.method /\ r.path = target.path
            /\ r.version = target.version /\ r.headers = Headers(h) /\ r.body = b.value
        BY <3>1
      <3>. QED BY <2>3, <3>2
    <2>. QED BY <2>1, <2>2, <2>3
  <1>7. ASSUME ~BodyLines PROVE Headers(h) = Meant /\ (~Refuse <=> target.method # Unknown /\ HasHost)
    <2>1. NoLineEnd(body)
      BY <1>7 DEF BodyLines
    <2>2. Scanned(h, fields, at, blank)
      BY <1>1, <1>5, <2>1, TextScanned, Zenon
    <2>3. fields \in Seq(Fields) /\ h \in Seq(Unit) /\ DOMAIN fields = 1..Len(fields)
      BY <2>2 DEF Scanned
    <2>4. NamedOf(fields) = Named /\ \A i \in Named : NameOf(fields[i]) = Name(i) /\ ValueOf(fields[i]) = Value(i)
      BY <2>3 DEF NamedOf, Named, NameOf, Name, ValueOf, Value
    <2>5. Headers(h) = MeantBy(fields)
      BY <2>2, HeadersAre
    <2>6. MeantBy(fields) = Meant
      <3>1. {NameOf(fields[i]) : i \in NamedOf(fields)} = {Name(i) : i \in Named}
        BY <2>4
      <3>2. \A k : {i \in NamedOf(fields) : NameOf(fields[i]) = k} = {i \in Named : Name(i) = k}
        BY <2>4
      <3>3. \A i : ValueOf(fields[i]) = Value(i)
        BY DEF ValueOf, Value
      <3>. QED BY <3>1, <3>2, <3>3 DEF MeantBy, Meant
    <2>7. ASSUME HasHost PROVE findFrom(h, CRLF, 0) # npos
      <3>1. PICK i \in Named : Name(i) = <<"host">>
        BY <2>7 DEF HasHost, Meant
      <3>2. i \in 1..Len(fields)
        BY <2>3 DEF Named
      <3>3. i \in 1..Count(fields, blank)
        BY <2>2, <3>2, LineOrder
      <3>4. EndOf(fields, at, i) \in Ends(h)
        BY <2>2, <3>3 DEF Scanned
      <3>5. Ends(h) \subseteq Nat
        BY DEF Ends
      <3>6. Min(Ends(h)) \in Nat
        BY <3>4, <3>5, MinIsFirst
      <3>7. findFrom(h, CRLF, 0) = Min(Ends(h))
        BY <2>3, <3>4, FindEnd
      <3>. QED BY <3>6, <3>7 DEF npos
    <2>. QED BY <2>5, <2>6, <2>7, Zenon DEF HasHost, Refused, Refuse
  <1>8. RoundTrip <=>
          /\ r.kind = "request" =>
               /\ r.method = target.method /\ r.path = target.path /\ r.version = target.version
               /\ r.body = IF body = <<>> THEN NoBody ELSE Json[body]
          /\ ~BodyLines =>
               /\ r.kind = "request" <=> target.method # Unknown /\ HasHost /\ GoodBody
               /\ r.kind = "request" => r.headers = Meant
    BY Zenon DEF RoundTrip, r
  <1>9. r.kind = "request" => r.body = IF body = <<>> THEN NoBody ELSE Json[body]
    BY <1>3, <1>6
  <1>10. ~BodyLines =>
           /\ r.kind = "request" <=> target.method # Unknown /\ HasHost /\ GoodBody
           /\ r.kind = "request" => r.headers = Meant
    BY <1>3, <1>4, <1>6, <1>7, Zenon
  <1>. QED BY <1>6, <1>8, <1>9, <1>10, Zenon

(* RoundTrip always: whatever the client writes, the parser reads back. *)
THEOREM RoundTripAlways == Spec => []RoundTrip
  <1>1. Spec => []Layout
    BY InitLayout, NextLayout, PTL DEF Spec
  <1>. QED BY <1>1, LayoutRead, PTL
=============================================================================
