--------------------------- MODULE LogLinesProofs ---------------------------
(***************************************************************************)
(* Proofs about LogLines for any number of children, lines and loggers and *)
(* any size of the buffers.  IInv says which buffers can hold what a       *)
(* process inserted, until it is told that its line is durable.  The       *)
(* second part reduces every step to what it does to the file and to the   *)
(* one buffer of a process that is in use (Effect); LInv, about these      *)
(* alone, says what is lost, in which order units are written, how often,  *)
(* and that lines are whole.                                               *)
(***************************************************************************)
EXTENDS LogLines, FiniteSetTheorems, TLAPS

USE LogLinesAssumption

(* What a file or a buffer holds. *)
Elems(s) == {s[i] : i \in DOMAIN s}

LEMMA ElemsConcat ==
  ASSUME NEW s \in Seq(Units), NEW t \in Seq(Units)
  PROVE  s \o t \in Seq(Units) /\ Elems(s \o t) = Elems(s) \cup Elems(t)
  <1>1. Elems(s) \subseteq Elems(s \o t)
    BY DEF Elems
  <1>2. ASSUME NEW i \in DOMAIN t PROVE t[i] \in Elems(s \o t)
    <2>1. Len(s) + i \in DOMAIN (s \o t) /\ (s \o t)[Len(s) + i] = t[i]
      OBVIOUS
    <2>. QED BY <2>1 DEF Elems
  <1>3. Elems(t) \subseteq Elems(s \o t)
    BY <1>2 DEF Elems
  <1>4. ASSUME NEW i \in DOMAIN (s \o t) PROVE (s \o t)[i] \in Elems(s) \cup Elems(t)
    <2>1. CASE i <= Len(s)
      BY <2>1 DEF Elems
    <2>2. CASE i > Len(s)
      <3>1. i - Len(s) \in DOMAIN t /\ (s \o t)[i] = t[i - Len(s)]
        BY <2>2
      <3>. QED BY <3>1 DEF Elems
    <2>. QED BY <2>1, <2>2
  <1>5. Elems(s \o t) \subseteq Elems(s) \cup Elems(t)
    BY <1>4 DEF Elems
  <1>. QED BY <1>1, <1>3, <1>5

LEMMA SubSeqJoin ==
  ASSUME NEW s \in Seq(Units), NEW k \in 0..Len(s), NEW h \in k..Len(s)
  PROVE  SubSeq(s, 1, k) \o SubSeq(s, k + 1, h) = SubSeq(s, 1, h)
  OBVIOUS

(* A sequence cut in two keeps its elements. *)
LEMMA ElemsCut ==
  ASSUME NEW s \in Seq(Units), NEW k \in 0..Len(s)
  PROVE  /\ SubSeq(s, 1, k) \in Seq(Units) /\ SubSeq(s, k + 1, Len(s)) \in Seq(Units)
         /\ Len(SubSeq(s, k + 1, Len(s))) = Len(s) - k
         /\ Elems(s) = Elems(SubSeq(s, 1, k)) \cup Elems(SubSeq(s, k + 1, Len(s)))
  <1>1. SubSeq(s, 1, k) \in Seq(Units) /\ SubSeq(s, k + 1, Len(s)) \in Seq(Units)
    OBVIOUS
  <1>2. Len(SubSeq(s, k + 1, Len(s))) = Len(s) - k
    OBVIOUS
  <1>3. SubSeq(s, 1, k) \o SubSeq(s, k + 1, Len(s)) = s
    <2>1. SubSeq(s, 1, k) \o SubSeq(s, k + 1, Len(s)) = SubSeq(s, 1, Len(s))
      <3>1. Len(s) \in k..Len(s)
        OBVIOUS
      <3>. QED BY <3>1, SubSeqJoin
    <2>2. SubSeq(s, 1, Len(s)) = s
      OBVIOUS
    <2>. QED BY <2>1, <2>2
  <1>4. Elems(SubSeq(s, 1, k) \o SubSeq(s, k + 1, Len(s)))
          = Elems(SubSeq(s, 1, k)) \cup Elems(SubSeq(s, k + 1, Len(s)))
    BY <1>1, ElemsConcat
  <1>. QED BY <1>1, <1>2, <1>3, <1>4

LEMMA ElemsAppend ==
  ASSUME NEW s \in Seq(Units), NEW e \in Units
  PROVE  /\ Append(s, e) \in Seq(Units) /\ Len(Append(s, e)) = Len(s) + 1
         /\ Elems(Append(s, e)) = Elems(s) \cup {e}
  <1>1. Append(s, e) \in Seq(Units) /\ Len(Append(s, e)) = Len(s) + 1
    OBVIOUS
  <1>2. Append(s, e) = s \o <<e>> /\ <<e>> \in Seq(Units)
    OBVIOUS
  <1>3. Elems(<<e>>) = {e}
    BY DEF Elems
  <1>4. Elems(s \o <<e>>) = Elems(s) \cup Elems(<<e>>)
    BY <1>2, ElemsConcat
  <1>. QED BY <1>1, <1>2, <1>3, <1>4
-----------------------------------------------------------------------------
(* A memory is well formed; while a line is being logged it has a number   *)
(* and a level.                                                            *)
MemOK(m) ==
  /\ m \in Memory
  /\ \A g \in Loggers : Len(m.buf[g]) <= Cap
  /\ m.at # "idle" => m.n \in 1..MaxLines /\ m.lv \in log

(* Only loggers of the past have closed sinks, and none of them is in use. *)
SinksOK(m) ==
  /\ \A g \in m.closed : g < m.current
  /\ m.held <= m.current
  /\ m.at \in Copied => m.held \notin m.closed

(* What process p has inserted of its line is written or in its buffer. *)
Inserted(p, m, part, written) ==
  [by |-> p, n |-> m.n, part |-> part] \in written \cup Elems(m.buf[m.held])
Kept(p, m, written) ==
  /\ m.at \in {"newline", "flush"} => Inserted(p, m, "text", written)
  /\ m.at = "flush" => Inserted(p, m, "newline", written)

Good(p, m, written) == MemOK(m) /\ SinksOK(m) /\ Kept(p, m, written)

IInv ==
  /\ TypeOK
  /\ \A p \in Procs : Good(p, mem[p], Elems(file))
  /\ ImportantIsDurable

LEMMA WrittenIs ==
  ASSUME NEW p, NEW n
  PROVE  Written(p, n) <=> \A part \in Parts : [by |-> p, n |-> n, part |-> part] \in Elems(file)
  BY DEF Written, Elems

(* The loggers and the levels there are. *)
LEMMA Levelled ==
  /\ log \subseteq Nat /\ unknown \notin log /\ Levels \subseteq log
  /\ 1 \in Loggers /\ Loggers \subseteq Nat
  BY DEF log, trace, critical, unknown, Loggers

(* A memory without contents is well formed. *)
LEMMA NoMemoryGood ==
  ASSUME NEW p, NEW state \in {"unborn", "running", "gone"}, NEW written
  PROVE  Good(p, NoMemory(state), written)
  <1>1. <<>> \in Seq(Units) /\ Len(<<>>) = 0
    OBVIOUS
  <1>2. NoMemory(state) \in Memory
    BY <1>1, Levelled DEF NoMemory, Memory, Copied
  <1>3. MemOK(NoMemory(state)) /\ SinksOK(NoMemory(state)) /\ Kept(p, NoMemory(state), written)
    BY <1>1, <1>2 DEF NoMemory, MemOK, SinksOK, Kept, Copied
  <1>. QED BY <1>3 DEF Good

(* The start: nothing is logged. *)
LEMMA InitIInv == Init => IInv
  <1>. SUFFICES ASSUME Init PROVE IInv
    OBVIOUS
  <1>1. PICK l \in Levels :
          mem = [p \in Procs |-> IF p = Server THEN [NoMemory("running") EXCEPT !.level = l]
                                              ELSE NoMemory("unborn")]
    BY DEF Init
  <1>2. file = <<>> /\ Elems(file) = {} /\ file \in Seq(Units) /\ count = 0 /\ returned = {}
    BY DEF Init, Elems
  <1>3. ASSUME NEW p \in Procs PROVE Good(p, mem[p], {})
    <2>1. CASE p # Server
      BY <1>1, <2>1, NoMemoryGood
    <2>2. CASE p = Server
      <3>. DEFINE b == NoMemory("running")
                  m == [b EXCEPT !.level = l]
      <3>1. Good(p, b, {}) /\ mem[p] = m
        BY <1>1, <2>2, NoMemoryGood
      <3>2. b \in Memory
        BY <3>1 DEF Good, MemOK
      <3>. HIDE DEF b
      <3>3. /\ m \in Memory /\ m.buf = b.buf /\ m.closed = b.closed /\ m.current = b.current
            /\ m.held = b.held /\ m.at = b.at /\ m.n = b.n /\ m.lv = b.lv
        BY <3>2 DEF Memory
      <3>. QED BY <3>1, <3>3 DEF Good, MemOK, SinksOK, Kept, Inserted
    <2>. QED BY <2>1, <2>2
  <1>4. mem \in [Procs -> Memory] /\ \A p \in Procs, g \in Loggers : Len(mem[p].buf[g]) <= Cap
    BY <1>1, <1>3 DEF Good, MemOK
  <1>5. TypeOK
    <2>1. inherited \in [Children -> SUBSET Units]
      BY DEF Init
    <2>2. spilled \in BOOLEAN /\ lost \in BOOLEAN /\ torn \in BOOLEAN
      BY DEF Init
    <2>3. count \in 0..MaxLines
      BY <1>2
    <2>. QED BY <1>2, <1>4, <2>1, <2>2, <2>3 DEF TypeOK
  <1>. QED BY <1>2, <1>3, <1>5 DEF IInv, ImportantIsDurable

(* A step that changes the memory of one process to a good one, and the    *)
(* file only by adding to it, keeps the invariant if what it reports as    *)
(* logged, and grave, is in the file.                                      *)
LEMMA OneProcess ==
  ASSUME IInv, NEW p \in Procs, NEW m,
         mem' = [mem EXCEPT ![p] = m], Good(p, m, Elems(file')),
         file' \in Seq(Units), Elems(file) \subseteq Elems(file'),
         count' \in 0..MaxLines, inherited' \in [Children -> SUBSET Units],
         spilled' \in BOOLEAN, lost' \in BOOLEAN, torn' \in BOOLEAN,
         returned' \subseteq [by : Procs, n : 1..MaxLines, level : log],
         \A r \in returned' \ returned : r.level >= warning =>
           \A part \in Parts : [by |-> r.by, n |-> r.n, part |-> part] \in Elems(file')
  PROVE  IInv'
  <1>1. mem \in [Procs -> Memory]
    BY DEF IInv, TypeOK
  <1>2. ASSUME NEW q \in Procs PROVE Good(q, mem'[q], Elems(file'))
    <2>1. CASE q = p
      BY <1>1, <2>1
    <2>2. CASE q # p
      <3>1. mem'[q] = mem[q] /\ Good(q, mem[q], Elems(file))
        BY <1>1, <2>2 DEF IInv
      <3>. QED BY <3>1 DEF Good, Kept, Inserted
    <2>. QED BY <2>1, <2>2
  <1>3. m \in Memory
    BY DEF Good, MemOK
  <1>4. mem' \in [Procs -> Memory]
    BY <1>1, <1>3
  <1>5. \A q \in Procs, g \in Loggers : Len(mem'[q].buf[g]) <= Cap
    BY <1>2 DEF Good, MemOK
  <1>6. TypeOK'
    BY <1>4, <1>5 DEF TypeOK
  <1>7. ASSUME NEW r \in returned', r.level >= warning
        PROVE  \A part \in Parts : [by |-> r.by, n |-> r.n, part |-> part] \in Elems(file')
    <2>1. CASE r \in returned
      <3>1. Written(r.by, r.n)
        BY <1>7, <2>1 DEF IInv, ImportantIsDurable
      <3>. QED BY <3>1, WrittenIs
    <2>2. CASE r \notin returned
      BY <1>7, <2>2
    <2>. QED BY <2>1, <2>2
  <1>8. ImportantIsDurable'
    BY <1>7 DEF ImportantIsDurable, Written, Elems
  <1>. QED BY <1>2, <1>6, <1>8 DEF IInv
(* A memory after an insertion. *)
AfterPut(m, b, place) == [m EXCEPT !.buf[m.held] = b, !.at = place]

(* What an insertion does: nothing is lost on the way. *)
LEMMA PutFacts ==
  ASSUME mem \in [Procs -> Memory], file \in Seq(Units), spilled \in BOOLEAN,
         NEW p \in Procs, Len(Buffer(p)) <= Cap, NEW u \in Units, NEW place, Put(p, u, place)
  PROVE  \E b \in Seq(Units) :
           /\ Len(b) <= Cap
           /\ mem' = [mem EXCEPT ![p] = AfterPut(mem[p], b, place)]
           /\ file' \in Seq(Units) /\ Elems(file) \subseteq Elems(file')
           /\ Elems(Buffer(p)) \cup {u} \subseteq Elems(file') \cup Elems(b)
           /\ spilled' \in BOOLEAN
  <1>. DEFINE c == Append(Buffer(p), u)
  <1>1. Buffer(p) \in Seq(Units)
    BY DEF Buffer, Memory
  <1>2. c \in Seq(Units) /\ Len(c) = Len(Buffer(p)) + 1 /\ Elems(c) = Elems(Buffer(p)) \cup {u}
    BY <1>1, ElemsAppend
  <1>3. PICK k \in IF Len(c) > Cap THEN {Cap, Cap + 1} ELSE {0} :
          /\ file' = file \o SubSeq(c, 1, k)
          /\ mem' = [mem EXCEPT ![p].buf[mem[p].held] = SubSeq(c, k + 1, Len(c)), ![p].at = place]
          /\ spilled' = (spilled \/ Len(c) > Cap)
    BY DEF Put
  <1>. DEFINE b == SubSeq(c, k + 1, Len(c))
  <1>4. k \in 0..Len(c) /\ Len(c) - k <= Cap
    BY <1>1, <1>2
  <1>. HIDE DEF c
  <1>5. /\ SubSeq(c, 1, k) \in Seq(Units) /\ b \in Seq(Units)
        /\ Len(b) = Len(c) - k
        /\ Elems(c) = Elems(SubSeq(c, 1, k)) \cup Elems(b)
    BY <1>2, <1>4, ElemsCut
  <1>6. file' \in Seq(Units) /\ Elems(file') = Elems(file) \cup Elems(SubSeq(c, 1, k))
    <2>1. /\ file \o SubSeq(c, 1, k) \in Seq(Units)
          /\ Elems(file \o SubSeq(c, 1, k)) = Elems(file) \cup Elems(SubSeq(c, 1, k))
      BY <1>5, ElemsConcat
    <2>. QED BY <1>3, <2>1
  <1>7. mem' = [mem EXCEPT ![p] = AfterPut(mem[p], b, place)]
    BY <1>3 DEF AfterPut
  <1>8. spilled' \in BOOLEAN
    BY <1>3
  <1>9. Elems(Buffer(p)) \cup {u} \subseteq Elems(file') \cup Elems(b)
    BY <1>2, <1>5, <1>6
  <1>10. Elems(file) \subseteq Elems(file') /\ Len(b) <= Cap
    BY <1>4, <1>5, <1>6
  <1>. QED BY <1>5, <1>6, <1>7, <1>8, <1>9, <1>10

(* A process that has inserted a unit has a good memory. *)
LEMMA PutGood ==
  ASSUME NEW m, MemOK(m), SinksOK(m), NEW b \in Seq(Units), Len(b) <= Cap,
         NEW place \in {"newline", "flush", "release"}, m.at \in Copied
  PROVE  LET m2 == AfterPut(m, b, place) IN
           /\ MemOK(m2) /\ SinksOK(m2)
           /\ m2.buf[m2.held] = b /\ m2.at = place /\ m2.n = m.n
  <1>. DEFINE m2 == AfterPut(m, b, place)
  <1>1. m \in Memory
    BY DEF MemOK
  <1>2. m.buf \in [Loggers -> Seq(Units)] /\ m.held \in Loggers /\ m.at # "idle"
    BY <1>1 DEF Memory, Copied
  <1>3. [m.buf EXCEPT ![m.held] = b] \in [Loggers -> Seq(Units)]
    BY <1>2
  <1>4. m2 = [m EXCEPT !.buf = [m.buf EXCEPT ![m.held] = b], !.at = place]
    BY DEF AfterPut
  <1>. HIDE DEF m2
  <1>5. /\ m2 \in Memory /\ m2.buf = [m.buf EXCEPT ![m.held] = b]
        /\ m2.at = place /\ m2.closed = m.closed /\ m2.current = m.current
        /\ m2.held = m.held /\ m2.n = m.n /\ m2.lv = m.lv
    BY <1>1, <1>3, <1>4 DEF Memory, Copied
  <1>6. \A g \in Loggers : Len(m2.buf[g]) <= Cap
    BY <1>2, <1>5 DEF MemOK
  <1>7. m2.buf[m2.held] = b
    BY <1>2, <1>5
  <1>8. MemOK(m2) /\ SinksOK(m2)
    BY <1>2, <1>5, <1>6 DEF MemOK, SinksOK, Copied
  <1>. QED BY <1>5, <1>7, <1>8 DEF m2
-----------------------------------------------------------------------------
(* What the invariant says of one process. *)
LEMMA Facts ==
  ASSUME IInv, NEW p \in Procs
  PROVE  /\ mem \in [Procs -> Memory] /\ file \in Seq(Units) /\ count \in 0..MaxLines
         /\ inherited \in [Children -> SUBSET Units]
         /\ spilled \in BOOLEAN /\ lost \in BOOLEAN /\ torn \in BOOLEAN
         /\ returned \subseteq [by : Procs, n : 1..MaxLines, level : log]
         /\ mem[p] \in Memory /\ MemOK(mem[p]) /\ SinksOK(mem[p]) /\ Kept(p, mem[p], Elems(file))
  BY DEF IInv, TypeOK, Good

LEMMA LevelOfClassType ==
  ASSUME NEW d PROVE LevelOfClass(d) \in log \cup {unknown}
  BY DEF LevelOfClass, log, trace, info, warning, error, critical, unknown

LEMMA CheckIInv ==
  ASSUME IInv, NEW p \in Procs, NEW l \in log \cup {unknown}, Check(p, l)
  PROVE  IInv'
  <1>. DEFINE m == mem[p]
              m2 == [m EXCEPT !.n = count + 1, !.lv = l, !.at = "get"]
  <1>1. /\ mem \in [Procs -> Memory] /\ m \in Memory /\ MemOK(m) /\ SinksOK(m)
        /\ count \in 0..MaxLines
    BY Facts
  <1>2. mem' = [mem EXCEPT ![p] = m2] /\ count' = count + 1 /\ count < MaxLines
    BY <1>1 DEF Check
  <1>3. UNCHANGED <<file, returned, inherited, spilled, lost, torn>>
    BY DEF Check, histVars
  <1>4. l \in log
    <2>1. m.level # unknown /\ m.level <= l /\ m.level \in Levels \cup {unknown}
      BY <1>1 DEF Check, ShouldLog, GetLevel, Memory
    <2>2. m.level \in log
      BY <2>1, Levelled
    <2>3. m.level \in 1..6
      BY <2>2 DEF log, trace, critical
    <2>4. l \in 1..6 \/ l = 0
      BY DEF log, trace, critical, unknown
    <2>5. l \in 1..6
      BY <2>1, <2>3, <2>4
    <2>. QED BY <2>5 DEF log, trace, critical
  <1>5. count + 1 \in 1..MaxLines /\ count + 1 \in 0..MaxLines /\ count' \in 0..MaxLines
    BY <1>1, <1>2
  <1>6. /\ m2 \in Memory /\ m2.buf = m.buf /\ m2.closed = m.closed /\ m2.current = m.current
        /\ m2.held = m.held /\ m2.at = "get" /\ m2.n = count + 1 /\ m2.lv = l
    BY <1>1, <1>4, <1>5 DEF Memory
  <1>. HIDE DEF m2
  <1>7. Good(p, m2, Elems(file'))
    BY <1>1, <1>4, <1>5, <1>6 DEF Good, MemOK, SinksOK, Kept, Copied
  <1>. QED BY <1>1, <1>2, <1>3, <1>5, <1>7, Facts, OneProcess

(* Steps that only move on in LOG, from a place where nothing is inserted. *)
LEMMA GetIInv ==
  ASSUME IInv, NEW p \in Procs, Get(p)
  PROVE  IInv'
  <1>. DEFINE m == mem[p]
              m2 == [m EXCEPT !.held = m.current, !.at = "copy"]
  <1>1. mem \in [Procs -> Memory] /\ m \in Memory /\ MemOK(m) /\ SinksOK(m)
    BY Facts
  <1>2. mem' = [mem EXCEPT ![p] = m2] /\ m.at = "get"
    BY <1>1 DEF Get, At
  <1>3. UNCHANGED <<file, count, returned, inherited, spilled, lost, torn>>
    BY DEF Get, histVars
  <1>4. /\ m2 \in Memory /\ m2.buf = m.buf /\ m2.closed = m.closed /\ m2.current = m.current
        /\ m2.held = m.current /\ m2.at = "copy" /\ m2.n = m.n /\ m2.lv = m.lv
    BY <1>1 DEF Memory
  <1>5. m.current \in Nat
    BY <1>1, Levelled DEF Memory
  <1>. HIDE DEF m2
  <1>6. Good(p, m2, Elems(file'))
    BY <1>1, <1>2, <1>4, <1>5 DEF Good, MemOK, SinksOK, Kept, Copied
  <1>. QED BY <1>2, <1>3, <1>6, Facts, OneProcess

(* A memory that is as it was, but for the place in LOG. *)
LEMMA MovesOn ==
  ASSUME NEW m, MemOK(m), SinksOK(m), m.at # "idle", NEW m2, NEW place,
         m2 = [m EXCEPT !.at = place],
         \/ place = "idle"
         \/ place \in {"text", "release"} /\ m.held \notin m.closed
  PROVE  MemOK(m2) /\ SinksOK(m2) /\ \A p, written : Kept(p, m2, written)
  <1>1. m \in Memory
    BY DEF MemOK
  <1>2. /\ m2 \in Memory /\ m2.buf = m.buf /\ m2.closed = m.closed /\ m2.current = m.current
        /\ m2.held = m.held /\ m2.at = place /\ m2.n = m.n /\ m2.lv = m.lv
    BY <1>1 DEF Memory, Copied
  <1>3. MemOK(m2)
    BY <1>2 DEF MemOK
  <1>4. SinksOK(m2)
    BY <1>2 DEF SinksOK, Copied
  <1>. QED BY <1>2, <1>3, <1>4 DEF Kept

LEMMA CopyIInv ==
  ASSUME IInv, NEW p \in Procs, Copy(p)
  PROVE  IInv'
  <1>. DEFINE m == mem[p]
  <1>1. mem \in [Procs -> Memory] /\ m \in Memory /\ MemOK(m) /\ SinksOK(m)
    BY Facts
  <1>2. UNCHANGED <<file, count, returned, inherited, spilled, lost, torn>> /\ m.at = "copy"
    BY DEF Copy, At, histVars
  <1>3. PICK place \in IF m.held \in m.closed THEN {"idle"} ELSE {"text", "release"} :
          mem' = [mem EXCEPT ![p].at = place]
    BY DEF Copy
  <1>. DEFINE m2 == [m EXCEPT !.at = place]
  <1>4. mem' = [mem EXCEPT ![p] = m2]
    BY <1>1, <1>3
  <1>5. MemOK(m2) /\ SinksOK(m2) /\ Kept(p, m2, Elems(file'))
    BY <1>1, <1>2, <1>3, MovesOn
  <1>. HIDE DEF m2
  <1>6. Good(p, m2, Elems(file'))
    BY <1>5 DEF Good
  <1>. QED BY <1>2, <1>4, <1>6, Facts, OneProcess
LEMMA UnitType ==
  ASSUME IInv, NEW p \in Procs, mem[p].at # "idle", NEW part \in Parts
  PROVE  Unit(p, part) \in Units
  <1>1. mem[p].n \in 1..MaxLines
    BY Facts DEF MemOK
  <1>. QED BY <1>1 DEF Unit, Units

LEMMA TextIInv ==
  ASSUME IInv, NEW p \in Procs, Text(p)
  PROVE  IInv'
  <1>. DEFINE m == mem[p]
              u == Unit(p, "text")
  <1>1. /\ mem \in [Procs -> Memory] /\ file \in Seq(Units) /\ spilled \in BOOLEAN
        /\ m \in Memory /\ MemOK(m) /\ SinksOK(m)
    BY Facts
  <1>2. m.at = "text" /\ Put(p, u, "newline") /\ UNCHANGED <<count, returned, inherited, lost, torn>>
    BY DEF Text, At
  <1>3. u \in Units /\ Len(Buffer(p)) <= Cap
    BY <1>1, <1>2, UnitType DEF Parts, MemOK, Buffer, Memory
  <1>4. PICK b \in Seq(Units) :
          /\ Len(b) <= Cap
          /\ mem' = [mem EXCEPT ![p] = AfterPut(m, b, "newline")]
          /\ file' \in Seq(Units) /\ Elems(file) \subseteq Elems(file')
          /\ Elems(Buffer(p)) \cup {u} \subseteq Elems(file') \cup Elems(b)
          /\ spilled' \in BOOLEAN
    BY <1>1, <1>2, <1>3, PutFacts
  <1>. DEFINE m2 == AfterPut(m, b, "newline")
  <1>5. /\ MemOK(m2) /\ SinksOK(m2)
        /\ m2.buf[m2.held] = b /\ m2.at = "newline" /\ m2.n = m.n
    BY <1>1, <1>2, <1>4, PutGood DEF Copied
  <1>6. mem' = [mem EXCEPT ![p] = m2]
    BY <1>4
  <1>. HIDE DEF m2
  <1>7. Kept(p, m2, Elems(file'))
    BY <1>4, <1>5 DEF Kept, Inserted, Unit
  <1>8. Good(p, m2, Elems(file'))
    BY <1>5, <1>7 DEF Good
  <1>. QED BY <1>2, <1>4, <1>6, <1>8, Facts, OneProcess

(* A line that can wait is reported at once: it is not a grave one. *)
LEMMA NewlineIInv ==
  ASSUME IInv, NEW p \in Procs, Newline(p)
  PROVE  IInv'
  <1>. DEFINE m == mem[p]
              u == Unit(p, "newline")
  <1>1. /\ mem \in [Procs -> Memory] /\ file \in Seq(Units) /\ spilled \in BOOLEAN
        /\ m \in Memory /\ MemOK(m) /\ SinksOK(m) /\ Kept(p, m, Elems(file))
        /\ returned \subseteq [by : Procs, n : 1..MaxLines, level : log]
    BY Facts
  <1>2. m.at = "newline" /\ UNCHANGED <<count, inherited, lost, torn>>
    BY DEF Newline, At
  <1>3. u \in Units /\ Len(Buffer(p)) <= Cap /\ m.n \in 1..MaxLines /\ m.lv \in log
    BY <1>1, <1>2, UnitType DEF Parts, MemOK, Buffer, Memory
  <1>4. PICK place \in {"flush", "release"} :
          /\ Put(p, u, place)
          /\ \/ UNCHANGED returned
             \/ ~important_log(m.lv) /\ LogReturnsTrue(p)
    BY DEF Newline
  <1>5. PICK b \in Seq(Units) :
          /\ Len(b) <= Cap
          /\ mem' = [mem EXCEPT ![p] = AfterPut(m, b, place)]
          /\ file' \in Seq(Units) /\ Elems(file) \subseteq Elems(file')
          /\ Elems(Buffer(p)) \cup {u} \subseteq Elems(file') \cup Elems(b)
          /\ spilled' \in BOOLEAN
    BY <1>1, <1>3, <1>4, PutFacts
  <1>. DEFINE m2 == AfterPut(m, b, place)
  <1>6. /\ MemOK(m2) /\ SinksOK(m2)
        /\ m2.buf[m2.held] = b /\ m2.at = place /\ m2.n = m.n
    BY <1>1, <1>2, <1>5, PutGood DEF Copied
  <1>7. mem' = [mem EXCEPT ![p] = m2]
    BY <1>5
  <1>. HIDE DEF m2
  <1>8. Kept(p, m2, Elems(file'))
    <2>1. Unit(p, "text") \in Elems(file) \cup Elems(Buffer(p))
      BY <1>1, <1>2 DEF Kept, Inserted, Unit, Buffer
    <2>2. /\ Unit(p, "text") \in Elems(file') \cup Elems(b)
          /\ Unit(p, "newline") \in Elems(file') \cup Elems(b)
      BY <1>5, <2>1
    <2>. QED BY <1>6, <2>2 DEF Kept, Inserted, Unit
  <1>9. Good(p, m2, Elems(file'))
    BY <1>6, <1>8 DEF Good
  <1>10. /\ returned' \subseteq [by : Procs, n : 1..MaxLines, level : log]
         /\ \A r \in returned' \ returned : ~(r.level >= warning)
    <2>1. CASE UNCHANGED returned
      BY <1>1, <2>1
    <2>2. CASE ~important_log(m.lv) /\ LogReturnsTrue(p)
      <3>1. ~(m.lv >= warning)
        BY <1>3, <2>2 DEF important_log, log, trace, debug, info, warning, critical
      <3>. QED BY <1>1, <1>3, <2>2, <3>1 DEF LogReturnsTrue
    <2>. QED BY <1>4, <2>1, <2>2
  <1>. QED BY <1>2, <1>5, <1>7, <1>9, <1>10, Facts, OneProcess

(* A write that fails adds a beginning of what was to be written. *)
LEMMA ShortFacts ==
  ASSUME NEW b \in Seq(Units), file \in Seq(Units), torn \in BOOLEAN, Short(b)
  PROVE  /\ file' \in Seq(Units) /\ Elems(file) \subseteq Elems(file') /\ torn' \in BOOLEAN
         /\ \E k \in 0..(Len(b) - 1) :
              file' = file \o SubSeq(b, 1, k) /\ ((k = 0 /\ torn' = torn) \/ torn' = TRUE)
  <1>1. Len(b) \in Nat /\ Len(b) > 0
    BY DEF Short
  <1>2. PICK k \in 0..(Len(b) - 1) :
          file' = file \o SubSeq(b, 1, k) /\ ((k = 0 /\ torn' = torn) \/ torn' = TRUE)
    <2>1. CASE UNCHANGED <<file, torn>>
      <3>1. SubSeq(b, 1, 0) = <<>> /\ file \o <<>> = file /\ 0 \in 0..(Len(b) - 1)
        BY <1>1
      <3>. QED BY <2>1, <3>1
    <2>2. CASE torn' = TRUE /\ \E k \in 0..(Len(b) - 1) : file' = file \o SubSeq(b, 1, k)
      BY <2>2
    <2>. QED BY <2>1, <2>2 DEF Short
  <1>3. k \in 0..Len(b)
    BY <1>1
  <1>4. SubSeq(b, 1, k) \in Seq(Units)
    BY <1>3, ElemsCut
  <1>5. file' \in Seq(Units) /\ Elems(file) \subseteq Elems(file')
    BY <1>2, <1>4, ElemsConcat
  <1>. QED BY <1>2, <1>5

LEMMA InsertFailsIInv ==
  ASSUME IInv, NEW p \in Procs, InsertFails(p)
  PROVE  IInv'
  <1>. DEFINE m == mem[p]
              m2 == [m EXCEPT !.at = "release"]
              b == Append(Buffer(p), Unit(p, m.at))
  <1>1. /\ mem \in [Procs -> Memory] /\ m \in Memory /\ MemOK(m) /\ SinksOK(m)
        /\ file \in Seq(Units) /\ torn \in BOOLEAN
    BY Facts
  <1>2. /\ UNCHANGED <<count, returned, inherited, lost>> /\ spilled' \in BOOLEAN
        /\ m.at \in {"text", "newline"} /\ Short(b)
    BY DEF InsertFails, At
  <1>6. file' \in Seq(Units) /\ Elems(file) \subseteq Elems(file') /\ torn' \in BOOLEAN
    <2>1. Unit(p, m.at) \in Units /\ Buffer(p) \in Seq(Units)
      BY <1>1, <1>2, UnitType DEF Parts, Buffer, Memory
    <2>2. b \in Seq(Units)
      BY <2>1, ElemsAppend
    <2>. HIDE DEF b
    <2>. QED BY <1>1, <1>2, <2>2, ShortFacts
  <1>3. mem' = [mem EXCEPT ![p] = m2]
    BY <1>1 DEF InsertFails
  <1>4. MemOK(m2) /\ SinksOK(m2) /\ Kept(p, m2, Elems(file'))
    <2>1. m.at # "idle" /\ m.held \notin m.closed
      BY <1>1, <1>2 DEF SinksOK, Copied
    <2>. QED BY <1>1, <2>1, MovesOn
  <1>. HIDE DEF m2
  <1>5. Good(p, m2, Elems(file'))
    BY <1>4 DEF Good
  <1>. QED BY <1>2, <1>3, <1>5, <1>6, Facts, OneProcess
(* A flush that succeeds puts the whole line into the file. *)
LEMMA flushIInv ==
  ASSUME IInv, NEW p \in Procs, flush(p)
  PROVE  IInv'
  <1>. DEFINE m == mem[p]
  <1>1. /\ mem \in [Procs -> Memory] /\ file \in Seq(Units) /\ torn \in BOOLEAN
        /\ m \in Memory /\ MemOK(m) /\ SinksOK(m) /\ Kept(p, m, Elems(file))
        /\ returned \subseteq [by : Procs, n : 1..MaxLines, level : log]
    BY Facts
  <1>2. m.at = "flush" /\ UNCHANGED <<count, inherited, spilled, lost>>
    BY DEF flush, At
  <1>3. m.n \in 1..MaxLines /\ m.lv \in log /\ m.held \notin m.closed /\ Buffer(p) \in Seq(Units)
    BY <1>1, <1>2 DEF MemOK, SinksOK, Copied, Buffer, Memory
  <1>4. CASE /\ file' = file \o Buffer(p)
             /\ mem' = [mem EXCEPT ![p].buf[mem[p].held] = <<>>, ![p].at = "release"]
             /\ LogReturnsTrue(p) /\ UNCHANGED torn
    <2>. DEFINE m2 == AfterPut(m, <<>>, "release")
    <2>1. file' \in Seq(Units) /\ Elems(file') = Elems(file) \cup Elems(Buffer(p))
      <3>1. /\ file \o Buffer(p) \in Seq(Units)
            /\ Elems(file \o Buffer(p)) = Elems(file) \cup Elems(Buffer(p))
        BY <1>1, <1>3, ElemsConcat
      <3>. QED BY <1>4, <3>1
    <2>2. mem' = [mem EXCEPT ![p] = m2]
      BY <1>1, <1>4 DEF AfterPut
    <2>3. <<>> \in Seq(Units) /\ Len(<<>>) <= Cap
      OBVIOUS
    <2>4. MemOK(m2) /\ SinksOK(m2) /\ m2.at = "release"
      <3>1. m.at \in Copied /\ "release" \in {"newline", "flush", "release"}
        BY <1>2 DEF Copied
      <3>. HIDE DEF m, m2
      <3>2. LET x == AfterPut(m, <<>>, "release") IN
              MemOK(x) /\ SinksOK(x) /\ x.at = "release"
        BY <1>1, <2>3, <3>1, PutGood
      <3>. QED BY <3>2 DEF m2
    <2>. HIDE DEF m2
    <2>5. Good(p, m2, Elems(file'))
      BY <2>4 DEF Good, Kept
    <2>6. \A part \in Parts : [by |-> p, n |-> m.n, part |-> part] \in Elems(file')
      BY <1>1, <1>2, <2>1 DEF Kept, Inserted, Buffer, Parts
    <2>7. /\ returned' \subseteq [by : Procs, n : 1..MaxLines, level : log]
          /\ \A r \in returned' \ returned : r.by = p /\ r.n = m.n
      BY <1>1, <1>3, <1>4 DEF LogReturnsTrue
    <2>8. \A r \in returned' \ returned :
            \A part \in Parts : [by |-> r.by, n |-> r.n, part |-> part] \in Elems(file')
      BY <2>6, <2>7
    <2>. QED BY <1>1, <1>2, <1>4, <2>1, <2>2, <2>5, <2>7, <2>8, Facts, OneProcess
  <1>5. CASE Short(Buffer(p)) /\ mem' = [mem EXCEPT ![p].at = "release"] /\ UNCHANGED returned
    <2>. DEFINE m2 == [m EXCEPT !.at = "release"]
    <2>1. mem' = [mem EXCEPT ![p] = m2]
      BY <1>1, <1>5
    <2>2. MemOK(m2) /\ SinksOK(m2) /\ Kept(p, m2, Elems(file'))
      BY <1>1, <1>2, <1>3, MovesOn
    <2>. HIDE DEF m2
    <2>3. Good(p, m2, Elems(file'))
      BY <2>2 DEF Good
    <2>4. file' \in Seq(Units) /\ Elems(file) \subseteq Elems(file') /\ torn' \in BOOLEAN
      BY <1>1, <1>3, <1>5, ShortFacts
    <2>. QED BY <1>2, <1>5, <2>1, <2>3, <2>4, Facts, OneProcess
  <1>. QED BY <1>4, <1>5 DEF flush

(* A buffer that is written out, or lost, on closing. *)
LEMMA WriteOutFacts ==
  ASSUME NEW b \in Seq(Units), file \in Seq(Units), lost \in BOOLEAN, torn \in BOOLEAN,
         WriteOut(b)
  PROVE  /\ file' \in Seq(Units) /\ Elems(file) \subseteq Elems(file')
         /\ lost' \in BOOLEAN /\ torn' \in BOOLEAN
  <1>1. CASE file' = file \o b /\ UNCHANGED <<lost, torn>>
    <2>1. file \o b \in Seq(Units) /\ Elems(file \o b) = Elems(file) \cup Elems(b)
      BY ElemsConcat
    <2>. QED BY <1>1, <2>1
  <1>2. CASE Short(b) /\ lost' = TRUE
    BY <1>2, ShortFacts
  <1>. QED BY <1>1, <1>2 DEF WriteOut

(* The fields of a memory in which a logger's sinks are destroyed. *)
LEMMA ClosedFields ==
  ASSUME NEW m \in Memory, NEW g \in Loggers
  PROVE  LET m2 == Closed(m, g) IN
           /\ m2 \in Memory /\ m2.closed = m.closed \cup {g}
           /\ m2.buf = [m.buf EXCEPT ![g] = <<>>] /\ m2.current = m.current
           /\ m2.held = m.held /\ m2.at = m.at /\ m2.n = m.n /\ m2.lv = m.lv
  <1>. DEFINE m2 == Closed(m, g)
  <1>1. m.buf \in [Loggers -> Seq(Units)] /\ m.closed \cup {g} \in SUBSET Loggers
    BY DEF Memory
  <1>2. [m.buf EXCEPT ![g] = <<>>] \in [Loggers -> Seq(Units)]
    BY <1>1
  <1>3. m2 = [m EXCEPT !.closed = m.closed \cup {g}, !.buf = [m.buf EXCEPT ![g] = <<>>]]
    BY DEF Closed
  <1>. HIDE DEF m2
  <1>4. /\ m2 \in Memory /\ m2.closed = m.closed \cup {g}
        /\ m2.buf = [m.buf EXCEPT ![g] = <<>>] /\ m2.current = m.current
        /\ m2.held = m.held /\ m2.at = m.at /\ m2.n = m.n /\ m2.lv = m.lv
    BY <1>1, <1>2, <1>3 DEF Memory
  <1>. QED BY <1>4 DEF m2

LEMMA ReleaseIInv ==
  ASSUME IInv, NEW p \in Procs, Release(p)
  PROVE  IInv'
  <1>. DEFINE m == mem[p]
  <1>1. /\ mem \in [Procs -> Memory] /\ file \in Seq(Units) /\ lost \in BOOLEAN /\ torn \in BOOLEAN
        /\ m \in Memory /\ MemOK(m) /\ SinksOK(m)
    BY Facts
  <1>2. m.at = "release" /\ UNCHANGED <<count, returned, inherited, spilled>>
    BY DEF Release, At
  <1>3. CASE mem' = [mem EXCEPT ![p].at = "idle"] /\ UNCHANGED <<file, lost, torn>>
    <2>. DEFINE m2 == [m EXCEPT !.at = "idle"]
    <2>1. mem' = [mem EXCEPT ![p] = m2]
      BY <1>1, <1>3
    <2>2. MemOK(m2) /\ SinksOK(m2) /\ Kept(p, m2, Elems(file'))
      BY <1>1, <1>2, MovesOn
    <2>. HIDE DEF m2
    <2>3. Good(p, m2, Elems(file'))
      BY <2>2 DEF Good
    <2>. QED BY <1>2, <1>3, <2>1, <2>3, Facts, OneProcess
  <1>4. CASE /\ m.held # m.current
             /\ WriteOut(Buffer(p))
             /\ mem' = [mem EXCEPT ![p] = [Closed(@, mem[p].held) EXCEPT !.at = "idle"]]
    <2>. DEFINE c == Closed(m, m.held)
                m2 == [c EXCEPT !.at = "idle"]
    <2>1. mem' = [mem EXCEPT ![p] = m2]
      BY <1>1, <1>4
    <2>2. m.held \in Loggers /\ m.current \in Loggers /\ Buffer(p) \in Seq(Units)
      BY <1>1 DEF Memory, Buffer
    <2>3. /\ c \in Memory /\ c.closed = m.closed \cup {m.held}
          /\ c.buf = [m.buf EXCEPT ![m.held] = <<>>] /\ c.current = m.current
          /\ c.held = m.held /\ c.at = m.at /\ c.n = m.n /\ c.lv = m.lv
      BY <1>1, <2>2, ClosedFields
    <2>. HIDE DEF c
    <2>4. /\ m2 \in Memory /\ m2.closed = c.closed /\ m2.buf = c.buf
          /\ m2.current = c.current /\ m2.held = c.held /\ m2.at = "idle"
      BY <2>3 DEF Memory
    <2>. HIDE DEF m2
    <2>5. \A g \in Loggers : Len(m2.buf[g]) <= Cap
      BY <1>1, <2>3, <2>4 DEF MemOK, Memory
    <2>6. m.held < m.current
      BY <1>1, <1>4, <2>2, Levelled DEF SinksOK
    <2>7. SinksOK(m2)
      BY <1>1, <2>3, <2>4, <2>6 DEF SinksOK, Copied
    <2>8. Good(p, m2, Elems(file'))
      BY <2>4, <2>5, <2>7 DEF Good, MemOK, Kept
    <2>9. /\ file' \in Seq(Units) /\ Elems(file) \subseteq Elems(file')
          /\ lost' \in BOOLEAN /\ torn' \in BOOLEAN
      BY <1>1, <1>4, <2>2, WriteOutFacts
    <2>. QED BY <1>2, <2>1, <2>8, <2>9, Facts, OneProcess
  <1>. QED BY <1>3, <1>4 DEF Release
(* The sinks a LogStream shares outlive the logger that is replaced. *)
LEMMA ReloadIInv ==
  ASSUME IInv, NEW l \in Levels, Reload(l)
  PROVE  IInv'
  <1>. DEFINE m == mem[Server]
              r == [m EXCEPT !.current = m.current + 1, !.level = l]
  <1>0. Server \in Procs
    BY DEF Procs
  <1>1. /\ mem \in [Procs -> Memory] /\ file \in Seq(Units) /\ lost \in BOOLEAN /\ torn \in BOOLEAN
        /\ m \in Memory /\ MemOK(m) /\ SinksOK(m) /\ Kept(Server, m, Elems(file))
    BY <1>0, Facts
  <1>2. m.current < MaxLoggers /\ UNCHANGED <<count, returned, inherited, spilled>>
    BY DEF Reload
  <1>3. /\ m.current \in Loggers /\ m.held \in Loggers /\ m.current + 1 \in Loggers
        /\ m.current \in Nat /\ m.held \in Nat /\ m.closed \subseteq Nat
    <2>1. m.current \in Loggers /\ m.held \in Loggers /\ m.closed \subseteq Loggers
      BY <1>1 DEF Memory
    <2>2. m.current + 1 \in Loggers
      BY <1>2, <2>1 DEF Loggers
    <2>. QED BY <2>1, <2>2, Levelled
  <1>4. /\ r \in Memory /\ r.closed = m.closed /\ r.buf = m.buf /\ r.current = m.current + 1
        /\ r.held = m.held /\ r.at = m.at /\ r.n = m.n /\ r.lv = m.lv
    BY <1>1, <1>3 DEF Memory
  <1>5. \/ Shared(m) /\ mem' = [mem EXCEPT ![Server] = r] /\ UNCHANGED <<file, lost, torn>>
        \/ /\ ~Shared(m) /\ mem' = [mem EXCEPT ![Server] = Closed(r, m.current)]
           /\ WriteOut(m.buf[m.current])
    BY DEF Reload
  <1>. HIDE DEF r
  <1>6. CASE Shared(m) /\ mem' = [mem EXCEPT ![Server] = r] /\ UNCHANGED <<file, lost, torn>>
    <2>1. MemOK(r) /\ Kept(Server, r, Elems(file'))
      BY <1>1, <1>4, <1>6 DEF MemOK, Kept, Inserted
    <2>2. SinksOK(r)
      <3>1. \A g \in m.closed : g < m.current + 1
        BY <1>1, <1>3 DEF SinksOK
      <3>2. m.held <= m.current + 1
        BY <1>1, <1>3 DEF SinksOK
      <3>. QED BY <1>1, <1>4, <3>1, <3>2 DEF SinksOK
    <2>3. Good(Server, r, Elems(file'))
      BY <2>1, <2>2 DEF Good
    <2>. QED BY <1>0, <1>2, <1>6, <2>3, Facts, OneProcess
  <1>7. CASE /\ ~Shared(m) /\ mem' = [mem EXCEPT ![Server] = Closed(r, m.current)]
             /\ WriteOut(m.buf[m.current])
    <2>. DEFINE c == Closed(r, m.current)
    <2>1. /\ c \in Memory /\ c.closed = m.closed \cup {m.current}
          /\ c.buf = [m.buf EXCEPT ![m.current] = <<>>] /\ c.current = m.current + 1
          /\ c.held = m.held /\ c.at = m.at /\ c.n = m.n /\ c.lv = m.lv
      <3>1. /\ c \in Memory /\ c.closed = r.closed \cup {m.current}
            /\ c.buf = [r.buf EXCEPT ![m.current] = <<>>] /\ c.current = r.current
            /\ c.held = r.held /\ c.at = r.at /\ c.n = r.n /\ c.lv = r.lv
        BY <1>3, <1>4, ClosedFields
      <3>. HIDE DEF c
      <3>. QED BY <1>4, <3>1
    <2>. HIDE DEF c
    <2>2. /\ file' \in Seq(Units) /\ Elems(file) \subseteq Elems(file')
          /\ lost' \in BOOLEAN /\ torn' \in BOOLEAN
      <3>1. m.buf[m.current] \in Seq(Units)
        BY <1>1, <1>3 DEF Memory
      <3>. QED BY <1>1, <1>7, <3>1, WriteOutFacts
    <2>3. \A g \in Loggers : Len(c.buf[g]) <= Cap
      BY <1>1, <2>1 DEF MemOK, Memory
    <2>4. MemOK(c)
      BY <1>1, <2>1, <2>3 DEF MemOK
    <2>5. SinksOK(c)
      <3>1. \A g \in m.closed \cup {m.current} : g < m.current + 1
        BY <1>1, <1>3 DEF SinksOK
      <3>2. m.held <= m.current + 1
        BY <1>1, <1>3 DEF SinksOK
      <3>3. m.at \in Copied => m.held \notin m.closed \cup {m.current}
        BY <1>1, <1>7 DEF SinksOK, Shared
      <3>. QED BY <2>1, <3>1, <3>2, <3>3 DEF SinksOK
    <2>6. m.at \in Copied => c.buf[c.held] = m.buf[m.held]
      BY <1>1, <1>3, <1>7, <2>1 DEF Shared, Memory
    <2>7. Kept(Server, c, Elems(file'))
      BY <1>1, <2>1, <2>2, <2>6 DEF Kept, Inserted, Copied
    <2>8. Good(Server, c, Elems(file'))
      BY <2>4, <2>5, <2>7 DEF Good
    <2>9. mem' = [mem EXCEPT ![Server] = c]
      BY <1>7 DEF c
    <2>. QED BY <1>0, <1>2, <2>2, <2>8, <2>9, Facts, OneProcess
  <1>. QED BY <1>5, <1>6, <1>7

LEMMA forkIInv ==
  ASSUME IInv, NEW c \in Children, fork(c)
  PROVE  IInv'
  <1>. DEFINE m == mem[Server]
              b == m.buf[m.current]
  <1>0. Server \in Procs /\ c \in Procs
    BY DEF Procs
  <1>1. m \in Memory /\ MemOK(m) /\ SinksOK(m) /\ inherited \in [Children -> SUBSET Units]
    BY <1>0, Facts
  <1>2. m.at = "idle" /\ mem' = [mem EXCEPT ![c] = m]
        /\ UNCHANGED <<file, count, returned, spilled, lost, torn>>
    BY DEF fork, At
  <1>3. inherited' \in [Children -> SUBSET Units]
    <2>1. b \in Seq(Units)
      BY <1>1 DEF Memory
    <2>2. {b[i] : i \in DOMAIN b} \in SUBSET Units
      BY <2>1
    <2>3. inherited' = [inherited EXCEPT ![c] = {b[i] : i \in DOMAIN b}]
      BY DEF fork
    <2>. QED BY <1>1, <2>2, <2>3
  <1>4. Good(c, m, Elems(file'))
    BY <1>1, <1>2 DEF Good, Kept
  <1>. QED BY <1>0, <1>2, <1>3, <1>4, Facts, OneProcess

LEMMA EndIInv ==
  ASSUME IInv, (\E p \in Procs : Killed(p)) \/ Exit
  PROVE  IInv'
  <1>1. ASSUME NEW p \in Procs, Killed(p) PROVE IInv'
    <2>1. /\ mem' = [mem EXCEPT ![p] = NoMemory("gone")]
          /\ UNCHANGED <<file, count, returned, inherited, spilled, lost, torn>>
      BY <1>1 DEF Killed, histVars
    <2>2. Good(p, NoMemory("gone"), Elems(file'))
      BY NoMemoryGood
    <2>. QED BY <2>1, <2>2, Facts, OneProcess
  <1>2. CASE Exit
    <2>. DEFINE b == mem[Server].buf[mem[Server].current]
    <2>0. Server \in Procs
      BY DEF Procs
    <2>1. /\ mem' = [mem EXCEPT ![Server] = NoMemory("gone")] /\ WriteOut(b)
          /\ UNCHANGED <<count, returned, inherited, spilled>>
      BY <1>2 DEF Exit
    <2>2. Good(Server, NoMemory("gone"), Elems(file'))
      BY NoMemoryGood
    <2>3. b \in Seq(Units) /\ file \in Seq(Units) /\ lost \in BOOLEAN /\ torn \in BOOLEAN
      BY <2>0, Facts DEF Memory
    <2>4. /\ file' \in Seq(Units) /\ Elems(file) \subseteq Elems(file')
          /\ lost' \in BOOLEAN /\ torn' \in BOOLEAN
      BY <2>1, <2>3, WriteOutFacts
    <2>. QED BY <2>0, <2>1, <2>2, <2>4, Facts, OneProcess
  <1>. QED BY <1>1, <1>2

(* Every step keeps the invariant. *)
LEMMA NextIInv == IInv /\ [Next]_vars => IInv'
  <1>. SUFFICES ASSUME IInv, [Next]_vars PROVE IInv'
    OBVIOUS
  <1>1. ASSUME NEW p \in Procs, LOG(p) PROVE IInv'
    <2>1. ASSUME NEW l, Check(p, l), l \in log \cup {unknown} PROVE IInv'
      BY <2>1, CheckIInv
    <2>2. ASSUME NEW code \in Codes,
                 Check(p, to_log_retCode(code)) \/ Check(p, to_log_http(to_http_status(code)))
          PROVE  IInv'
      <3>1. /\ to_log_retCode(code) \in log \cup {unknown}
            /\ to_log_http(to_http_status(code)) \in log \cup {unknown}
        BY LevelOfClassType DEF to_log_retCode, to_log_http
      <3>. QED BY <2>1, <2>2, <3>1
    <2>. QED BY <1>1, <2>2, GetIInv, CopyIInv, TextIInv, NewlineIInv, InsertFailsIInv,
                flushIInv, ReleaseIInv DEF LOG
  <1>2. CASE UNCHANGED vars
    BY <1>2 DEF vars, histVars, IInv, TypeOK, ImportantIsDurable, Written
  <1>. QED BY <1>1, <1>2, ReloadIInv, forkIInv, EndIInv DEF Next

-----------------------------------------------------------------------------
(* The logger whose sinks a process writes to, or will write to next, and  *)
(* the buffer of its FileSink.                                             *)
Use(m) == IF m.at \in Copied THEN m.held ELSE m.current
Buf == [p \in Procs |-> mem[p].buf[Use(mem[p])]]

(* All other buffers of a process are empty; a reference to the logger     *)
(* that is not the one in force is a reference to a freed one.             *)
OneBuffer(m) ==
  /\ \A g \in Loggers : g # Use(m) => m.buf[g] = <<>>
  /\ m.at = "copy" => m.held = m.current \/ m.held \in m.closed
OneBuf == \A p \in Procs : OneBuffer(mem[p])

(* What a step is to the file and the buffers. *)
Others(p) == \A q \in Procs : q # p => mem'[q] = mem[q]
Runs(p) == mem[p].state = "running" /\ mem'[p].state = "running"
SameLine(p) == Runs(p) /\ mem'[p].n = mem[p].n /\ count' = count /\ inherited' = inherited
Still == file' = file /\ Buf' = Buf
Empties(p) == Buf' = [Buf EXCEPT ![p] = <<>>]
Out(p) == file' = file \o Buf[p] /\ Empties(p)
Partly(p) ==
  \E k \in 0..Len(Buf[p]) :
    file' = file \o SubSeq(Buf[p], 1, k) /\ ((k = 0 /\ torn' = torn) \/ torn' = TRUE)
Numbered == {"get", "copy", "text"}         \* nothing of the line is inserted

Begins(p) ==
  /\ Runs(p) /\ Still
  /\ mem[p].at = "idle" /\ mem'[p].at = "get" /\ mem'[p].n = count + 1 /\ count' = count + 1
  /\ UNCHANGED histVars
Proceeds(p) ==
  /\ SameLine(p) /\ Still
  /\ mem'[p].at \in Numbered => mem[p].at \in Numbered
  /\ mem'[p].at \in {"newline", "flush"} => mem'[p].at = mem[p].at
  /\ mem[p].at = "newline" => mem'[p].at = "newline"
  /\ UNCHANGED <<returned, spilled, lost, torn>>
Retries(p) ==
  /\ SameLine(p) /\ Partly(p) /\ Buf' = Buf
  /\ mem[p].at \in {"text", "newline", "flush"} /\ mem'[p].at = "release"
  /\ (spilled' = spilled /\ mem[p].at # "newline") \/ spilled' = TRUE
  /\ UNCHANGED <<returned, lost>>
Inserts(p, part) ==
  LET c == Append(Buf[p], Unit(p, part)) IN
  /\ SameLine(p)
  /\ \E k \in 0..Len(c) :
       /\ file' = file \o SubSeq(c, 1, k)
       /\ Buf' = [Buf EXCEPT ![p] = SubSeq(c, k + 1, Len(c))]
       /\ (spilled' = spilled /\ k = 0) \/ spilled' = TRUE
  /\ \/ part = "text" /\ mem[p].at = "text" /\ mem'[p].at = "newline" /\ returned' = returned
     \/ part = "newline" /\ mem[p].at = "newline" /\ mem'[p].at = "flush" /\ returned' = returned
     \/ /\ part = "newline" /\ mem[p].at = "newline" /\ mem'[p].at = "release"
        /\ ~important_log(mem[p].lv) /\ LogReturnsTrue(p)
  /\ UNCHANGED <<lost, torn>>
Flushes(p) ==
  /\ SameLine(p) /\ Out(p)
  /\ mem[p].at = "flush" /\ mem'[p].at = "release" /\ LogReturnsTrue(p)
  /\ UNCHANGED <<spilled, lost, torn>>
Closes(p) ==
  /\ SameLine(p)
  /\ mem[p].at # "newline" /\ mem'[p].at \notin {"text", "newline", "flush"}
  /\ mem'[p].at \in Numbered => mem[p].at \in Numbered
  /\ \/ Out(p) /\ lost' = lost /\ torn' = torn
     \/ Empties(p) /\ Partly(p) /\ lost' = TRUE
  /\ UNCHANGED <<returned, spilled>>
Ends(p) ==
  /\ mem[p].state = "running" /\ mem'[p].state = "gone" /\ mem'[p].at = "idle" /\ mem'[p].n = 0
  /\ \/ Empties(p) /\ file' = file /\ lost' = lost /\ torn' = torn
     \/ Empties(p) /\ Partly(p) /\ lost' = TRUE
     \/ Out(p) /\ mem[p].at = "idle" /\ lost' = lost /\ torn' = torn
  /\ UNCHANGED <<count, returned, inherited, spilled>>
Forks(c) ==
  /\ c \in Children /\ mem[c].state = "unborn" /\ mem'[c] = mem[Server]
  /\ mem[Server].state = "running" /\ mem[Server].at = "idle"
  /\ file' = file /\ Buf' = [Buf EXCEPT ![c] = Buf[Server]]
  /\ inherited' = [inherited EXCEPT ![c] = Elems(Buf[Server])]
  /\ UNCHANGED <<count, returned, spilled, lost, torn>>

EffectOf(p) ==
  \/ Begins(p) \/ Proceeds(p) \/ Retries(p) \/ Flushes(p) \/ Closes(p) \/ Ends(p) \/ Forks(p)
  \/ \E part \in Parts : Inserts(p, part)
Effect == \E p \in Procs : Others(p) /\ EffectOf(p)

USE DEF EffectOf

(* What the buffer in use of a process holds, and all units there are. *)
Holds(p) == Elems(Buf[p])
Live == Elems(file) \cup UNION {Holds(p) : p \in Procs}

LEMMA BufType ==
  IInv => /\ Buf \in [Procs -> Seq(Units)] /\ file \in Seq(Units)
          /\ \A p \in Procs : Holds(p) \subseteq Units
          /\ Elems(file) \subseteq Units
  <1>. SUFFICES ASSUME IInv
       PROVE  /\ Buf \in [Procs -> Seq(Units)] /\ file \in Seq(Units)
              /\ \A p \in Procs : Holds(p) \subseteq Units
              /\ Elems(file) \subseteq Units
    OBVIOUS
  <1>1. ASSUME NEW p \in Procs PROVE mem[p].buf[Use(mem[p])] \in Seq(Units)
    <2>1. mem[p] \in Memory
      BY Facts
    <2>2. mem[p].buf \in [Loggers -> Seq(Units)] /\ Use(mem[p]) \in Loggers
      BY <2>1 DEF Memory, Use
    <2>. QED BY <2>2
  <1>2. Buf \in [Procs -> Seq(Units)]
    BY <1>1 DEF Buf
  <1>3. file \in Seq(Units)
    BY DEF IInv, TypeOK
  <1>4. \A s \in Seq(Units) : Elems(s) \subseteq Units
    BY DEF Elems
  <1>. QED BY <1>2, <1>3, <1>4 DEF Holds

LEMMA OneChanges ==
  ASSUME IInv, OneBuf, NEW p \in Procs, NEW m \in Memory, OneBuffer(m), mem' = [mem EXCEPT ![p] = m]
  PROVE  /\ OneBuf' /\ Others(p) /\ mem'[p] = m
         /\ Buf' = [Buf EXCEPT ![p] = m.buf[Use(m)]]
  <1>1. mem \in [Procs -> Memory] BY DEF IInv, TypeOK
  <1>2. mem'[p] = m /\ \A q \in Procs : q # p => mem'[q] = mem[q] BY <1>1
  <1>3. OneBuf' BY <1>2 DEF OneBuf
  <1>4. DOMAIN Buf' = Procs /\ DOMAIN Buf = Procs
    BY DEF Buf
  <1>5. Buf'[p] = m.buf[Use(m)] /\ \A q \in Procs : q # p => Buf'[q] = Buf[q]
    BY <1>2 DEF Buf
  <1>6. Buf' = [q \in Procs |-> Buf'[q]]
    BY DEF Buf
  <1>7. Buf' = [Buf EXCEPT ![p] = m.buf[Use(m)]]
    BY <1>4, <1>5, <1>6
  <1>. QED BY <1>2, <1>3, <1>7 DEF Others

(* A step after which the process uses the same buffer leaves all of them. *)
LEMMA OneStays ==
  ASSUME IInv, OneBuf, NEW p \in Procs, NEW m \in Memory, mem' = [mem EXCEPT ![p] = m],
         m.buf = mem[p].buf, Use(m) = Use(mem[p]),
         m.at = "copy" => m.held = m.current \/ m.held \in m.closed
  PROVE  OneBuf' /\ Others(p) /\ mem'[p] = m /\ Buf' = Buf
  <1>1. OneBuffer(m) BY DEF OneBuf, OneBuffer
  <1>2. /\ OneBuf' /\ Others(p) /\ mem'[p] = m
        /\ Buf' = [Buf EXCEPT ![p] = m.buf[Use(m)]]
    BY <1>1, OneChanges
  <1>3. m.buf[Use(m)] = Buf[p] BY DEF Buf
  <1>4. [Buf EXCEPT ![p] = Buf[p]] = Buf BY DEF Buf
  <1>. QED BY <1>2, <1>3, <1>4

-----------------------------------------------------------------------------
LEMMA CheckEffect ==
  ASSUME IInv, OneBuf, NEW p \in Procs, NEW l \in log \cup {unknown}, Check(p, l)
  PROVE  OneBuf' /\ Others(p) /\ Begins(p)
  <1>. DEFINE m == mem[p]
              m2 == [m EXCEPT !.n = count + 1, !.lv = l, !.at = "get"]
  <1>1. mem \in [Procs -> Memory] /\ m \in Memory /\ count \in 0..MaxLines
    BY Facts
  <1>2. /\ mem' = [mem EXCEPT ![p] = m2] /\ count' = count + 1 /\ count < MaxLines
        /\ m.at = "idle" /\ m.state = "running"
    BY <1>1 DEF Check, At
  <1>3. UNCHANGED file /\ UNCHANGED histVars
    BY DEF Check
  <1>4. count + 1 \in 0..MaxLines
    BY <1>1, <1>2
  <1>5. /\ m2 \in Memory /\ m2.buf = m.buf /\ m2.current = m.current /\ m2.state = "running"
        /\ m2.at = "get" /\ m2.n = count + 1
    BY <1>1, <1>2, <1>4 DEF Memory
  <1>6. Use(m2) = Use(m)
    BY <1>2, <1>5 DEF Use, Copied
  <1>. HIDE DEF m2
  <1>7. OneBuf' /\ Others(p) /\ mem'[p] = m2 /\ Buf' = Buf
    BY <1>2, <1>5, <1>6, OneStays
  <1>. QED BY <1>2, <1>3, <1>5, <1>7 DEF Begins, Runs, Still

LEMMA GetEffect ==
  ASSUME IInv, OneBuf, NEW p \in Procs, Get(p)
  PROVE  OneBuf' /\ Others(p) /\ Proceeds(p)
  <1>. DEFINE m == mem[p]
              m2 == [m EXCEPT !.held = m.current, !.at = "copy"]
  <1>1. mem \in [Procs -> Memory] /\ m \in Memory
    BY Facts
  <1>2. mem' = [mem EXCEPT ![p] = m2] /\ m.at = "get" /\ m.state = "running"
    BY <1>1 DEF Get, At
  <1>3. UNCHANGED <<file, count, returned, inherited, spilled, lost, torn>>
    BY DEF Get, histVars
  <1>4. /\ m2 \in Memory /\ m2.buf = m.buf /\ m2.current = m.current /\ m2.held = m.current
        /\ m2.state = "running" /\ m2.at = "copy" /\ m2.n = m.n
    BY <1>1, <1>2 DEF Memory
  <1>5. Use(m2) = Use(m)
    BY <1>2, <1>4 DEF Use, Copied
  <1>. HIDE DEF m2
  <1>6. OneBuf' /\ Others(p) /\ mem'[p] = m2 /\ Buf' = Buf
    BY <1>2, <1>4, <1>5, OneStays
  <1>. QED BY <1>2, <1>3, <1>4, <1>6 DEF Proceeds, SameLine, Runs, Still, Numbered

(* Steps that move on in LOG and leave the buffers. *)
LEMMA MoveEffect ==
  ASSUME IInv, OneBuf, NEW p \in Procs, NEW place \in {"idle", "text", "release"},
         mem[p].state = "running", mem' = [mem EXCEPT ![p].at = place],
         mem[p].at \in {"copy"} \cup Copied,
         place = "idle" /\ mem[p].at \in Copied => mem[p].held = mem[p].current,
         place \in Copied /\ mem[p].at = "copy" => mem[p].held \notin mem[p].closed,
         UNCHANGED <<count, inherited>>
  PROVE  OneBuf' /\ Others(p) /\ SameLine(p) /\ Buf' = Buf /\ mem'[p].at = place
  <1>. DEFINE m == mem[p]
              m2 == [m EXCEPT !.at = place]
  <1>1. mem \in [Procs -> Memory] /\ m \in Memory
    BY Facts
  <1>2. mem' = [mem EXCEPT ![p] = m2]
    BY <1>1
  <1>3. /\ m2 \in Memory /\ m2.buf = m.buf /\ m2.current = m.current /\ m2.held = m.held
        /\ m2.state = "running" /\ m2.at = place /\ m2.n = m.n
    BY <1>1 DEF Memory, Copied
  <1>4. m.at = "copy" => m.held = m.current \/ m.held \in m.closed
    BY DEF OneBuf, OneBuffer
  <1>5. Use(m2) = Use(m)
    BY <1>3, <1>4 DEF Use, Copied
  <1>. HIDE DEF m2
  <1>6. OneBuf' /\ Others(p) /\ mem'[p] = m2 /\ Buf' = Buf
    BY <1>2, <1>3, <1>5, OneStays
  <1>. QED BY <1>3, <1>6 DEF SameLine, Runs

LEMMA CopyEffect ==
  ASSUME IInv, OneBuf, NEW p \in Procs, Copy(p)
  PROVE  OneBuf' /\ Others(p) /\ Proceeds(p)
  <1>1. PICK place \in IF mem[p].held \in mem[p].closed THEN {"idle"} ELSE {"text", "release"} :
          mem' = [mem EXCEPT ![p].at = place]
    BY DEF Copy
  <1>2. mem[p].state = "running" /\ mem[p].at = "copy"
    BY DEF Copy, At
  <1>3. UNCHANGED <<file, count, returned, inherited, spilled, lost, torn>>
    BY DEF Copy, histVars
  <1>4. /\ place \in {"idle", "text", "release"}
        /\ place \in Copied => mem[p].held \notin mem[p].closed
    BY <1>1 DEF Copied
  <1>5. OneBuf' /\ Others(p) /\ SameLine(p) /\ Buf' = Buf /\ mem'[p].at = place
    BY <1>1, <1>2, <1>3, <1>4, MoveEffect DEF Copied
  <1>. QED BY <1>2, <1>3, <1>4, <1>5 DEF Proceeds, Still, Numbered

(* A failing write of a buffer, with or without a unit that did not fit. *)
LEMMA ShortPartly ==
  ASSUME IInv, NEW p \in Procs, NEW b \in Seq(Units), Short(b),
         b = Buf[p] \/ \E u \in Units : b = Append(Buf[p], u)
  PROVE  Partly(p)
  <1>1. Buf[p] \in Seq(Units) /\ file \in Seq(Units) /\ torn \in BOOLEAN
    BY BufType DEF IInv, TypeOK
  <1>2. PICK k \in 0..(Len(b) - 1) :
          file' = file \o SubSeq(b, 1, k) /\ ((k = 0 /\ torn' = torn) \/ torn' = TRUE)
    BY <1>1, ShortFacts
  <1>3. CASE b = Buf[p]
    <2>1. k \in 0..Len(Buf[p]) /\ SubSeq(b, 1, k) = SubSeq(Buf[p], 1, k)
      BY <1>1, <1>3
    <2>. QED BY <1>2, <2>1 DEF Partly
  <1>4. ASSUME NEW u \in Units, b = Append(Buf[p], u) PROVE Partly(p)
    <2>1. Len(b) = Len(Buf[p]) + 1 /\ Len(Buf[p]) \in Nat
      BY <1>1, <1>4
    <2>2. k \in 0..Len(Buf[p])
      BY <2>1
    <2>3. SubSeq(b, 1, k) = SubSeq(Buf[p], 1, k)
      BY <1>1, <1>4, <2>2
    <2>. QED BY <1>2, <2>2, <2>3 DEF Partly
  <1>. QED BY <1>3, <1>4

LEMMA InsertFailsEffect ==
  ASSUME IInv, OneBuf, NEW p \in Procs, InsertFails(p)
  PROVE  OneBuf' /\ Others(p) /\ Retries(p)
  <1>. DEFINE u == Unit(p, mem[p].at)
              b == Append(Buffer(p), u)
  <1>1. mem[p].state = "running" /\ mem[p].at \in {"text", "newline"}
    BY DEF InsertFails, At
  <1>2. /\ mem' = [mem EXCEPT ![p].at = "release"] /\ spilled' = TRUE /\ Short(b)
        /\ UNCHANGED <<count, returned, inherited, lost>>
    BY DEF InsertFails
  <1>3. OneBuf' /\ Others(p) /\ SameLine(p) /\ Buf' = Buf /\ mem'[p].at = "release"
    BY <1>1, <1>2, MoveEffect DEF Copied
  <1>4. Buffer(p) = Buf[p] /\ Buf[p] \in Seq(Units)
    BY <1>1, BufType DEF Buffer, Buf, Use, Copied
  <1>5. u \in Units
    BY <1>1, UnitType DEF Parts
  <1>. HIDE DEF u
  <1>6. b \in Seq(Units) /\ b = Append(Buf[p], u)
    BY <1>4, <1>5
  <1>. HIDE DEF b
  <1>7. Partly(p)
    BY <1>2, <1>5, <1>6, ShortPartly
  <1>. QED BY <1>1, <1>2, <1>3, <1>7 DEF Retries

LEMMA PutEffect ==
  ASSUME IInv, OneBuf, NEW p \in Procs, NEW part \in Parts, mem[p].at \in Copied,
         NEW place \in {"newline", "flush", "release"}, Put(p, Unit(p, part), place)
  PROVE  LET c == Append(Buf[p], Unit(p, part)) IN
           /\ OneBuf' /\ Others(p) /\ mem'[p].at = place
           /\ mem'[p].state = mem[p].state /\ mem'[p].n = mem[p].n
           /\ \E k \in 0..Len(c) :
                /\ file' = file \o SubSeq(c, 1, k)
                /\ Buf' = [Buf EXCEPT ![p] = SubSeq(c, k + 1, Len(c))]
                /\ (spilled' = spilled /\ k = 0) \/ spilled' = TRUE
  <1>. DEFINE m == mem[p]
              c == Append(Buf[p], Unit(p, part))
  <1>1. /\ mem \in [Procs -> Memory] /\ file \in Seq(Units) /\ spilled \in BOOLEAN
        /\ m \in Memory /\ MemOK(m) /\ SinksOK(m)
    BY Facts
  <1>2. /\ m.buf \in [Loggers -> Seq(Units)] /\ m.held \in Loggers /\ m.n \in 1..MaxLines
        /\ Use(m) = m.held
    BY <1>1 DEF Memory, MemOK, Copied, Use
  <1>3. Buf[p] = Buffer(p) /\ Buf[p] \in Seq(Units) /\ Unit(p, part) \in Units
    BY <1>2 DEF Buf, Buffer, Unit, Units
  <1>4. c \in Seq(Units) /\ Len(c) = Len(Buf[p]) + 1 /\ Len(Buf[p]) <= Cap
    BY <1>1, <1>2, <1>3, ElemsAppend DEF MemOK, Buffer
  <1>5. PICK k \in IF Len(c) > Cap THEN {Cap, Cap + 1} ELSE {0} :
          /\ file' = file \o SubSeq(c, 1, k)
          /\ mem' = [mem EXCEPT ![p].buf[mem[p].held] = SubSeq(c, k + 1, Len(c)), ![p].at = place]
          /\ spilled' = (spilled \/ Len(c) > Cap)
    BY <1>3 DEF Put
  <1>6. k \in 0..Len(c) /\ (Len(c) > Cap \/ k = 0)
    BY <1>3, <1>4
  <1>7. (spilled' = spilled /\ k = 0) \/ spilled' = TRUE
    BY <1>1, <1>5, <1>6
  <1>. DEFINE b == SubSeq(c, k + 1, Len(c))
              m2 == [m EXCEPT !.buf = [m.buf EXCEPT ![m.held] = b], !.at = place]
  <1>. HIDE DEF c
  <1>8. b \in Seq(Units)
    BY <1>4, <1>6, ElemsCut
  <1>9. mem' = [mem EXCEPT ![p] = m2]
    BY <1>1, <1>5
  <1>10. [m.buf EXCEPT ![m.held] = b] \in [Loggers -> Seq(Units)]
    BY <1>2, <1>8
  <1>11. /\ m2 \in Memory /\ m2.buf = [m.buf EXCEPT ![m.held] = b] /\ m2.at = place
         /\ m2.held = m.held /\ m2.state = m.state /\ m2.n = m.n
    BY <1>1, <1>10 DEF Memory, Copied
  <1>. HIDE DEF m2, b
  <1>12. Use(m2) = m.held /\ m2.buf[Use(m2)] = b
    BY <1>2, <1>11 DEF Use, Copied
  <1>13. OneBuffer(m2)
    <2>1. \A g \in Loggers : g # m.held => m.buf[g] = <<>>
      BY <1>2 DEF OneBuf, OneBuffer
    <2>. QED BY <1>2, <1>11, <1>12, <2>1 DEF OneBuffer
  <1>14. OneBuf' /\ Others(p) /\ mem'[p] = m2 /\ Buf' = [Buf EXCEPT ![p] = b]
    BY <1>9, <1>11, <1>12, <1>13, OneChanges
  <1>. QED BY <1>5, <1>6, <1>7, <1>11, <1>14 DEF b, c

LEMMA TextEffect ==
  ASSUME IInv, OneBuf, NEW p \in Procs, Text(p)
  PROVE  OneBuf' /\ Others(p) /\ Inserts(p, "text")
  <1>1. /\ mem[p].state = "running" /\ mem[p].at = "text" /\ Put(p, Unit(p, "text"), "newline")
        /\ UNCHANGED <<count, returned, inherited, lost, torn>>
    BY DEF Text, At
  <1>2. mem[p].at \in Copied /\ "text" \in Parts
    BY <1>1 DEF Copied, Parts
  <1>. QED BY <1>1, <1>2, PutEffect DEF Inserts, SameLine, Runs

LEMMA NewlineEffect ==
  ASSUME IInv, OneBuf, NEW p \in Procs, Newline(p)
  PROVE  OneBuf' /\ Others(p) /\ Inserts(p, "newline")
  <1>1. /\ mem[p].state = "running" /\ mem[p].at = "newline"
        /\ UNCHANGED <<count, inherited, lost, torn>>
    BY DEF Newline, At
  <1>2. mem[p].at \in Copied /\ "newline" \in Parts
    BY <1>1 DEF Copied, Parts
  <1>3. CASE Put(p, Unit(p, "newline"), "flush") /\ UNCHANGED returned
    BY <1>1, <1>2, <1>3, PutEffect DEF Inserts, SameLine, Runs
  <1>4. CASE /\ ~important_log(mem[p].lv)
             /\ Put(p, Unit(p, "newline"), "release") /\ LogReturnsTrue(p)
    BY <1>1, <1>2, <1>4, PutEffect DEF Inserts, SameLine, Runs
  <1>. QED BY <1>3, <1>4 DEF Newline

(* A memory whose buffer in use is emptied, because it was written or      *)
(* dropped.                                                                *)
LEMMA Emptied ==
  ASSUME IInv, OneBuf, NEW p \in Procs, NEW m \in Memory, mem' = [mem EXCEPT ![p] = m],
         m.buf = [mem[p].buf EXCEPT ![Use(mem[p])] = <<>>],
         m.at = "copy" => m.held = m.current \/ m.held \in m.closed
  PROVE  OneBuf' /\ Others(p) /\ mem'[p] = m /\ Empties(p)
  <1>1. mem[p] \in Memory
    BY Facts
  <1>2. Use(mem[p]) \in Loggers /\ mem[p].buf \in [Loggers -> Seq(Units)] /\ Use(m) \in Loggers
    BY <1>1 DEF Memory, Use
  <1>3. \A g \in Loggers : m.buf[g] = <<>>
    BY <1>2 DEF OneBuf, OneBuffer
  <1>4. OneBuffer(m) /\ m.buf[Use(m)] = <<>>
    BY <1>2, <1>3 DEF OneBuffer
  <1>. QED BY <1>4, OneChanges DEF Empties

LEMMA flushEffect ==
  ASSUME IInv, OneBuf, NEW p \in Procs, flush(p)
  PROVE  OneBuf' /\ Others(p) /\ (Flushes(p) \/ Retries(p))
  <1>. DEFINE m == mem[p]
  <1>1. mem \in [Procs -> Memory] /\ m \in Memory
    BY Facts
  <1>2. /\ m.state = "running" /\ m.at = "flush"
        /\ UNCHANGED <<count, inherited, spilled, lost>>
    BY DEF flush, At
  <1>3. CASE /\ file' = file \o Buffer(p)
             /\ mem' = [mem EXCEPT ![p].buf[mem[p].held] = <<>>, ![p].at = "release"]
             /\ LogReturnsTrue(p) /\ UNCHANGED torn
    <2>. DEFINE m2 == [m EXCEPT !.buf = [m.buf EXCEPT ![m.held] = <<>>], !.at = "release"]
    <2>1. mem' = [mem EXCEPT ![p] = m2]
      BY <1>1, <1>3
    <2>2. [m.buf EXCEPT ![m.held] = <<>>] \in [Loggers -> Seq(Units)]
      <3>1. m.buf \in [Loggers -> Seq(Units)] /\ <<>> \in Seq(Units)
        BY <1>1 DEF Memory
      <3>. QED BY <3>1
    <2>3. /\ m2 \in Memory /\ m2.buf = [m.buf EXCEPT ![m.held] = <<>>] /\ m2.at = "release"
          /\ m2.state = m.state /\ m2.n = m.n
      BY <1>1, <2>2 DEF Memory, Copied
    <2>. HIDE DEF m2
    <2>4. Use(m) = m.held /\ Buf[p] = Buffer(p)
      BY <1>2 DEF Use, Copied, Buf, Buffer
    <2>5. OneBuf' /\ Others(p) /\ mem'[p] = m2 /\ Empties(p)
      BY <2>1, <2>3, <2>4, Emptied
    <2>. QED BY <1>2, <1>3, <2>3, <2>4, <2>5 DEF Flushes, SameLine, Runs, Out
  <1>4. CASE Short(Buffer(p)) /\ mem' = [mem EXCEPT ![p].at = "release"] /\ UNCHANGED returned
    <2>1. OneBuf' /\ Others(p) /\ SameLine(p) /\ Buf' = Buf /\ mem'[p].at = "release"
      BY <1>2, <1>4, MoveEffect DEF Copied
    <2>2. Buffer(p) = Buf[p] /\ Buf[p] \in Seq(Units)
      BY <1>2, BufType DEF Buffer, Buf, Use, Copied
    <2>3. Partly(p)
      BY <1>4, <2>2, ShortPartly
    <2>. QED BY <1>2, <1>4, <2>1, <2>3 DEF Retries
  <1>. QED BY <1>3, <1>4 DEF flush

(* A buffer that is destroyed is written, or lost. *)
LEMMA ClosesBy ==
  ASSUME IInv, NEW p \in Procs, SameLine(p), Empties(p), WriteOut(Buf[p]),
         mem[p].at # "newline", mem'[p].at \notin {"text", "newline", "flush"},
         mem'[p].at \in Numbered => mem[p].at \in Numbered,
         UNCHANGED <<returned, spilled>>
  PROVE  Closes(p)
  <1>1. CASE file' = file \o Buf[p] /\ UNCHANGED <<lost, torn>>
    BY <1>1 DEF Closes, Out
  <1>2. CASE Short(Buf[p]) /\ lost' = TRUE
    <2>1. Partly(p)
      BY <1>2, BufType, ShortPartly
    <2>. QED BY <1>2, <2>1 DEF Closes
  <1>. QED BY <1>1, <1>2 DEF WriteOut

LEMMA ReleaseEffect ==
  ASSUME IInv, OneBuf, NEW p \in Procs, Release(p)
  PROVE  OneBuf' /\ Others(p) /\ (Closes(p) \/ Proceeds(p))
  <1>. DEFINE m == mem[p]
  <1>1. mem \in [Procs -> Memory] /\ m \in Memory
    BY Facts
  <1>2. /\ m.state = "running" /\ m.at = "release"
        /\ UNCHANGED <<count, returned, inherited, spilled>>
    BY DEF Release, At
  <1>3. CASE m.held = m.current /\ mem' = [mem EXCEPT ![p].at = "idle"]
             /\ UNCHANGED <<file, lost, torn>>
    <2>1. OneBuf' /\ Others(p) /\ SameLine(p) /\ Buf' = Buf /\ mem'[p].at = "idle"
      BY <1>2, <1>3, MoveEffect DEF Copied
    <2>. QED BY <1>2, <1>3, <2>1 DEF Proceeds, Still, Numbered
  <1>4. CASE /\ WriteOut(Buffer(p))
             /\ mem' = [mem EXCEPT ![p] = [Closed(@, mem[p].held) EXCEPT !.at = "idle"]]
    <2>. DEFINE c == Closed(m, m.held)
                m2 == [c EXCEPT !.at = "idle"]
    <2>1. mem' = [mem EXCEPT ![p] = m2]
      BY <1>1, <1>4
    <2>2. c \in Memory /\ c.buf = [m.buf EXCEPT ![m.held] = <<>>] /\ c.n = m.n
      <3>1. m.held \in Loggers
        BY <1>1 DEF Memory
      <3>. QED BY <1>1, <3>1, ClosedFields
    <2>3. c.state = m.state
      BY <1>1 DEF Closed, Memory
    <2>. HIDE DEF c
    <2>4. m2 \in Memory /\ m2.buf = c.buf /\ m2.at = "idle" /\ m2.state = c.state /\ m2.n = c.n
      BY <2>2 DEF Memory
    <2>. HIDE DEF m2
    <2>5. Use(m) = m.held /\ Buf[p] = Buffer(p)
      BY <1>2 DEF Use, Copied, Buf, Buffer
    <2>6. OneBuf' /\ Others(p) /\ mem'[p] = m2 /\ Empties(p)
      BY <2>1, <2>2, <2>4, <2>5, Emptied
    <2>7. SameLine(p)
      BY <1>2, <2>2, <2>3, <2>4, <2>6 DEF SameLine, Runs
    <2>8. Closes(p)
      BY <1>2, <1>4, <2>4, <2>5, <2>6, <2>7, ClosesBy DEF Numbered
    <2>. QED BY <2>6, <2>8
  <1>. QED BY <1>3, <1>4 DEF Release

LEMMA ReloadEffect ==
  ASSUME IInv, OneBuf, NEW l \in Levels, Reload(l)
  PROVE  OneBuf' /\ Others(Server) /\ (Closes(Server) \/ Proceeds(Server))
  <1>. DEFINE m == mem[Server]
              r == [m EXCEPT !.current = m.current + 1, !.level = l]
              c == Closed(r, m.current)
  <1>0. Server \in Procs
    BY DEF Procs
  <1>1. /\ mem \in [Procs -> Memory] /\ m \in Memory /\ SinksOK(m)
        /\ file \in Seq(Units)
    BY <1>0, Facts
  <1>2. /\ m.current < MaxLoggers /\ m.state = "running"
        /\ UNCHANGED <<count, returned, inherited, spilled>>
    BY DEF Reload
  <1>3. /\ m.current \in Loggers /\ m.held \in Loggers /\ m.current + 1 \in Loggers
        /\ m.buf \in [Loggers -> Seq(Units)]
    <2>1. /\ m.current \in Loggers /\ m.held \in Loggers /\ m.buf \in [Loggers -> Seq(Units)]
      BY <1>1 DEF Memory
    <2>2. m.current + 1 \in Loggers
      BY <1>2, <2>1 DEF Loggers
    <2>. QED BY <2>1, <2>2
  <1>4. /\ r \in Memory /\ r.closed = m.closed /\ r.buf = m.buf /\ r.current = m.current + 1
        /\ r.held = m.held /\ r.at = m.at /\ r.n = m.n /\ r.state = m.state
    BY <1>1, <1>3 DEF Memory
  <1>5. \/ Shared(m) /\ mem' = [mem EXCEPT ![Server] = r] /\ UNCHANGED <<file, lost, torn>>
        \/ /\ ~Shared(m) /\ mem' = [mem EXCEPT ![Server] = c]
           /\ WriteOut(m.buf[m.current])
    BY DEF Reload
  <1>. HIDE DEF r
  <1>6. CASE Shared(m) /\ mem' = [mem EXCEPT ![Server] = r] /\ UNCHANGED <<file, lost, torn>>
    <2>1. Use(r) = Use(m) /\ r.at # "copy"
      BY <1>4, <1>6 DEF Use, Shared, Copied
    <2>2. OneBuf' /\ Others(Server) /\ mem'[Server] = r /\ Buf' = Buf
      BY <1>0, <1>4, <1>6, <2>1, OneStays
    <2>. QED BY <1>2, <1>4, <1>6, <2>2 DEF Proceeds, SameLine, Runs, Still
  <1>7. CASE ~Shared(m) /\ mem' = [mem EXCEPT ![Server] = c] /\ WriteOut(m.buf[m.current])
    <2>1. /\ c \in Memory /\ c.closed = r.closed \cup {m.current} /\ c.current = r.current
          /\ c.buf = [r.buf EXCEPT ![m.current] = <<>>] /\ c.held = r.held /\ c.at = r.at /\ c.n = r.n
      BY <1>3, <1>4, ClosedFields
    <2>2. c.state = r.state
      BY <1>4 DEF Closed, Memory
    <2>. HIDE DEF c
    <2>3. m.at = "copy" => m.held = m.current \/ m.held \in m.closed
      BY <1>0 DEF OneBuf, OneBuffer
    <2>4. c.at = "copy" => c.held = c.current \/ c.held \in c.closed
      BY <1>4, <2>1, <2>3
    <2>5. CASE m.at \in Copied
      <3>1. m.held # m.current
        BY <1>7, <2>5 DEF Shared
      <3>2. Use(m) = m.held /\ Use(c) = m.held
        BY <1>4, <2>1, <2>5 DEF Use
      <3>3. m.buf[m.current] = <<>>
        BY <1>0, <1>3, <3>1, <3>2 DEF OneBuf, OneBuffer
      <3>4. c.buf = m.buf
        BY <1>3, <1>4, <2>1, <3>3
      <3>5. OneBuf' /\ Others(Server) /\ mem'[Server] = c /\ Buf' = Buf
        BY <1>0, <1>7, <2>1, <2>4, <3>2, <3>4, OneStays
      <3>6. file' = file /\ lost' = lost /\ torn' = torn
        BY <1>1, <1>7, <3>3 DEF WriteOut, Short
      <3>. QED BY <1>2, <1>4, <2>1, <2>2, <3>5, <3>6 DEF Proceeds, SameLine, Runs, Still
    <2>6. CASE m.at \notin Copied
      <3>1. Use(m) = m.current /\ Buf[Server] = m.buf[m.current]
        BY <1>0, <2>6 DEF Use, Buf
      <3>2. OneBuf' /\ Others(Server) /\ mem'[Server] = c /\ Empties(Server)
        BY <1>0, <1>4, <1>7, <2>1, <2>4, <3>1, Emptied
      <3>3. SameLine(Server)
        BY <1>2, <1>4, <2>1, <2>2, <3>2 DEF SameLine, Runs
      <3>4. mem'[Server].at = m.at /\ m.at \notin {"text", "newline", "flush"}
        BY <1>4, <2>1, <2>6, <3>2 DEF Copied
      <3>5. Closes(Server)
        BY <1>0, <1>2, <1>7, <3>1, <3>2, <3>3, <3>4, ClosesBy
      <3>. QED BY <3>2, <3>5
    <2>. QED BY <2>5, <2>6
  <1>. QED BY <1>5, <1>6, <1>7

LEMMA forkEffect ==
  ASSUME IInv, OneBuf, NEW c \in Children, fork(c)
  PROVE  OneBuf' /\ Others(c) /\ Forks(c)
  <1>. DEFINE m == mem[Server]
  <1>0. Server \in Procs /\ c \in Procs
    BY DEF Procs
  <1>1. m \in Memory
    BY <1>0, Facts
  <1>2. /\ m.at = "idle" /\ m.state = "running" /\ mem[c].state = "unborn"
        /\ mem' = [mem EXCEPT ![c] = m]
        /\ UNCHANGED <<file, count, returned, spilled, lost, torn>>
    BY DEF fork, At
  <1>3. Use(m) = m.current /\ Buf[Server] = m.buf[m.current]
    BY <1>0, <1>2 DEF Use, Copied, Buf
  <1>4. inherited' = [inherited EXCEPT ![c] = Elems(Buf[Server])]
    BY <1>3 DEF fork, Elems
  <1>5. OneBuffer(m)
    BY <1>0 DEF OneBuf
  <1>6. OneBuf' /\ Others(c) /\ mem'[c] = m /\ Buf' = [Buf EXCEPT ![c] = m.buf[Use(m)]]
    BY <1>0, <1>1, <1>2, <1>5, OneChanges
  <1>. QED BY <1>2, <1>3, <1>4, <1>6 DEF Forks

(* The memory of a process that is gone. *)
LEMMA GoneMemory ==
  ASSUME IInv, OneBuf, NEW p \in Procs, mem' = [mem EXCEPT ![p] = NoMemory("gone")]
  PROVE  /\ OneBuf' /\ Others(p) /\ Empties(p)
         /\ mem'[p].state = "gone" /\ mem'[p].at = "idle" /\ mem'[p].n = 0
  <1>. DEFINE m == NoMemory("gone")
  <1>1. m \in Memory
    BY NoMemoryGood DEF Good, MemOK
  <1>2. m.state = "gone" /\ m.at = "idle" /\ m.n = 0 /\ m.buf = [g \in Loggers |-> <<>>]
    BY DEF NoMemory
  <1>. HIDE DEF m
  <1>3. Use(m) \in Loggers
    BY <1>1 DEF Use, Memory
  <1>4. OneBuffer(m) /\ m.buf[Use(m)] = <<>>
    BY <1>2, <1>3 DEF OneBuffer
  <1>5. mem' = [mem EXCEPT ![p] = m]
    BY DEF m
  <1>6. OneBuffer(m)
    BY <1>4
  <1>7. OneBuf' /\ Others(p) /\ mem'[p] = m /\ Buf' = [Buf EXCEPT ![p] = m.buf[Use(m)]]
    BY <1>1, <1>5, <1>6, OneChanges
  <1>. QED BY <1>2, <1>4, <1>7 DEF Empties

LEMMA KilledEffect ==
  ASSUME IInv, OneBuf, NEW p \in Procs, Killed(p)
  PROVE  OneBuf' /\ Others(p) /\ Ends(p)
  <1>1. /\ mem' = [mem EXCEPT ![p] = NoMemory("gone")] /\ mem[p].state = "running"
        /\ UNCHANGED <<file, count, returned, inherited, spilled, lost, torn>>
    BY DEF Killed, histVars
  <1>. QED BY <1>1, GoneMemory DEF Ends

LEMMA ExitEffect ==
  ASSUME IInv, OneBuf, Exit
  PROVE  OneBuf' /\ Others(Server) /\ Ends(Server)
  <1>. DEFINE m == mem[Server]
  <1>0. Server \in Procs
    BY DEF Procs
  <1>1. /\ mem' = [mem EXCEPT ![Server] = NoMemory("gone")] /\ m.state = "running"
        /\ m.at = "idle" /\ WriteOut(m.buf[m.current])
        /\ UNCHANGED <<count, returned, inherited, spilled>>
    BY DEF Exit, At
  <1>2. Buf[Server] = m.buf[m.current]
    BY <1>0, <1>1 DEF Use, Copied, Buf
  <1>3. /\ OneBuf' /\ Others(Server) /\ Empties(Server) /\ mem'[Server].state = "gone"
        /\ mem'[Server].at = "idle" /\ mem'[Server].n = 0
    BY <1>0, <1>1, GoneMemory
  <1>4. CASE file' = file \o Buf[Server] /\ UNCHANGED <<lost, torn>>
    BY <1>1, <1>3, <1>4 DEF Ends, Out
  <1>5. CASE Short(Buf[Server]) /\ lost' = TRUE
    <2>1. Partly(Server)
      BY <1>0, <1>5, BufType, ShortPartly
    <2>. QED BY <1>1, <1>3, <1>5, <2>1 DEF Ends
  <1>. QED BY <1>1, <1>2, <1>4, <1>5 DEF WriteOut

(* Every step has one of the effects. *)
LEMMA NextEffect ==
  ASSUME IInv, OneBuf, Next
  PROVE  OneBuf' /\ Effect
  <1>0. Server \in Procs /\ Children \subseteq Procs
    BY DEF Procs
  <1>1. ASSUME NEW p \in Procs, LOG(p) PROVE OneBuf' /\ Effect
    <2>1. ASSUME NEW l \in log \cup {unknown}, Check(p, l) PROVE OneBuf' /\ Effect
      BY <2>1, CheckEffect DEF Effect
    <2>2. ASSUME NEW code \in Codes,
                 Check(p, to_log_retCode(code)) \/ Check(p, to_log_http(to_http_status(code)))
          PROVE  OneBuf' /\ Effect
      <3>1. /\ to_log_retCode(code) \in log \cup {unknown}
            /\ to_log_http(to_http_status(code)) \in log \cup {unknown}
        BY LevelOfClassType DEF to_log_retCode, to_log_http
      <3>. QED BY <2>1, <2>2, <3>1
    <2>3. ASSUME Get(p) \/ Copy(p) \/ InsertFails(p) PROVE OneBuf' /\ Effect
      BY <2>3, GetEffect, CopyEffect, InsertFailsEffect DEF Effect
    <2>4. ASSUME Text(p) \/ Newline(p) PROVE OneBuf' /\ Effect
      <3>1. OneBuf' /\ Others(p) /\ \E part \in Parts : Inserts(p, part)
        BY <2>4, TextEffect, NewlineEffect DEF Parts
      <3>. QED BY <3>1 DEF Effect
    <2>5. ASSUME flush(p) \/ Release(p) PROVE OneBuf' /\ Effect
      BY <2>5, flushEffect, ReleaseEffect DEF Effect
    <2>. QED BY <1>1, <2>2, <2>3, <2>4, <2>5 DEF LOG
  <1>2. ASSUME NEW p \in Procs, Killed(p) PROVE OneBuf' /\ Effect
    BY <1>2, KilledEffect DEF Effect
  <1>3. ASSUME NEW l \in Levels, Reload(l) PROVE OneBuf' /\ Effect
    BY <1>0, <1>3, ReloadEffect DEF Effect
  <1>4. ASSUME NEW c \in Children, fork(c) PROVE OneBuf' /\ Effect
    BY <1>0, <1>4, forkEffect DEF Effect
  <1>5. ASSUME Exit PROVE OneBuf' /\ Effect
    BY <1>0, <1>5, ExitEffect DEF Effect
  <1>. QED BY <1>1, <1>2, <1>3, <1>4, <1>5 DEF Next

-----------------------------------------------------------------------------
LEMMA StillSets ==
  ASSUME Still
  PROVE  Elems(file') = Elems(file) /\ \A q \in Procs : Holds(q)' = Holds(q)
  BY DEF Still, Holds

LEMMA EmptiesSets ==
  ASSUME IInv, NEW p \in Procs, Empties(p)
  PROVE  Buf'[p] = <<>> /\ Holds(p)' = {} /\ \A q \in Procs : q # p => Holds(q)' = Holds(q)
  <1>1. Buf'[p] = <<>> /\ \A q \in Procs : q # p => Buf'[q] = Buf[q]
    BY BufType DEF Empties
  <1>2. Elems(<<>>) = {}
    BY DEF Elems
  <1>. QED BY <1>1, <1>2 DEF Holds

LEMMA OutSets ==
  ASSUME IInv, NEW p \in Procs, Out(p)
  PROVE  /\ Elems(file') = Elems(file) \cup Holds(p)
         /\ Holds(p)' = {} /\ \A q \in Procs : q # p => Holds(q)' = Holds(q)
  <1>1. Holds(p)' = {} /\ \A q \in Procs : q # p => Holds(q)' = Holds(q)
    BY EmptiesSets DEF Out
  <1>2. Buf[p] \in Seq(Units) /\ file \in Seq(Units)
    BY BufType
  <1>3. Elems(file \o Buf[p]) = Elems(file) \cup Elems(Buf[p])
    BY <1>2, ElemsConcat
  <1>. QED BY <1>1, <1>3 DEF Out, Holds

LEMMA PartlySets ==
  ASSUME IInv, NEW p \in Procs, Partly(p)
  PROVE  /\ file' \in Seq(Units) /\ Elems(file) \subseteq Elems(file')
         /\ Elems(file') \subseteq Elems(file) \cup Holds(p)
         /\ torn' = TRUE \/ (torn' = torn /\ file' = file)
  <1>1. Buf[p] \in Seq(Units) /\ file \in Seq(Units)
    BY BufType
  <1>2. PICK k \in 0..Len(Buf[p]) :
          file' = file \o SubSeq(Buf[p], 1, k) /\ ((k = 0 /\ torn' = torn) \/ torn' = TRUE)
    BY DEF Partly
  <1>3. SubSeq(Buf[p], 1, k) \in Seq(Units) /\ Elems(SubSeq(Buf[p], 1, k)) \subseteq Holds(p)
    BY <1>1, ElemsCut DEF Holds
  <1>4. file' \in Seq(Units) /\ Elems(file') = Elems(file) \cup Elems(SubSeq(Buf[p], 1, k))
    BY <1>1, <1>2, <1>3, ElemsConcat
  <1>5. ASSUME k = 0 PROVE file' = file
    <2>1. SubSeq(Buf[p], 1, 0) = <<>> /\ file \o <<>> = file
      BY <1>1
    <2>. QED BY <1>2, <1>5, <2>1
  <1>. QED BY <1>2, <1>3, <1>4, <1>5

LEMMA InsertsAt ==
  ASSUME NEW p \in Procs, NEW part \in Parts, Inserts(p, part)
  PROVE  mem[p].at = part /\ mem[p].state = "running"
  BY DEF Inserts, SameLine, Runs

LEMMA InsertsSets ==
  ASSUME IInv, NEW p \in Procs, NEW part \in Parts, Inserts(p, part)
  PROVE  /\ Elems(file) \subseteq Elems(file')
         /\ Elems(file') \cup Holds(p)' = Elems(file) \cup Holds(p) \cup {Unit(p, part)}
         /\ \A q \in Procs : q # p => Holds(q)' = Holds(q)
  <1>. DEFINE u == Unit(p, part)
              c == Append(Buf[p], u)
  <1>1. u \in Units
    <2>1. mem[p].at # "idle"
      BY InsertsAt DEF Parts
    <2>. QED BY <2>1, UnitType
  <1>2. Buf[p] \in Seq(Units) /\ file \in Seq(Units)
    BY BufType
  <1>. HIDE DEF u
  <1>3. c \in Seq(Units) /\ Elems(c) = Holds(p) \cup {u}
    BY <1>1, <1>2, ElemsAppend DEF Holds
  <1>. HIDE DEF c
  <1>4. PICK k \in 0..Len(c) : /\ file' = file \o SubSeq(c, 1, k)
                               /\ Buf' = [Buf EXCEPT ![p] = SubSeq(c, k + 1, Len(c))]
    BY DEF Inserts, c, u
  <1>5. /\ SubSeq(c, 1, k) \in Seq(Units)
        /\ Elems(c) = Elems(SubSeq(c, 1, k)) \cup Elems(SubSeq(c, k + 1, Len(c)))
    BY <1>3, ElemsCut
  <1>6. Elems(file \o SubSeq(c, 1, k)) = Elems(file) \cup Elems(SubSeq(c, 1, k))
    BY <1>2, <1>5, ElemsConcat
  <1>7. Buf'[p] = SubSeq(c, k + 1, Len(c)) /\ \A q \in Procs : q # p => Buf'[q] = Buf[q]
    BY <1>4, BufType
  <1>8. Holds(p)' = Elems(SubSeq(c, k + 1, Len(c)))
    BY <1>7 DEF Holds
  <1>9. Elems(file') = Elems(file) \cup Elems(SubSeq(c, 1, k))
    BY <1>4, <1>6
  <1>10. \A q \in Procs : q # p => Holds(q)' = Holds(q)
    BY <1>7 DEF Holds
  <1>. QED BY <1>3, <1>5, <1>8, <1>9, <1>10 DEF u

LEMMA ForksSets ==
  ASSUME IInv, NEW p \in Procs, Forks(p)
  PROVE  /\ Elems(file') = Elems(file) /\ Holds(p)' = Holds(Server) /\ Server \in Procs
         /\ \A q \in Procs : q # p => Holds(q)' = Holds(q)
  <1>1. Buf'[p] = Buf[Server] /\ \A q \in Procs : q # p => Buf'[q] = Buf[q]
    BY BufType DEF Forks
  <1>. QED BY <1>1 DEF Forks, Holds, Procs

(* The one step that makes a unit is an insertion. *)
LEMMA LiveGrows ==
  ASSUME IInv, NEW p \in Procs
  PROVE  /\ Begins(p) \/ Proceeds(p) \/ Retries(p) \/ Flushes(p) \/ Closes(p) \/ Ends(p) \/ Forks(p)
              => Live' \subseteq Live
         /\ \A part \in Parts : Inserts(p, part) => Live' \subseteq Live \cup {Unit(p, part)}
  <1>1. ASSUME Begins(p) \/ Proceeds(p) PROVE Live' \subseteq Live
    <2>1. Still BY <1>1 DEF Begins, Proceeds
    <2>. QED BY <2>1, StillSets DEF Live
  <1>2. ASSUME Out(p) PROVE Live' \subseteq Live
    BY <1>2, OutSets DEF Live
  <1>3. ASSUME Empties(p), file' = file PROVE Live' \subseteq Live
    BY <1>3, EmptiesSets DEF Live
  <1>4. ASSUME Forks(p) PROVE Live' \subseteq Live
    BY <1>4, ForksSets DEF Live
  <1>5. ASSUME NEW part \in Parts, Inserts(p, part) PROVE Live' \subseteq Live \cup {Unit(p, part)}
    BY <1>5, InsertsSets DEF Live
  <1>6. ASSUME Empties(p), Partly(p) PROVE Live' \subseteq Live
    BY <1>6, EmptiesSets, PartlySets DEF Live
  <1>7. ASSUME Retries(p) PROVE Live' \subseteq Live
    <2>1. Partly(p) /\ \A q \in Procs : Holds(q)' = Holds(q)
      BY <1>7 DEF Retries, Holds
    <2>. QED BY <2>1, PartlySets DEF Live
  <1>. QED BY <1>1, <1>2, <1>3, <1>4, <1>5, <1>6, <1>7 DEF Flushes, Closes, Ends

-----------------------------------------------------------------------------
(* A unit or a returned line of a process is of a line it has begun. *)
UnitOK(u, m) ==
  /\ u.n <= count /\ m.state # "unborn"
  /\ m.state = "running" =>
       /\ u.n <= m.n
       /\ m.at \in Numbered => u.n < m.n
       /\ m.at = "newline" /\ u.n = m.n => u.part = "text"
LineOK(r, m) ==
  /\ r.n <= count /\ m.state # "unborn"
  /\ m.state = "running" =>
       /\ r.n <= m.n
       /\ m.at \notin {"idle", "release"} => r.n < m.n
Counted ==
  /\ \A u \in Live : UnitOK(u, mem[u.by])
  /\ \A r \in returned : LineOK(r, mem[r.by])
  /\ \A p \in Procs : mem[p].state = "running" => mem[p].n <= count

LEMMA InitCounted == Init => OneBuf /\ Counted
  <1>. SUFFICES ASSUME Init PROVE OneBuf /\ Counted
    OBVIOUS
  <1>1. ASSUME NEW p \in Procs
        PROVE  /\ mem[p].buf = [g \in Loggers |-> <<>>] /\ mem[p].at = "idle"
               /\ mem[p].n = 0 /\ mem[p].current = 1
    BY DEF Init, NoMemory
  <1>2. ASSUME NEW p \in Procs PROVE OneBuffer(mem[p]) /\ Holds(p) = {}
    <2>1. Use(mem[p]) = 1 /\ 1 \in Loggers
      BY <1>1 DEF Use, Copied, Loggers
    <2>2. Buf[p] = <<>>
      BY <1>1, <2>1 DEF Buf
    <2>. QED BY <1>1, <2>1, <2>2 DEF OneBuffer, Holds, Elems
  <1>3. Elems(file) = {} /\ returned = {} /\ count = 0
    BY DEF Init, Elems
  <1>. QED BY <1>1, <1>2, <1>3 DEF OneBuf, Counted, Live

(* The places and numbers of all processes, before and after a step. *)
LEMMA StepTypes ==
  ASSUME IInv, IInv'
  PROVE  /\ count \in Nat /\ lost \in BOOLEAN /\ torn \in BOOLEAN
         /\ \A q \in Procs : /\ mem[q].n \in Nat /\ mem'[q].n \in Nat
                             /\ mem'[q].at \in {"idle", "get", "copy"} \cup Copied
         /\ Live \subseteq Units
         /\ returned \subseteq [by : Procs, n : 1..MaxLines, level : log]
  <1>1. /\ mem \in [Procs -> Memory] /\ mem' \in [Procs -> Memory] /\ count \in 0..MaxLines
        /\ returned \subseteq [by : Procs, n : 1..MaxLines, level : log]
        /\ lost \in BOOLEAN /\ torn \in BOOLEAN
    BY DEF IInv, TypeOK
  <1>2. Live \subseteq Units
    BY BufType DEF Live
  <1>3. \A q \in Procs : /\ mem[q].n \in Nat /\ mem'[q].n \in Nat
                         /\ mem'[q].at \in {"idle", "get", "copy"} \cup Copied
    BY <1>1 DEF Memory
  <1>4. count \in Nat
    BY <1>1
  <1>. QED BY <1>1, <1>2, <1>3, <1>4

(* What the numbers become, for each effect of a step. *)
LEMMA CountedStep ==
  ASSUME IInv, IInv', Counted, NEW p \in Procs, Others(p), EffectOf(p)
  PROVE  Counted'
  <1>. DEFINE m == mem[p]
              m2 == mem'[p]
  <1>1. /\ count \in Nat /\ m.n \in Nat /\ m2.n \in Nat
        /\ m2.at \in {"idle", "get", "copy"} \cup Copied
        /\ \A u \in Live : u.by \in Procs /\ u.n \in Nat /\ u.part \in Parts
        /\ \A r \in returned : r.by \in Procs /\ r.n \in Nat
    BY StepTypes DEF Units
  <1>2. count' \in Nat /\ count <= count'
    BY <1>1 DEF Begins, Proceeds, Retries, Flushes, Closes, Ends, Forks, Inserts, SameLine
  <1>3. ASSUME NEW u \in Live, u.by # p \/ m2.state = "gone"
        PROVE  UnitOK(u, mem[u.by])'
    BY <1>1, <1>2, <1>3 DEF Counted, UnitOK, Others
  <1>4. ASSUME NEW r \in returned, r.by # p \/ m2.state = "gone"
        PROVE  LineOK(r, mem[r.by])'
    BY <1>1, <1>2, <1>4 DEF Counted, LineOK, Others
  <1>5. ASSUME mem'[p].state = "running" => mem'[p].n <= count'
        PROVE  \A q \in Procs : mem'[q].state = "running" => mem'[q].n <= count'
    BY <1>1, <1>2, <1>5, StepTypes DEF Counted, Others
  <1>6. ASSUME NEW u \in Live, u.by = p, m.state = "running"
        PROVE /\ u.n <= count /\ u.n <= m.n
              /\ m.at \in Numbered => u.n < m.n
              /\ m.at = "newline" /\ u.n = m.n => u.part = "text"
    BY <1>6 DEF Counted, UnitOK
  <1>7. ASSUME NEW r \in returned, r.by = p, m.state = "running"
        PROVE r.n <= count /\ r.n <= m.n /\ (m.at \notin {"idle", "release"} => r.n < m.n)
    BY <1>7 DEF Counted, LineOK
  <1>8. m.state = "running" => m.n <= count
    BY DEF Counted
  <1>9. CASE Begins(p) \/ Proceeds(p) \/ Retries(p) \/ Closes(p)
    <2>1. /\ Live' \subseteq Live /\ returned' = returned
          /\ m.state = "running" /\ m2.state = "running"
      BY <1>9, LiveGrows DEF Begins, Proceeds, Retries, Closes, SameLine, Runs, histVars
    <2>2. \/ m2.at = "get" /\ m2.n = count + 1 /\ count' = count + 1
          \/ /\ m2.n = m.n /\ count' = count
             /\ m2.at \in Numbered => m.at \in Numbered
             /\ m2.at \in {"newline", "flush"} => m2.at = m.at
      BY <1>9 DEF Begins, Proceeds, Retries, Closes, SameLine, Numbered
    <2>3. ASSUME NEW u \in Live, u.by = p PROVE UnitOK(u, mem[u.by])'
      BY <1>1, <1>6, <2>1, <2>2, <2>3 DEF UnitOK
    <2>4. ASSUME NEW r \in returned, r.by = p PROVE LineOK(r, mem[r.by])'
      BY <1>1, <1>7, <2>1, <2>2, <2>4 DEF LineOK, Numbered, Copied
    <2>5. m2.n <= count'
      BY <1>1, <1>8, <2>1, <2>2
    <2>. QED BY <1>3, <1>4, <1>5, <2>1, <2>3, <2>4, <2>5 DEF Counted
  <1>10. CASE Flushes(p)
    <2>1. /\ Live' \subseteq Live /\ count' = count
          /\ returned' = returned \cup {[by |-> p, n |-> m.n, level |-> m.lv]}
          /\ m.state = "running" /\ m2.state = "running" /\ m2.n = m.n /\ m2.at = "release"
      BY <1>10, LiveGrows DEF Flushes, SameLine, Runs, LogReturnsTrue
    <2>2. ASSUME NEW u \in Live, u.by = p PROVE UnitOK(u, mem[u.by])'
      BY <1>6, <2>1, <2>2 DEF UnitOK, Numbered
    <2>3. ASSUME NEW r \in returned', r.by = p PROVE LineOK(r, mem[r.by])'
      BY <1>7, <1>8, <1>1, <2>1, <2>3 DEF LineOK
    <2>4. \A r \in returned' : r.by # p => r \in returned
      BY <2>1
    <2>. QED BY <1>3, <1>4, <1>5, <1>8, <2>1, <2>2, <2>3, <2>4 DEF Counted
  <1>11. CASE Ends(p)
    <2>1. /\ Live' \subseteq Live /\ returned' = returned /\ m2.state = "gone"
      BY <1>11, LiveGrows DEF Ends
    <2>. QED BY <1>3, <1>4, <1>5, <2>1 DEF Counted
  <1>12. CASE Forks(p)
    <2>1. /\ Live' \subseteq Live /\ returned' = returned /\ count' = count
          /\ m.state = "unborn" /\ m2 = mem[Server] /\ mem[Server].state = "running"
          /\ Server \in Procs
      BY <1>12, LiveGrows DEF Forks, Procs
    <2>2. \A u \in Live : u.by # p
      BY <2>1 DEF Counted, UnitOK
    <2>3. \A r \in returned : r.by # p
      BY <2>1 DEF Counted, LineOK
    <2>4. m2.n <= count'
      BY <2>1 DEF Counted
    <2>. QED BY <1>3, <1>4, <1>5, <2>1, <2>2, <2>3, <2>4 DEF Counted
  <1>13. ASSUME NEW part \in Parts, Inserts(p, part) PROVE Counted'
    <2>. DEFINE v == Unit(p, part)
    <2>1. /\ Live' \subseteq Live \cup {v} /\ count' = count /\ m.state = "running"
          /\ m2.state = "running" /\ m2.n = m.n /\ m.at = part
      BY <1>13, LiveGrows, InsertsAt DEF Inserts, SameLine, Runs
    <2>2. /\ part = "text" => m2.at = "newline"
          /\ part = "newline" => m2.at \in {"flush", "release"}
          /\ \/ returned' = returned
             \/ /\ returned' = returned \cup {[by |-> p, n |-> m.n, level |-> m.lv]}
                /\ m2.at = "release"
      BY <1>13 DEF Inserts, LogReturnsTrue
    <2>3. v.by = p /\ v.n = m.n /\ v.part = part
      BY DEF Unit
    <2>. HIDE DEF v
    <2>4. ASSUME NEW u \in Live', u.by = p PROVE UnitOK(u, mem[u.by])'
      BY <1>1, <1>6, <1>8, <2>1, <2>2, <2>3, <2>4 DEF UnitOK, Numbered, Parts
    <2>5. ASSUME NEW r \in returned', r.by = p PROVE LineOK(r, mem[r.by])'
      BY <1>1, <1>7, <1>8, <2>1, <2>2, <2>5 DEF LineOK, Parts
    <2>6. /\ \A r \in returned' : r.by # p => r \in returned
          /\ \A u \in Live' : u.by # p => u \in Live
      BY <2>1, <2>2, <2>3
    <2>. QED BY <1>3, <1>4, <1>5, <1>8, <2>1, <2>4, <2>5, <2>6 DEF Counted
  <1>. QED BY <1>9, <1>10, <1>11, <1>12, <1>13

-----------------------------------------------------------------------------
(* While nothing was lost on closing: what a running process made, and the *)
(* lines it was told are logged, are in the file or in its own buffer.     *)
Line(p, n) == {[by |-> p, n |-> n, part |-> part] : part \in Parts}
OwnUnits ==
  ~lost => \A u \in Live : mem[u.by].state = "running" => u \in Elems(file) \cup Holds(u.by)
OwnLines ==
  ~lost => \A r \in returned : mem[r.by].state = "running" =>
             Line(r.by, r.n) \subseteq Elems(file) \cup Holds(r.by)
LossIsSuffix ==
  ~lost => \A r, s \in returned :
    r.level >= warning /\ s.by = r.by /\ s.n < r.n => Line(s.by, s.n) \subseteq Elems(file)

LEMMA LossIsSuffixIs == LossIsSuffix => LossIsASuffix
  <1>. SUFFICES ASSUME LossIsSuffix, ~lost, NEW r \in returned, NEW s \in returned,
                       r.level >= warning, s.by = r.by, s.n < r.n
                PROVE  Written(s.by, s.n)
    BY DEF LossIsASuffix
  <1>1. Line(s.by, s.n) \subseteq Elems(file)
    BY DEF LossIsSuffix
  <1>. QED BY <1>1, WrittenIs DEF Line

(* What a step leaves of a running process's own units and lines. *)
LEMMA OwnStep ==
  ASSUME IInv, IInv', Counted, OwnUnits, OwnLines, NEW p \in Procs, Others(p), EffectOf(p)
  PROVE  OwnUnits' /\ OwnLines'
  <1>. SUFFICES ASSUME ~lost' PROVE OwnUnits' /\ OwnLines'
    BY DEF OwnUnits, OwnLines
  <1>1. lost \in BOOLEAN /\ ~lost
    BY StepTypes DEF Begins, Proceeds, Retries, Flushes, Closes, Ends, Forks, Inserts, histVars
  <1>2. /\ \A u \in Live : u.by \in Procs
        /\ \A r \in returned : r.by \in Procs
    BY StepTypes DEF Units
  <1>3. ASSUME NEW q \in Procs
        PROVE  /\ Elems(file) \subseteq Elems(file')
               /\ q # p => Holds(q)' = Holds(q)
               /\ ~Ends(p) /\ ~Forks(p) =>
                    Elems(file) \cup Holds(p) \subseteq Elems(file') \cup Holds(p)'
    <2>1. CASE Begins(p) \/ Proceeds(p)
      BY <2>1, StillSets DEF Begins, Proceeds
    <2>6. CASE Retries(p)
      <3>1. Partly(p) /\ \A h \in Procs : Holds(h)' = Holds(h)
        BY <2>6 DEF Retries, Holds
      <3>. QED BY <3>1, PartlySets
    <2>2. CASE Flushes(p) \/ Closes(p)
      BY <1>1, <2>2, OutSets DEF Flushes, Closes
    <2>3. CASE Ends(p)
      BY <2>3, OutSets, EmptiesSets DEF Ends
    <2>4. CASE Forks(p)
      BY <2>4, ForksSets
    <2>5. ASSUME NEW part \in Parts, Inserts(p, part)
          PROVE  /\ Elems(file) \subseteq Elems(file')
                 /\ q # p => Holds(q)' = Holds(q)
                 /\ Elems(file) \cup Holds(p) \subseteq Elems(file') \cup Holds(p)'
      BY <2>5, InsertsSets
    <2>. QED BY <2>1, <2>2, <2>3, <2>4, <2>5, <2>6
  <1>4. ASSUME NEW q \in Procs, mem'[q].state = "running", q # p \/ ~Forks(p)
        PROVE  /\ mem[q].state = "running"
               /\ Elems(file) \cup Holds(q) \subseteq Elems(file') \cup Holds(q)'
    <2>1. CASE q # p
      BY <1>3, <1>4, <2>1 DEF Others
    <2>2. CASE q = p
      <3>1. ~Ends(p) /\ mem[p].state = "running"
        BY <1>4, <2>2 DEF Ends, Begins, Proceeds, Retries, Flushes, Closes, Inserts, SameLine, Runs
      <3>. QED BY <1>3, <1>4, <2>2, <3>1
    <2>. QED BY <2>1, <2>2
  <1>5. ASSUME Forks(p)
        PROVE  (\A u \in Live : u.by # p) /\ (\A r \in returned : r.by # p)
    BY <1>5 DEF Counted, UnitOK, LineOK, Forks
  <1>6. ASSUME NEW u \in Live, mem'[u.by].state = "running"
        PROVE  u \in Elems(file') \cup Holds(u.by)'
    BY <1>1, <1>2, <1>4, <1>5, <1>6 DEF OwnUnits
  <1>7. ASSUME NEW r \in returned, mem'[r.by].state = "running"
        PROVE  Line(r.by, r.n) \subseteq Elems(file') \cup Holds(r.by)'
    BY <1>1, <1>2, <1>4, <1>5, <1>7 DEF OwnLines
  <1>8. OwnUnits'
    <2>1. ASSUME Live' \subseteq Live PROVE OwnUnits'
      BY <1>6, <2>1 DEF OwnUnits
    <2>2. ASSUME NEW part \in Parts, Inserts(p, part) PROVE OwnUnits'
      <3>1. Live' \subseteq Live \cup {Unit(p, part)}
        BY <2>2, LiveGrows
      <3>2. Unit(p, part) \in Elems(file') \cup Holds(p)' /\ Unit(p, part).by = p
        BY <2>2, InsertsSets DEF Unit
      <3>. QED BY <1>6, <3>1, <3>2 DEF OwnUnits
    <2>. QED BY <2>1, <2>2, LiveGrows
  <1>9. OwnLines'
    <2>1. ASSUME returned' = returned PROVE OwnLines'
      BY <1>7, <2>1 DEF OwnLines
    <2>. DEFINE r == [by |-> p, n |-> mem[p].n, level |-> mem[p].lv]
    <2>2. ASSUME returned' = returned \cup {r},
                 Line(p, mem[p].n) \subseteq Elems(file') \cup Holds(p)'
          PROVE  OwnLines'
      BY <1>7, <2>2 DEF OwnLines
    <2>3. Line(p, mem[p].n) = {Unit(p, "text"), Unit(p, "newline")}
      BY DEF Line, Unit, Parts
    <2>4. /\ mem[p].at \in {"newline", "flush"} => Unit(p, "text") \in Elems(file) \cup Holds(p)
          /\ mem[p].at = "flush" => Unit(p, "newline") \in Elems(file) \cup Holds(p)
      <3>1. Kept(p, mem[p], Elems(file))
        BY Facts
      <3>2. mem[p].at \in {"newline", "flush"} => Holds(p) = Elems(mem[p].buf[mem[p].held])
        BY DEF Holds, Buf, Use, Copied
      <3>. QED BY <3>1, <3>2 DEF Kept, Inserted, Unit
    <2>5. CASE Begins(p) \/ Proceeds(p) \/ Retries(p) \/ Closes(p) \/ Ends(p) \/ Forks(p)
      BY <2>1, <2>5 DEF Begins, Proceeds, Retries, Closes, Ends, Forks, histVars
    <2>6. CASE Flushes(p)
      <3>1. Elems(file) \cup Holds(p) \subseteq Elems(file')
        BY <2>6, OutSets DEF Flushes
      <3>2. mem[p].at = "flush" /\ returned' = returned \cup {r}
        BY <2>6 DEF Flushes, LogReturnsTrue
      <3>. QED BY <2>2, <2>3, <2>4, <3>1, <3>2
    <2>7. ASSUME NEW part \in Parts, Inserts(p, part) PROVE OwnLines'
      <3>1. /\ \/ returned' = returned
               \/ returned' = returned \cup {r} /\ part = "newline"
            /\ mem[p].at = part
        BY <2>7 DEF Inserts, LogReturnsTrue
      <3>2. Elems(file) \cup Holds(p) \cup {Unit(p, part)} \subseteq Elems(file') \cup Holds(p)'
        BY <2>7, InsertsSets
      <3>. HIDE DEF r
      <3>3. CASE returned' = returned \cup {r} /\ part = "newline"
        BY <2>2, <2>3, <2>4, <3>1, <3>2, <3>3
      <3>. QED BY <2>1, <3>1, <3>3
    <2>. QED BY <2>5, <2>6, <2>7
  <1>. QED BY <1>8, <1>9

(* A line that is written through takes all the process's earlier ones     *)
(* with it.                                                                *)
LEMMA LossStep ==
  ASSUME IInv, IInv', Counted, OwnLines, LossIsSuffix, NEW p \in Procs, Others(p), EffectOf(p)
  PROVE  LossIsSuffix'
  <1>. SUFFICES ASSUME ~lost', NEW r \in returned', NEW s \in returned',
                       r.level >= warning, s.by = r.by, s.n < r.n
                PROVE  Line(s.by, s.n) \subseteq Elems(file')
    BY DEF LossIsSuffix
  <1>1. lost \in BOOLEAN /\ ~lost
    BY StepTypes DEF Begins, Proceeds, Retries, Flushes, Closes, Ends, Forks, Inserts, histVars
  <1>2. Elems(file) \subseteq Elems(file')
    BY <1>1, StillSets, OutSets, EmptiesSets, PartlySets, ForksSets, InsertsSets
       DEF Begins, Proceeds, Retries, Flushes, Closes, Ends, Forks
  <1>3. CASE r \in returned /\ s \in returned
    BY <1>1, <1>2, <1>3 DEF LossIsSuffix
  <1>. DEFINE new == [by |-> p, n |-> mem[p].n, level |-> mem[p].lv]
  <1>4. ASSUME NEW x \in returned', x \notin returned
        PROVE  /\ x = new /\ mem[p].state = "running"
               /\ \/ Flushes(p) /\ mem[p].at = "flush"
                  \/ ~important_log(mem[p].lv) /\ mem[p].at = "newline"
    BY <1>4 DEF Begins, Proceeds, Retries, Flushes, Closes, Ends, Forks, Inserts, SameLine, Runs,
                LogReturnsTrue, histVars
  <1>5. ASSUME NEW x \in returned, x.by = p, mem[p].state = "running",
               mem[p].at \in {"flush", "newline"}
        PROVE  x.n < mem[p].n
    BY <1>5 DEF Counted, LineOK
  <1>6. mem[p].n \in Nat /\ \A x \in returned : x.n \in Nat
    BY StepTypes
  <1>7. CASE s \notin returned
    <2>1. s = new /\ mem[p].state = "running" /\ mem[p].at \in {"flush", "newline"}
      BY <1>4, <1>7
    <2>2. r \in returned
      BY <1>4, <1>6, <2>1
    <2>3. r.n < mem[p].n
      BY <1>5, <2>1, <2>2
    <2>. QED BY <1>6, <2>1, <2>2, <2>3
  <1>8. CASE r \notin returned /\ s \in returned
    <2>1. r = new /\ mem[p].state = "running"
      BY <1>4, <1>8
    <2>2. mem[p].lv >= warning
      BY <2>1
    <2>3. important_log(mem[p].lv)
      BY <2>2 DEF important_log, trace, debug, info, warning
    <2>4. Flushes(p)
      BY <1>4, <1>8, <2>3
    <2>5. Elems(file') = Elems(file) \cup Holds(p)
      BY <2>4, OutSets DEF Flushes
    <2>6. Line(s.by, s.n) \subseteq Elems(file) \cup Holds(p)
      BY <1>1, <1>8, <2>1 DEF OwnLines
    <2>. QED BY <2>5, <2>6
  <1>. QED BY <1>3, <1>7, <1>8

-----------------------------------------------------------------------------
(* Before every unit of s come, in s or in done, the units of its process  *)
(* that were made before it.                                               *)
Follows(s, done, live) ==
  \A j \in DOMAIN s, u \in live :
    Before(u, s[j]) => u \in done \/ \E k \in 1..j : s[k] = u

LEMMA FollowsMono ==
  ASSUME NEW s \in Seq(Units), NEW done, NEW live, Follows(s, done, live),
         NEW done2, NEW live2, done \subseteq done2,
         \A u \in live2 \ live : \A v \in Elems(s) : ~Before(u, v)
  PROVE  Follows(s, done2, live2)
  <1>. SUFFICES ASSUME NEW j \in DOMAIN s, NEW u \in live2, Before(u, s[j])
                PROVE  u \in done2 \/ \E k \in 1..j : s[k] = u
    BY DEF Follows
  <1>1. u \in live
    BY DEF Elems
  <1>. QED BY <1>1 DEF Follows

LEMMA FollowsConcat ==
  ASSUME NEW s \in Seq(Units), NEW t \in Seq(Units), NEW done, NEW live,
         Follows(s, done, live), Follows(t, done \cup Elems(s), live)
  PROVE  Follows(s \o t, done, live)
  <1>. DEFINE w == s \o t
  <1>. SUFFICES ASSUME NEW j \in DOMAIN w, NEW u \in live, Before(u, w[j])
                PROVE  u \in done \/ \E k \in 1..j : w[k] = u
    BY DEF Follows
  <1>0. Len(s) \in Nat /\ Len(t) \in Nat /\ DOMAIN s = 1..Len(s) /\ DOMAIN t = 1..Len(t)
        /\ DOMAIN w = 1..(Len(s) + Len(t))
    OBVIOUS
  <1>1. /\ \A i \in 1..Len(s) : w[i] = s[i]
        /\ \A i \in 1..Len(t) : w[Len(s) + i] = t[i]
    OBVIOUS
  <1>. HIDE DEF w
  <1>2. CASE j <= Len(s)
    <2>1. j \in DOMAIN s /\ w[j] = s[j]
      BY <1>0, <1>1, <1>2
    <2>2. u \in done \/ \E k \in 1..j : s[k] = u
      BY <2>1 DEF Follows
    <2>. QED BY <1>0, <1>1, <1>2, <2>2
  <1>3. CASE j > Len(s)
    <2>. DEFINE i == j - Len(s)
    <2>1. i \in DOMAIN t /\ w[j] = t[i] /\ j = Len(s) + i
      BY <1>0, <1>1, <1>3
    <2>. HIDE DEF i
    <2>2. u \in done \cup Elems(s) \/ \E k \in 1..i : t[k] = u
      BY <2>1 DEF Follows
    <2>3. CASE u \in Elems(s)
      <3>1. PICK k \in DOMAIN s : s[k] = u
        BY <2>3 DEF Elems
      <3>2. k \in 1..j /\ w[k] = u
        BY <1>0, <1>1, <1>3, <3>1
      <3>. QED BY <3>2
    <2>4. ASSUME NEW k \in 1..i, t[k] = u PROVE \E h \in 1..j : w[h] = u
      <3>1. Len(s) + k \in 1..j /\ w[Len(s) + k] = u
        BY <1>0, <1>1, <2>1, <2>4
      <3>. QED BY <3>1
    <2>. QED BY <2>2, <2>3, <2>4
  <1>. QED BY <1>0, <1>2, <1>3

LEMMA FollowsOne ==
  ASSUME NEW e \in Units, NEW done, NEW live, \A u \in live : Before(u, e) => u \in done
  PROVE  Follows(<<e>>, done, live)
  BY DEF Follows

(* The two parts of a cut sequence. *)
LEMMA FollowsCut ==
  ASSUME NEW s \in Seq(Units), NEW k \in 0..Len(s), NEW done, NEW live, Follows(s, done, live)
  PROVE  /\ Follows(SubSeq(s, 1, k), done, live)
         /\ Follows(SubSeq(s, k + 1, Len(s)), done \cup Elems(SubSeq(s, 1, k)), live)
  <1>. DEFINE a == SubSeq(s, 1, k)
              b == SubSeq(s, k + 1, Len(s))
  <1>0. Len(s) \in Nat /\ DOMAIN s = 1..Len(s) /\ k \in Nat /\ k <= Len(s)
    OBVIOUS
  <1>1. /\ DOMAIN a = 1..k /\ \A i \in 1..k : a[i] = s[i]
        /\ DOMAIN b = 1..(Len(s) - k) /\ \A i \in 1..(Len(s) - k) : b[i] = s[k + i]
    OBVIOUS
  <1>. HIDE DEF a, b
  <1>2. Follows(a, done, live)
    <2>. SUFFICES ASSUME NEW j \in 1..k, NEW u \in live, Before(u, a[j])
                  PROVE  u \in done \/ \E h \in 1..j : a[h] = u
      BY <1>1 DEF Follows
    <2>1. j \in DOMAIN s /\ Before(u, s[j])
      BY <1>0, <1>1
    <2>2. u \in done \/ \E h \in 1..j : s[h] = u
      BY <2>1 DEF Follows
    <2>. QED BY <1>0, <1>1, <2>2
  <1>3. Follows(b, done \cup Elems(a), live)
    <2>. SUFFICES ASSUME NEW j \in 1..(Len(s) - k), NEW u \in live, Before(u, b[j])
                  PROVE  u \in done \cup Elems(a) \/ \E h \in 1..j : b[h] = u
      BY <1>1 DEF Follows
    <2>1. k + j \in DOMAIN s /\ Before(u, s[k + j])
      BY <1>0, <1>1
    <2>2. u \in done \/ \E h \in 1..(k + j) : s[h] = u
      BY <2>1 DEF Follows
    <2>3. ASSUME NEW h \in 1..(k + j), s[h] = u
          PROVE  u \in Elems(a) \/ \E i \in 1..j : b[i] = u
      <3>1. CASE h <= k
        <4>1. h \in DOMAIN a /\ a[h] = u
          BY <1>0, <1>1, <2>3, <3>1
        <4>. QED BY <4>1 DEF Elems
      <3>2. CASE h > k
        <4>1. h - k \in 1..j /\ h - k \in 1..(Len(s) - k) /\ b[h - k] = s[k + (h - k)] /\ k + (h - k) = h
          BY <1>0, <1>1, <3>2
        <4>. QED BY <2>3, <4>1
      <3>. QED BY <1>0, <3>1, <3>2
    <2>. QED BY <2>2, <2>3
  <1>. QED BY <1>2, <1>3 DEF a, b

LEMMA FollowsNone ==
  ASSUME NEW done, NEW live PROVE Follows(<<>>, done, live)
  BY DEF Follows

(* A sequence that follows a file can be written to it. *)
LEMMA FollowsFile ==
  ASSUME NEW s \in Seq(Units), NEW t \in Seq(Units), NEW live,
         Follows(s, {}, live), Follows(t, Elems(s), live)
  PROVE  Follows(s \o t, {}, live)
  <1>1. {} \cup Elems(s) = Elems(s)
    OBVIOUS
  <1>2. Follows(t, {} \cup Elems(s), live)
    BY <1>1
  <1>. QED BY <1>2, FollowsConcat

Ordered ==
  ~lost => Follows(file, {}, Live) /\ \A q \in Procs : Follows(Buf[q], Elems(file), Live)

LEMMA OrderedIs == IInv /\ Ordered => OrderKept
  <1>. SUFFICES ASSUME IInv, Ordered, ~lost, NEW i \in DOMAIN file, NEW j \in DOMAIN file,
                       Before(file[i], file[j])
                PROVE  \E k \in 1..j : file[k] = file[i]
    BY DEF OrderKept
  <1>1. file[i] \in Live
    BY DEF Live, Elems
  <1>. QED BY <1>1 DEF Ordered, Follows

LEMMA OrderedInserts ==
  ASSUME IInv, IInv', Counted, OwnUnits, Ordered, ~lost,
         NEW p \in Procs, NEW part \in Parts, Inserts(p, part)
  PROVE  Ordered'
  <1>. DEFINE v == Unit(p, part)
              c == Append(Buf[p], v)
              live == Live \cup {v}
  <1>1. /\ mem[p].at = part /\ mem[p].state = "running" /\ mem[p].at # "idle"
        /\ part \in {"text", "newline"}
    BY InsertsAt DEF Parts
  <1>2. v \in Units /\ v.by = p /\ v.n = mem[p].n /\ v.part = part
    BY <1>1, UnitType DEF Unit
  <1>3. Buf \in [Procs -> Seq(Units)] /\ file \in Seq(Units)
    BY BufType
  <1>4. mem[p].n \in Nat /\ Live \subseteq Units
    BY StepTypes
  <1>5. \A x \in live : ~Before(v, x)
    <2>1. ~Before(v, v)
      BY <1>1, <1>2, <1>4 DEF Before
    <2>2. ASSUME NEW x \in Live, Before(v, x) PROVE FALSE
      <3>1. x.by = p /\ x.n \in Nat
        BY <1>2, <1>4, <2>2 DEF Before, Units
      <3>2. /\ x.n <= mem[p].n
            /\ mem[p].at \in Numbered => x.n < mem[p].n
        BY <1>1, <3>1 DEF Counted, UnitOK
      <3>. QED BY <1>1, <1>2, <1>4, <2>2, <3>1, <3>2 DEF Before, Numbered
    <2>. QED BY <2>1, <2>2
  <1>6. \A u \in live : Before(u, v) => u \in Elems(file) \cup Holds(p)
    <2>1. ASSUME NEW u \in Live, Before(u, v) PROVE u \in Elems(file) \cup Holds(p)
      <3>1. u.by = p
        BY <1>2, <2>1 DEF Before
      <3>. QED BY <1>1, <3>1 DEF OwnUnits
    <2>. QED BY <1>5, <2>1
  <1>. HIDE DEF v
  <1>7. \A q \in Procs : Holds(q) \subseteq live /\ Elems(file) \subseteq live
    BY DEF Live
  <1>8. ASSUME NEW q \in Procs PROVE Follows(Buf[q], Elems(file), live)
    <2>1. Follows(Buf[q], Elems(file), Live) /\ Buf[q] \in Seq(Units)
      BY <1>3 DEF Ordered
    <2>2. \A u \in live \ Live : \A x \in Elems(Buf[q]) : ~Before(u, x)
      BY <1>5, <1>7 DEF Holds
    <2>. QED BY <2>1, <2>2, FollowsMono
  <1>9. Follows(file, {}, live)
    <2>1. Follows(file, {}, Live)
      BY DEF Ordered
    <2>2. \A u \in live \ Live : \A x \in Elems(file) : ~Before(u, x)
      BY <1>5, <1>7
    <2>. QED BY <1>3, <2>1, <2>2, FollowsMono
  <1>10. Live' \subseteq live
    BY LiveGrows DEF v
  <1>. HIDE DEF live
  <1>11. c \in Seq(Units) /\ Follows(c, Elems(file), live)
    <2>1. c \in Seq(Units) /\ c = Buf[p] \o <<v>> /\ <<v>> \in Seq(Units) /\ Buf[p] \in Seq(Units)
      BY <1>2, <1>3
    <2>2. Follows(<<v>>, Elems(file) \cup Elems(Buf[p]), live)
      BY <1>2, <1>6, FollowsOne DEF Holds
    <2>3. Follows(Buf[p] \o <<v>>, Elems(file), live)
      BY <1>8, <2>1, <2>2, FollowsConcat
    <2>. QED BY <2>1, <2>3
  <1>. HIDE DEF c
  <1>12. PICK k \in 0..Len(c) : /\ file' = file \o SubSeq(c, 1, k)
                                /\ Buf' = [Buf EXCEPT ![p] = SubSeq(c, k + 1, Len(c))]
    BY DEF Inserts, c, v
  <1>. DEFINE a == SubSeq(c, 1, k)
              b == SubSeq(c, k + 1, Len(c))
  <1>13. /\ Follows(a, Elems(file), live)
         /\ Follows(b, Elems(file) \cup Elems(a), live)
    BY <1>11, FollowsCut
  <1>14. a \in Seq(Units) /\ b \in Seq(Units)
    BY <1>11, ElemsCut
  <1>. HIDE DEF a, b
  <1>15. file' = file \o a /\ Buf' = [Buf EXCEPT ![p] = b]
    BY <1>12 DEF a, b
  <1>16. file' \in Seq(Units) /\ Elems(file') = Elems(file) \cup Elems(a)
    BY <1>3, <1>14, <1>15, ElemsConcat
  <1>17. Follows(file', {}, live)
    BY <1>3, <1>9, <1>13, <1>14, <1>15, FollowsFile
  <1>18. Follows(file', {}, Live')
    BY <1>10, <1>16, <1>17, FollowsMono
  <1>19. ASSUME NEW q \in Procs PROVE Follows(Buf'[q], Elems(file'), Live')
    <2>1. CASE q = p
      <3>1. Buf'[q] = b
        BY <1>3, <1>15, <2>1
      <3>2. Follows(b, Elems(file'), live)
        BY <1>13, <1>16
      <3>. QED BY <1>10, <1>14, <3>1, <3>2, FollowsMono
    <2>2. CASE q # p
      <3>1. Buf'[q] = Buf[q] /\ Buf[q] \in Seq(Units)
        BY <1>3, <1>15, <2>2
      <3>2. Elems(file) \subseteq Elems(file') /\ Follows(Buf[q], Elems(file), live)
        BY <1>8, <1>16
      <3>3. \A u \in Live' \ live : \A x \in Elems(Buf[q]) : ~Before(u, x)
        BY <1>10
      <3>4. Follows(Buf[q], Elems(file'), Live')
        BY <3>1, <3>2, <3>3, FollowsMono
      <3>. QED BY <3>1, <3>4
    <2>. QED BY <2>1, <2>2
  <1>. QED BY <1>18, <1>19 DEF Ordered

LEMMA OrderedStep ==
  ASSUME IInv, IInv', Counted, OwnUnits, Ordered, NEW p \in Procs, EffectOf(p)
  PROVE  Ordered'
  <1>. SUFFICES ASSUME ~lost' PROVE Ordered'
    BY DEF Ordered
  <1>1. ~lost
    BY StepTypes DEF Begins, Proceeds, Retries, Flushes, Closes, Ends, Forks, Inserts, histVars
  <1>2. Buf \in [Procs -> Seq(Units)] /\ file \in Seq(Units)
    BY BufType
  <1>3. Follows(file, {}, Live) /\ \A q \in Procs : Follows(Buf[q], Elems(file), Live)
    BY <1>1 DEF Ordered
  <1>4. ASSUME Live' \subseteq Live, file' \in Seq(Units), Follows(file', {}, Live),
               Elems(file) \subseteq Elems(file'),
               \A q \in Procs : Buf'[q] = <<>> \/ \E h \in Procs : Buf'[q] = Buf[h]
        PROVE  Ordered'
    <2>1. Follows(file', {}, Live')
      BY <1>4, FollowsMono
    <2>2. ASSUME NEW h \in Procs PROVE Follows(Buf[h], Elems(file'), Live')
      <3>1. Follows(Buf[h], Elems(file), Live) /\ Buf[h] \in Seq(Units)
        BY <1>2, <1>3
      <3>2. \A u \in Live' \ Live : \A x \in Elems(Buf[h]) : ~Before(u, x)
        BY <1>4
      <3>. QED BY <1>4, <3>1, <3>2, FollowsMono
    <2>3. ASSUME NEW q \in Procs PROVE Follows(Buf'[q], Elems(file'), Live')
      BY <1>4, <2>2, FollowsNone
    <2>. QED BY <2>1, <2>3 DEF Ordered
  <1>5. CASE Begins(p) \/ Proceeds(p)
    BY <1>2, <1>3, <1>4, <1>5, LiveGrows DEF Begins, Proceeds, Still
  <1>11. CASE Retries(p)
    <2>1. Live' \subseteq Live /\ Buf' = Buf /\ Partly(p)
      BY <1>11, LiveGrows DEF Retries
    <2>2. PICK k \in 0..Len(Buf[p]) : file' = file \o SubSeq(Buf[p], 1, k)
      BY <2>1 DEF Partly
    <2>3. file' \in Seq(Units) /\ Elems(file) \subseteq Elems(file')
      BY <2>1, PartlySets
    <2>4. /\ SubSeq(Buf[p], 1, k) \in Seq(Units)
          /\ Follows(SubSeq(Buf[p], 1, k), Elems(file), Live)
      BY <1>2, <1>3, ElemsCut, FollowsCut
    <2>5. Follows(file', {}, Live)
      BY <1>2, <1>3, <2>2, <2>4, FollowsFile
    <2>. QED BY <1>4, <2>1, <2>3, <2>5
  <1>6. CASE (Flushes(p) \/ Closes(p) \/ Ends(p)) /\ Out(p)
    <2>1. Live' \subseteq Live
      BY <1>6, LiveGrows
    <2>2. file' = file \o Buf[p] /\ Buf' = [Buf EXCEPT ![p] = <<>>]
      BY <1>6 DEF Out, Empties
    <2>3. file' \in Seq(Units) /\ Elems(file) \subseteq Elems(file')
      BY <1>2, <2>2, ElemsConcat
    <2>4. Follows(file', {}, Live)
      BY <1>2, <1>3, <2>2, FollowsFile
    <2>5. \A q \in Procs : Buf'[q] = <<>> \/ Buf'[q] = Buf[q]
      BY <1>2, <2>2
    <2>. QED BY <1>4, <2>1, <2>3, <2>4, <2>5
  <1>7. CASE Ends(p) /\ Empties(p) /\ file' = file
    <2>1. Live' \subseteq Live
      BY <1>7, LiveGrows
    <2>2. \A q \in Procs : Buf'[q] = <<>> \/ Buf'[q] = Buf[q]
      BY <1>2, <1>7 DEF Empties
    <2>. QED BY <1>2, <1>3, <1>4, <1>7, <2>1, <2>2
  <1>8. CASE Forks(p)
    <2>1. Live' \subseteq Live /\ file' = file /\ Server \in Procs
      BY <1>8, LiveGrows DEF Forks, Procs
    <2>2. \A q \in Procs : Buf'[q] = Buf[Server] \/ Buf'[q] = Buf[q]
      BY <1>2, <1>8 DEF Forks
    <2>. QED BY <1>2, <1>3, <1>4, <2>1, <2>2
  <1>9. ASSUME NEW part \in Parts, Inserts(p, part) PROVE Ordered'
    BY <1>1, <1>9, OrderedInserts
  <1>10. /\ Flushes(p) \/ Closes(p) => Out(p)
         /\ Ends(p) => Out(p) \/ (Empties(p) /\ file' = file)
    BY DEF Flushes, Closes, Ends
  <1>. QED BY <1>5, <1>6, <1>7, <1>8, <1>9, <1>10, <1>11

-----------------------------------------------------------------------------
(* The text of a line is followed by its newline. *)
Whole(s) ==
  \A i \in DOMAIN s : s[i].part = "text" =>
    i < Len(s) /\ s[i + 1] = [s[i] EXCEPT !.part = "newline"]

LEMMA WholeConcat ==
  ASSUME NEW s \in Seq(Units), NEW t \in Seq(Units), Whole(s), Whole(t)
  PROVE  Whole(s \o t)
  <1>. DEFINE w == s \o t
  <1>0. /\ Len(s) \in Nat /\ Len(t) \in Nat /\ DOMAIN s = 1..Len(s) /\ DOMAIN t = 1..Len(t)
        /\ DOMAIN w = 1..(Len(s) + Len(t)) /\ Len(w) = Len(s) + Len(t)
    OBVIOUS
  <1>1. /\ \A i \in 1..Len(s) : w[i] = s[i]
        /\ \A i \in 1..Len(t) : w[Len(s) + i] = t[i]
    OBVIOUS
  <1>. HIDE DEF w
  <1>. SUFFICES ASSUME NEW i \in DOMAIN w, w[i].part = "text"
                PROVE  i < Len(w) /\ w[i + 1] = [w[i] EXCEPT !.part = "newline"]
    BY DEF Whole, w
  <1>2. CASE i <= Len(s)
    <2>1. i \in DOMAIN s /\ w[i] = s[i]
      BY <1>0, <1>1, <1>2
    <2>2. i < Len(s) /\ s[i + 1] = [s[i] EXCEPT !.part = "newline"]
      BY <2>1 DEF Whole
    <2>3. w[i + 1] = s[i + 1] /\ i < Len(w)
      BY <1>0, <1>1, <2>1, <2>2
    <2>. QED BY <2>1, <2>2, <2>3
  <1>3. CASE i > Len(s)
    <2>. DEFINE j == i - Len(s)
    <2>1. j \in DOMAIN t /\ i = Len(s) + j
      BY <1>0, <1>3
    <2>. HIDE DEF j
    <2>2. w[i] = t[j]
      BY <1>0, <1>1, <2>1
    <2>3. j < Len(t) /\ t[j + 1] = [t[j] EXCEPT !.part = "newline"]
      BY <2>1, <2>2 DEF Whole
    <2>4. j + 1 \in 1..Len(t) /\ i + 1 = Len(s) + (j + 1) /\ i < Len(w)
      <3>1. j \in Nat /\ 1 <= j /\ j < Len(t)
        BY <1>0, <2>1, <2>3
      <3>. QED BY <1>0, <2>1, <3>1
    <2>5. w[i + 1] = t[j + 1]
      BY <1>1, <2>4
    <2>. QED BY <2>2, <2>3, <2>4, <2>5
  <1>. QED BY <1>0, <1>2, <1>3

LEMMA WholeNone == Whole(<<>>)
  BY DEF Whole

(* A whole line after whole lines. *)
LEMMA WholeAdd ==
  ASSUME NEW t \in Seq(Units), Whole(t), NEW p \in Procs, NEW n \in 1..MaxLines
  PROVE  LET u == [by |-> p, n |-> n, part |-> "text"]
             v == [by |-> p, n |-> n, part |-> "newline"] IN
         Whole(Append(Append(t, u), v))
  <1>. DEFINE u == [by |-> p, n |-> n, part |-> "text"]
              v == [by |-> p, n |-> n, part |-> "newline"]
  <1>1. u \in Units /\ v \in Units /\ v = [u EXCEPT !.part = "newline"] /\ v.part # "text"
    BY DEF Units, Parts
  <1>. HIDE DEF u, v
  <1>. DEFINE x == Append(t, u)
              y == Append(x, v)
  <1>2. /\ x \in Seq(Units) /\ Len(x) = Len(t) + 1 /\ x[Len(t) + 1] = u
        /\ \A i \in 1..Len(t) : x[i] = t[i]
    BY <1>1
  <1>3. Len(t) \in Nat /\ DOMAIN t = 1..Len(t)
    OBVIOUS
  <1>. HIDE DEF x
  <1>4. /\ Len(y) = Len(x) + 1 /\ DOMAIN y = 1..(Len(x) + 1) /\ y[Len(x) + 1] = v
        /\ \A i \in 1..Len(x) : y[i] = x[i]
    BY <1>1, <1>2
  <1>. HIDE DEF y
  <1>5. /\ Len(y) = Len(t) + 2 /\ DOMAIN y = 1..(Len(t) + 2)
        /\ y[Len(t) + 1] = u /\ y[Len(t) + 2] = v
        /\ \A i \in 1..Len(t) : y[i] = t[i]
    BY <1>2, <1>3, <1>4
  <1>6. ASSUME NEW i \in DOMAIN y, y[i].part = "text"
        PROVE  i < Len(y) /\ y[i + 1] = [y[i] EXCEPT !.part = "newline"]
    <2>1. i \in 1..Len(t) \/ i = Len(t) + 1 \/ i = Len(t) + 2
      BY <1>3, <1>5
    <2>2. CASE i \in 1..Len(t)
      <3>1. y[i] = t[i] /\ i \in DOMAIN t
        BY <1>3, <1>5, <2>2
      <3>2. i < Len(t) /\ t[i + 1] = [t[i] EXCEPT !.part = "newline"]
        BY <1>6, <3>1 DEF Whole
      <3>3. y[i + 1] = t[i + 1] /\ i < Len(y)
        BY <1>3, <1>5, <2>2, <3>2
      <3>. QED BY <3>1, <3>2, <3>3
    <2>3. CASE i = Len(t) + 1
      <3>1. y[i] = u /\ y[i + 1] = v /\ i < Len(y)
        BY <1>3, <1>5, <2>3
      <3>. QED BY <1>1, <3>1
    <2>4. CASE i = Len(t) + 2
      BY <1>1, <1>5, <1>6, <2>4
    <2>. QED BY <2>1, <2>2, <2>3, <2>4
  <1>. QED BY <1>6 DEF Whole, x, y, u, v

(* A buffer holds whole lines, but for the line that is half inserted. *)
WholeBuf(p, m, b) ==
  IF m.at = "newline"
  THEN \E t \in Seq(Units) :
         Whole(t) /\ b = Append(t, [by |-> p, n |-> m.n, part |-> "text"])
  ELSE Whole(b)
WholeInv ==
  ~spilled /\ ~torn => Whole(file) /\ \A p \in Procs : WholeBuf(p, mem[p], Buf[p])

LEMMA WholeIs == WholeInv => WholeLines
  BY DEF WholeInv, WholeLines, Whole

LEMMA WholeStep ==
  ASSUME IInv, IInv', WholeInv, NEW p \in Procs, Others(p), EffectOf(p)
  PROVE  WholeInv'
  <1>. SUFFICES ASSUME ~spilled', ~torn' PROVE WholeInv'
    BY DEF WholeInv
  <1>0. spilled \in BOOLEAN /\ torn \in BOOLEAN /\ Buf \in [Procs -> Seq(Units)] /\ file \in Seq(Units)
    BY BufType DEF IInv, TypeOK
  <1>11. Partly(p) => torn' = torn /\ file' = file
    BY PartlySets
  <1>1. ~spilled /\ ~torn
    BY <1>0, <1>11 DEF Begins, Proceeds, Retries, Flushes, Closes, Ends, Forks, Inserts, histVars
  <1>2. Whole(file) /\ \A q \in Procs : WholeBuf(q, mem[q], Buf[q])
    BY <1>1 DEF WholeInv
  <1>3. ASSUME Whole(file'), WholeBuf(p, mem'[p], Buf'[p]),
               \A q \in Procs : q # p => Buf'[q] = Buf[q]
        PROVE  WholeInv'
    BY <1>2, <1>3 DEF WholeInv, Others
  <1>4. CASE Begins(p) \/ Proceeds(p) \/ Retries(p)
    <2>1. file' = file /\ Buf' = Buf
      BY <1>4, <1>11 DEF Begins, Proceeds, Retries, Still
    <2>2. \/ mem'[p].at # "newline" /\ mem[p].at # "newline"
          \/ mem'[p].at = "newline" /\ mem[p].at = "newline" /\ mem'[p].n = mem[p].n
      BY <1>4 DEF Begins, Proceeds, Retries, SameLine
    <2>3. WholeBuf(p, mem'[p], Buf'[p])
      BY <1>2, <2>1, <2>2 DEF WholeBuf
    <2>. QED BY <1>2, <1>3, <2>1, <2>3
  <1>5. ASSUME mem'[p].at # "newline", Empties(p), Whole(file') PROVE WholeInv'
    <2>1. Buf'[p] = <<>> /\ \A q \in Procs : q # p => Buf'[q] = Buf[q]
      BY <1>0, <1>5 DEF Empties
    <2>2. WholeBuf(p, mem'[p], Buf'[p])
      BY <1>5, <2>1, WholeNone DEF WholeBuf
    <2>. QED BY <1>3, <1>5, <2>1, <2>2
  <1>6. ASSUME mem[p].at # "newline", mem'[p].at # "newline", Out(p) PROVE WholeInv'
    <2>1. Whole(Buf[p])
      BY <1>2, <1>6 DEF WholeBuf
    <2>2. Whole(file')
      BY <1>0, <1>2, <1>6, <2>1, WholeConcat DEF Out
    <2>. QED BY <1>5, <1>6, <2>2 DEF Out
  <1>7. CASE Flushes(p) \/ Closes(p)
    BY <1>2, <1>5, <1>6, <1>7, <1>11 DEF Flushes, Closes
  <1>8. CASE Ends(p)
    BY <1>2, <1>5, <1>6, <1>8, <1>11 DEF Ends
  <1>9. CASE Forks(p)
    <2>1. /\ file' = file /\ Server \in Procs /\ mem'[p] = mem[Server]
          /\ mem[Server].at = "idle"
      BY <1>9 DEF Forks, Procs
    <2>2. Buf'[p] = Buf[Server] /\ \A q \in Procs : q # p => Buf'[q] = Buf[q]
      BY <1>0, <1>9 DEF Forks
    <2>3. WholeBuf(p, mem'[p], Buf'[p])
      BY <1>2, <2>1, <2>2 DEF WholeBuf
    <2>. QED BY <1>2, <1>3, <2>1, <2>2, <2>3
  <1>10. ASSUME NEW part \in Parts, Inserts(p, part) PROVE WholeInv'
    <2>. DEFINE v == Unit(p, part)
                c == Append(Buf[p], v)
    <2>1. /\ mem[p].at = part /\ mem'[p].n = mem[p].n
          /\ part = "text" => mem'[p].at = "newline"
          /\ part = "newline" => mem'[p].at # "newline"
          /\ part \in {"text", "newline"}
      BY <1>10 DEF Inserts, SameLine, Parts
    <2>2. v \in Units /\ mem[p].n \in 1..MaxLines
      BY <2>1, Facts, UnitType DEF MemOK
    <2>3. c \in Seq(Units)
      BY <1>0, <2>2, ElemsAppend
    <2>4. PICK k \in 0..Len(c) : /\ file' = file \o SubSeq(c, 1, k)
                                 /\ Buf' = [Buf EXCEPT ![p] = SubSeq(c, k + 1, Len(c))]
                                 /\ (spilled' = spilled /\ k = 0) \/ spilled' = TRUE
      BY <1>10 DEF Inserts
    <2>. HIDE DEF c
    <2>5. k = 0
      BY <2>4
    <2>6. SubSeq(c, 1, 0) = <<>> /\ SubSeq(c, 1, Len(c)) = c /\ file \o <<>> = file
      BY <1>0, <2>3
    <2>7. file' = file /\ Buf' = [Buf EXCEPT ![p] = c]
      <3>1. file' = file \o SubSeq(c, 1, 0) /\ Buf' = [Buf EXCEPT ![p] = SubSeq(c, 0 + 1, Len(c))]
        BY <2>4, <2>5
      <3>2. 0 + 1 = 1
        OBVIOUS
      <3>. QED BY <2>6, <3>1, <3>2
    <2>8. Buf'[p] = c /\ \A q \in Procs : q # p => Buf'[q] = Buf[q]
      BY <1>0, <2>7
    <2>9. v = [by |-> p, n |-> mem[p].n, part |-> part]
      BY DEF Unit
    <2>. HIDE DEF v
    <2>10. CASE part = "text"
      <3>1. Whole(Buf[p]) /\ Buf[p] \in Seq(Units)
        BY <1>0, <1>2, <2>1, <2>10 DEF WholeBuf
      <3>2. c = Append(Buf[p], [by |-> p, n |-> mem'[p].n, part |-> "text"])
        BY <2>1, <2>9, <2>10 DEF c
      <3>3. WholeBuf(p, mem'[p], Buf'[p])
        BY <2>1, <2>8, <2>10, <3>1, <3>2 DEF WholeBuf
      <3>. QED BY <1>2, <1>3, <2>7, <2>8, <3>3
    <2>11. CASE part = "newline"
      <3>1. PICK t \in Seq(Units) :
              Whole(t) /\ Buf[p] = Append(t, [by |-> p, n |-> mem[p].n, part |-> "text"])
        BY <1>2, <2>1, <2>11 DEF WholeBuf
      <3>2. Whole(c)
        BY <2>2, <2>9, <2>11, <3>1, WholeAdd DEF c
      <3>3. WholeBuf(p, mem'[p], Buf'[p])
        BY <2>1, <2>8, <2>11, <3>2 DEF WholeBuf
      <3>. QED BY <1>2, <1>3, <2>7, <2>8, <3>3
    <2>. QED BY <2>1, <2>10, <2>11
  <1>. QED BY <1>4, <1>7, <1>8, <1>9, <1>10

-----------------------------------------------------------------------------
(* How often a sequence has a unit. *)
Places(s, u) == {i \in DOMAIN s : s[i] = u}
Once(s) == \A i, j \in DOMAIN s : s[i] = s[j] => i = j

LEMMA PlacesFinite ==
  ASSUME NEW s \in Seq(Units), NEW u
  PROVE  IsFiniteSet(Places(s, u)) /\ Cardinality(Places(s, u)) \in Nat
  <1>1. DOMAIN s = 1..Len(s) /\ Len(s) \in Int /\ 1 \in Int
    OBVIOUS
  <1>2. IsFiniteSet(1..Len(s))
    BY <1>1, FS_Interval
  <1>3. Places(s, u) \in SUBSET (1..Len(s))
    BY <1>1 DEF Places
  <1>4. IsFiniteSet(Places(s, u))
    BY <1>2, <1>3, FS_Subset
  <1>. QED BY <1>4, FS_CardinalityType

LEMMA PlacesConcat ==
  ASSUME NEW s \in Seq(Units), NEW t \in Seq(Units), Once(t), NEW u
  PROVE  /\ u \notin Elems(t) => Places(s \o t, u) = Places(s, u)
         /\ u \in Elems(t) => Cardinality(Places(s \o t, u)) = Cardinality(Places(s, u)) + 1
  <1>. DEFINE w == s \o t
  <1>0. /\ Len(s) \in Nat /\ Len(t) \in Nat /\ DOMAIN s = 1..Len(s) /\ DOMAIN t = 1..Len(t)
        /\ DOMAIN w = 1..(Len(s) + Len(t))
    OBVIOUS
  <1>1. /\ \A i \in 1..Len(s) : w[i] = s[i]
        /\ \A i \in 1..Len(t) : w[Len(s) + i] = t[i]
    OBVIOUS
  <1>. HIDE DEF w
  <1>2. Places(s, u) \subseteq Places(w, u)
    BY <1>0, <1>1 DEF Places
  <1>3. ASSUME NEW i \in Places(w, u), i \notin Places(s, u)
        PROVE  i - Len(s) \in DOMAIN t /\ t[i - Len(s)] = u
    <2>1. i \in 1..(Len(s) + Len(t)) /\ w[i] = u
      BY <1>0 DEF Places
    <2>2. ~(i <= Len(s))
      <3>1. ASSUME i <= Len(s) PROVE FALSE
        <4>1. i \in 1..Len(s)
          BY <1>0, <2>1, <3>1
        <4>2. w[i] = s[i]
          BY <1>1, <4>1
        <4>. QED BY <1>0, <1>3, <2>1, <4>1, <4>2 DEF Places
      <3>. QED BY <3>1
    <2>3. i - Len(s) \in 1..Len(t) /\ Len(s) + (i - Len(s)) = i
      BY <1>0, <2>1, <2>2
    <2>4. w[i] = t[i - Len(s)]
      BY <1>1, <2>3
    <2>. QED BY <1>0, <2>1, <2>3, <2>4
  <1>4. ASSUME u \notin Elems(t) PROVE Places(w, u) = Places(s, u)
    BY <1>2, <1>3, <1>4 DEF Elems
  <1>5. ASSUME u \in Elems(t)
        PROVE  Cardinality(Places(w, u)) = Cardinality(Places(s, u)) + 1
    <2>1. PICK k \in DOMAIN t : t[k] = u
      BY <1>5 DEF Elems
    <2>2. /\ Len(s) + k \in DOMAIN w /\ w[Len(s) + k] = u /\ Len(s) + k \notin DOMAIN s
      BY <1>0, <1>1, <2>1
    <2>3. Len(s) + k \in Places(w, u) /\ Len(s) + k \notin Places(s, u)
      BY <2>2 DEF Places
    <2>4. ASSUME NEW i \in Places(w, u), i \notin Places(s, u) PROVE i = Len(s) + k
      <3>1. i - Len(s) \in DOMAIN t /\ t[i - Len(s)] = u
        BY <1>3, <2>4
      <3>2. i - Len(s) = k
        BY <2>1, <3>1 DEF Once
      <3>3. i \in Nat
        BY <1>0 DEF Places
      <3>. QED BY <1>0, <3>2, <3>3
    <2>5. Places(w, u) = Places(s, u) \cup {Len(s) + k}
      BY <1>2, <2>3, <2>4
    <2>6. IsFiniteSet(Places(s, u))
      BY PlacesFinite
    <2>. QED BY <2>3, <2>5, <2>6, FS_AddElement
  <1>. QED BY <1>4, <1>5 DEF w

LEMMA OnceCut ==
  ASSUME NEW s \in Seq(Units), Once(s), NEW k \in 0..Len(s)
  PROVE  LET a == SubSeq(s, 1, k)
             b == SubSeq(s, k + 1, Len(s)) IN
         Once(a) /\ Once(b) /\ \A u \in Elems(a) : u \notin Elems(b)
  <1>. DEFINE a == SubSeq(s, 1, k)
              b == SubSeq(s, k + 1, Len(s))
  <1>0. Len(s) \in Nat /\ DOMAIN s = 1..Len(s) /\ k \in Nat /\ k <= Len(s)
    OBVIOUS
  <1>1. /\ DOMAIN a = 1..k /\ \A i \in 1..k : a[i] = s[i]
        /\ DOMAIN b = 1..(Len(s) - k) /\ \A i \in 1..(Len(s) - k) : b[i] = s[k + i]
    OBVIOUS
  <1>. HIDE DEF a, b
  <1>2. \A i \in 1..k : i \in DOMAIN s
    BY <1>0
  <1>3. \A i \in 1..(Len(s) - k) : k + i \in DOMAIN s /\ k + i > k
    BY <1>0
  <1>4. Once(a)
    BY <1>1, <1>2 DEF Once
  <1>5. Once(b)
    <2>. SUFFICES ASSUME NEW i \in 1..(Len(s) - k), NEW j \in 1..(Len(s) - k), b[i] = b[j]
                  PROVE  i = j
      BY <1>1 DEF Once
    <2>1. s[k + i] = s[k + j]
      BY <1>1
    <2>2. k + i = k + j
      BY <1>3, <2>1 DEF Once
    <2>. QED BY <1>0, <2>2
  <1>6. ASSUME NEW i \in DOMAIN a, NEW j \in DOMAIN b, a[i] = b[j] PROVE FALSE
    <2>1. s[i] = s[k + j] /\ i \in DOMAIN s /\ k + j \in DOMAIN s
      BY <1>1, <1>2, <1>3, <1>6
    <2>2. i = k + j
      BY <2>1 DEF Once
    <2>. QED BY <1>0, <1>1, <1>3, <2>2
  <1>7. \A u \in Elems(a) : u \notin Elems(b)
    BY <1>6 DEF Elems
  <1>. QED BY <1>4, <1>5, <1>7 DEF a, b

LEMMA OnceAppend ==
  ASSUME NEW s \in Seq(Units), Once(s), NEW e \in Units, e \notin Elems(s)
  PROVE  Once(Append(s, e))
  <1>. DEFINE w == Append(s, e)
  <1>0. /\ Len(s) \in Nat /\ DOMAIN s = 1..Len(s) /\ DOMAIN w = 1..(Len(s) + 1)
        /\ w[Len(s) + 1] = e /\ \A i \in 1..Len(s) : w[i] = s[i]
    OBVIOUS
  <1>. HIDE DEF w
  <1>1. \A i \in DOMAIN s : s[i] # e
    BY DEF Elems
  <1>. SUFFICES ASSUME NEW i \in DOMAIN w, NEW j \in DOMAIN w, w[i] = w[j] PROVE i = j
    BY DEF Once, w
  <1>2. (i \in DOMAIN s \/ i = Len(s) + 1) /\ (j \in DOMAIN s \/ j = Len(s) + 1)
    BY <1>0
  <1>3. CASE i \in DOMAIN s /\ j \in DOMAIN s
    BY <1>0, <1>3 DEF Once
  <1>4. CASE ~(i \in DOMAIN s /\ j \in DOMAIN s)
    BY <1>0, <1>1, <1>2, <1>4
  <1>. QED BY <1>3, <1>4

-----------------------------------------------------------------------------
(* The processes that hold a unit, and the children that inherited it. *)
Holders(u) == {q \in Procs : u \in Holds(q)}
Heirs(u) == {c \in Children : u \in inherited[c]}

(* Every copy of a unit, written or buffered, is the one that was inserted *)
(* or one that a fork has made.                                            *)
CopiesInv ==
  ~torn =>
  /\ \A q \in Procs : Once(Buf[q])
  /\ \A c \in Children : mem[c].state = "unborn" => inherited[c] = {} /\ Holds(c) = {}
  /\ \A u \in Units :
       Cardinality(Places(file, u)) + Cardinality(Holders(u)) <= 1 + Cardinality(Heirs(u))

LEMMA ProcsFinite ==
  ASSUME NEW S \in SUBSET Procs
  PROVE  IsFiniteSet(S) /\ Cardinality(S) \in Nat
  <1>1. IsFiniteSet(Procs)
    BY FS_AddElement DEF Procs
  <1>2. IsFiniteSet(S)
    BY <1>1, FS_Subset
  <1>. QED BY <1>2, FS_CardinalityType

(* Units that go from the buffer of a process to the file. *)
LEMMA CopiesMove ==
  ASSUME IInv, CopiesInv, ~torn, NEW p \in Procs, NEW a \in Seq(Units), Once(a), file' = file \o a,
         NEW u \in Units, u \in Elems(a) => u \in Holds(p) /\ u \notin Holds(p)',
         u \in Holds(p)' => u \in Holds(p),
         \A q \in Procs : q # p => Holds(q)' = Holds(q), inherited' = inherited
  PROVE  Cardinality(Places(file', u)) + Cardinality(Holders(u)') <= 1 + Cardinality(Heirs(u)')
  <1>1. file \in Seq(Units) /\ Heirs(u)' = Heirs(u)
    BY BufType DEF Heirs
  <1>2. /\ Holders(u) \in SUBSET Procs /\ Holders(u)' \in SUBSET Holders(u)
        /\ Heirs(u) \in SUBSET Procs
    BY DEF Holders, Heirs, Procs
  <1>3. /\ Cardinality(Places(file, u)) \in Nat /\ Cardinality(Heirs(u)) \in Nat
        /\ IsFiniteSet(Holders(u)) /\ Cardinality(Holders(u)) \in Nat
    BY <1>1, <1>2, PlacesFinite, ProcsFinite
  <1>4. Cardinality(Places(file, u)) + Cardinality(Holders(u)) <= 1 + Cardinality(Heirs(u))
    BY DEF CopiesInv
  <1>5. CASE u \notin Elems(a)
    <2>1. Places(file', u) = Places(file, u)
      BY <1>1, <1>5, PlacesConcat
    <2>2. Cardinality(Holders(u)') <= Cardinality(Holders(u)) /\ Cardinality(Holders(u)') \in Nat
      BY <1>2, <1>3, FS_Subset, ProcsFinite
    <2>. QED BY <1>1, <1>3, <1>4, <2>1, <2>2
  <1>6. CASE u \in Elems(a)
    <2>1. Cardinality(Places(file', u)) = Cardinality(Places(file, u)) + 1
      BY <1>1, <1>6, PlacesConcat
    <2>2. Holders(u)' = Holders(u) \ {p} /\ p \in Holders(u)
      BY <1>6 DEF Holders
    <2>3. Cardinality(Holders(u)') = Cardinality(Holders(u)) - 1
      BY <1>3, <2>2, FS_RemoveElement
    <2>. QED BY <1>1, <1>3, <1>4, <2>1, <2>3
  <1>. QED BY <1>5, <1>6

LEMMA NoneOnce == Once(<<>>) /\ Elems(<<>>) = {} /\ <<>> \in Seq(Units)
  BY DEF Once, Elems

LEMMA CopiesInserts ==
  ASSUME IInv, IInv', Counted, CopiesInv, ~torn, NEW p \in Procs, Others(p),
         NEW part \in Parts, Inserts(p, part)
  PROVE  CopiesInv'
  <1>. DEFINE v == Unit(p, part)
              c == Append(Buf[p], v)
  <1>1. /\ mem[p].at = part /\ mem[p].state = "running" /\ mem[p].at # "idle"
        /\ part \in {"text", "newline"} /\ mem'[p].state = "running" /\ inherited' = inherited
    BY InsertsAt DEF Parts, Inserts, SameLine, Runs
  <1>2. v \in Units /\ v.by = p /\ v.n = mem[p].n /\ v.part = part
    BY <1>1, UnitType DEF Unit
  <1>3. Buf \in [Procs -> Seq(Units)] /\ file \in Seq(Units)
    BY BufType
  <1>4. mem[p].n \in Nat /\ Live \subseteq Units
    BY StepTypes
  <1>5. v \notin Live
    BY <1>1, <1>2, <1>4 DEF Counted, UnitOK, Numbered
  <1>. HIDE DEF v
  <1>6. v \notin Elems(file) /\ \A q \in Procs : v \notin Holds(q)
    BY <1>5 DEF Live
  <1>7. Once(Buf[p]) /\ v \notin Elems(Buf[p]) /\ Buf[p] \in Seq(Units)
    BY <1>3, <1>6 DEF CopiesInv, Holds
  <1>8. c \in Seq(Units) /\ Once(c) /\ Elems(c) = Holds(p) \cup {v}
    BY <1>2, <1>7, OnceAppend, ElemsAppend DEF Holds
  <1>. HIDE DEF c
  <1>9. PICK k \in 0..Len(c) : /\ file' = file \o SubSeq(c, 1, k)
                               /\ Buf' = [Buf EXCEPT ![p] = SubSeq(c, k + 1, Len(c))]
    BY DEF Inserts, c, v
  <1>. DEFINE a == SubSeq(c, 1, k)
              b == SubSeq(c, k + 1, Len(c))
  <1>10. Once(a) /\ Once(b) /\ \A u \in Elems(a) : u \notin Elems(b)
    BY <1>8, OnceCut
  <1>11. a \in Seq(Units) /\ Elems(c) = Elems(a) \cup Elems(b)
    BY <1>8, ElemsCut
  <1>12. file' = file \o a /\ Buf'[p] = b /\ \A q \in Procs : q # p => Buf'[q] = Buf[q]
    BY <1>3, <1>9
  <1>. HIDE DEF a, b
  <1>13. Holds(p)' = Elems(b) /\ \A q \in Procs : q # p => Holds(q)' = Holds(q)
    BY <1>12 DEF Holds
  <1>14. \A q \in Procs : Once(Buf'[q])
    BY <1>10, <1>12 DEF CopiesInv
  <1>15. \A h \in Children : mem'[h].state = "unborn" => inherited'[h] = {} /\ Holds(h)' = {}
    BY <1>1, <1>13 DEF CopiesInv, Others, Procs
  <1>16. ASSUME NEW u \in Units
         PROVE  Cardinality(Places(file', u)) + Cardinality(Holders(u)') <= 1 + Cardinality(Heirs(u)')
    <2>1. CASE u # v
      <3>1. /\ u \in Elems(a) => u \in Holds(p) /\ u \notin Holds(p)'
            /\ u \in Holds(p)' => u \in Holds(p)
        BY <1>8, <1>10, <1>11, <1>13, <2>1
      <3>. QED BY <1>1, <1>10, <1>11, <1>12, <1>13, <3>1, CopiesMove
    <2>2. CASE u = v
      <3>1. /\ u \notin Elems(file) /\ \A q \in Procs : u \notin Holds(q)
            /\ u \in Elems(a) \cup Elems(b)
        BY <1>6, <1>8, <1>11, <2>2
      <3>2. Places(file, u) = {} /\ Heirs(u)' \in SUBSET Procs
        BY <3>1 DEF Places, Elems, Heirs, Procs
      <3>3. Cardinality(Heirs(u)') \in Nat /\ Cardinality({}) = 0
        BY <3>2, ProcsFinite, FS_EmptySet
      <3>4. CASE u \in Elems(a)
        <4>1. Cardinality(Places(file', u)) = Cardinality(Places(file, u)) + 1
          BY <1>3, <1>10, <1>11, <1>12, <3>4, PlacesConcat
        <4>2. Holders(u)' = {}
          BY <1>10, <1>13, <3>1, <3>4 DEF Holders
        <4>. QED BY <3>2, <3>3, <4>1, <4>2
      <3>5. CASE u \notin Elems(a)
        <4>1. Places(file', u) = Places(file, u)
          BY <1>3, <1>10, <1>11, <1>12, <3>5, PlacesConcat
        <4>2. Holders(u)' = {p}
          BY <1>13, <3>1, <3>5 DEF Holders
        <4>3. Cardinality({p}) = 1
          BY FS_Singleton
        <4>. QED BY <3>2, <3>3, <4>1, <4>2, <4>3
      <3>. QED BY <3>4, <3>5
    <2>. QED BY <2>1, <2>2
  <1>. QED BY <1>14, <1>15, <1>16 DEF CopiesInv

LEMMA CopiesForks ==
  ASSUME IInv, IInv', CopiesInv, ~torn, NEW p \in Procs, Others(p), Forks(p)
  PROVE  CopiesInv'
  <1>1. /\ p \in Children /\ mem[p].state = "unborn" /\ mem'[p].state = "running"
        /\ file' = file /\ Server \in Procs /\ Children \subseteq Procs
        /\ inherited' = [inherited EXCEPT ![p] = Holds(Server)]
    BY DEF Forks, Procs, Holds
  <1>2. Buf'[p] = Buf[Server] /\ \A q \in Procs : q # p => Buf'[q] = Buf[q]
    BY BufType DEF Forks
  <1>3. Holds(p)' = Holds(Server) /\ \A q \in Procs : q # p => Holds(q)' = Holds(q)
    BY <1>2 DEF Holds
  <1>4. inherited \in [Children -> SUBSET Units] /\ file \in Seq(Units)
    BY DEF IInv, TypeOK
  <1>5. inherited'[p] = Holds(Server) /\ \A h \in Children : h # p => inherited'[h] = inherited[h]
    BY <1>1, <1>4
  <1>6. inherited[p] = {} /\ Holds(p) = {}
    BY <1>1 DEF CopiesInv
  <1>7. \A q \in Procs : Once(Buf'[q])
    BY <1>1, <1>2 DEF CopiesInv
  <1>8. \A h \in Children : mem'[h].state = "unborn" => inherited'[h] = {} /\ Holds(h)' = {}
    BY <1>1, <1>3, <1>5 DEF CopiesInv, Others
  <1>9. ASSUME NEW u \in Units
        PROVE  Cardinality(Places(file', u)) + Cardinality(Holders(u)') <= 1 + Cardinality(Heirs(u)')
    <2>1. Cardinality(Places(file, u)) + Cardinality(Holders(u)) <= 1 + Cardinality(Heirs(u))
      BY DEF CopiesInv
    <2>2. Holders(u) \in SUBSET Procs /\ Heirs(u) \in SUBSET Procs
      BY <1>1 DEF Holders, Heirs
    <2>3. /\ Cardinality(Places(file, u)) \in Nat
          /\ IsFiniteSet(Holders(u)) /\ Cardinality(Holders(u)) \in Nat
          /\ IsFiniteSet(Heirs(u)) /\ Cardinality(Heirs(u)) \in Nat
      BY <1>4, <2>2, PlacesFinite, ProcsFinite
    <2>4. p \notin Holders(u) /\ p \notin Heirs(u)
      BY <1>6 DEF Holders, Heirs
    <2>5. CASE u \in Holds(Server)
      <3>1. Holders(u)' = Holders(u) \cup {p}
        BY <1>3, <2>5 DEF Holders
      <3>2. Heirs(u)' = Heirs(u) \cup {p}
        BY <1>1, <1>5, <2>5 DEF Heirs
      <3>3. Cardinality(Holders(u)') = Cardinality(Holders(u)) + 1
        BY <2>3, <2>4, <3>1, FS_AddElement
      <3>4. Cardinality(Heirs(u)') = Cardinality(Heirs(u)) + 1
        BY <2>3, <2>4, <3>2, FS_AddElement
      <3>. QED BY <1>1, <2>1, <2>3, <3>3, <3>4
    <2>6. CASE u \notin Holds(Server)
      <3>1. Holders(u)' = Holders(u)
        BY <1>3, <1>6, <2>6 DEF Holders
      <3>2. Heirs(u)' = Heirs(u)
        BY <1>1, <1>5, <1>6, <2>6 DEF Heirs
      <3>. QED BY <1>1, <2>1, <3>1, <3>2
    <2>. QED BY <2>5, <2>6
  <1>. QED BY <1>7, <1>8, <1>9 DEF CopiesInv

LEMMA CopiesStep ==
  ASSUME IInv, IInv', Counted, CopiesInv, NEW p \in Procs, Others(p), EffectOf(p)
  PROVE  CopiesInv'
  <1>. SUFFICES ASSUME ~torn' PROVE CopiesInv'
    BY DEF CopiesInv
  <1>0. Buf \in [Procs -> Seq(Units)] /\ file \in Seq(Units) /\ torn \in BOOLEAN
    BY BufType, StepTypes
  <1>8. Partly(p) => torn' = torn /\ file' = file
    BY PartlySets
  <1>9. ~torn
    BY <1>0, <1>8 DEF Begins, Proceeds, Retries, Flushes, Closes, Ends, Forks, Inserts, histVars
  <1>1. ASSUME NEW a \in Seq(Units), Once(a), file' = file \o a, inherited' = inherited,
               mem'[p].state # "unborn",
               (Buf'[p] = <<>> /\ a = Buf[p]) \/ (Buf'[p] \in {<<>>, Buf[p]} /\ a = <<>>),
               \A q \in Procs : q # p => Buf'[q] = Buf[q]
        PROVE  CopiesInv'
    <2>1. \A q \in Procs : Once(Buf'[q])
      BY <1>1, <1>9, NoneOnce DEF CopiesInv
    <2>2. \A q \in Procs : q # p => Holds(q)' = Holds(q)
      BY <1>1 DEF Holds
    <2>3. Elems(a) \subseteq Holds(p) /\ Holds(p)' \subseteq Holds(p)
          /\ \A u \in Elems(a) : u \notin Holds(p)'
      BY <1>1, NoneOnce DEF Holds
    <2>4. \A h \in Children : mem'[h].state = "unborn" => inherited'[h] = {} /\ Holds(h)' = {}
      BY <1>1, <1>9, <2>2 DEF CopiesInv, Others, Procs
    <2>5. ASSUME NEW u \in Units
          PROVE  Cardinality(Places(file', u)) + Cardinality(Holders(u)') <= 1 + Cardinality(Heirs(u)')
      BY <1>1, <1>9, <2>2, <2>3, CopiesMove
    <2>. QED BY <2>1, <2>4, <2>5 DEF CopiesInv
  <1>2. ASSUME Out(p), inherited' = inherited, mem'[p].state # "unborn" PROVE CopiesInv'
    <2>1. file' = file \o Buf[p] /\ Buf'[p] = <<>> /\ \A q \in Procs : q # p => Buf'[q] = Buf[q]
      BY <1>0, <1>2 DEF Out, Empties
    <2>2. Buf[p] \in Seq(Units) /\ Once(Buf[p])
      BY <1>0, <1>9 DEF CopiesInv
    <2>. QED BY <1>1, <1>2, <2>1, <2>2
  <1>3. file = file \o <<>>
    BY <1>0
  <1>4. ASSUME Empties(p), file' = file, inherited' = inherited, mem'[p].state # "unborn"
        PROVE  CopiesInv'
    <2>1. Buf'[p] = <<>> /\ \A q \in Procs : q # p => Buf'[q] = Buf[q]
      BY <1>0, <1>4 DEF Empties
    <2>. QED BY <1>1, <1>3, <1>4, <2>1, NoneOnce
  <1>5. CASE Begins(p) \/ Proceeds(p) \/ Retries(p)
    <2>1. file' = file /\ Buf' = Buf /\ inherited' = inherited /\ mem'[p].state = "running"
      BY <1>5, <1>8 DEF Begins, Proceeds, Retries, SameLine, Runs, Still, histVars
    <2>. QED BY <1>1, <1>3, <2>1, NoneOnce
  <1>6. CASE Flushes(p) \/ Closes(p)
    BY <1>2, <1>4, <1>6, <1>8 DEF Flushes, Closes, SameLine, Runs
  <1>7. CASE Ends(p)
    BY <1>2, <1>4, <1>7, <1>8 DEF Ends
  <1>. QED BY <1>5, <1>6, <1>7, <1>9, CopiesForks, CopiesInserts

LEMMA CopiesIs == IInv /\ CopiesInv => CopiesComeFromFork
  <1>. SUFFICES ASSUME IInv, CopiesInv, ~torn, NEW i \in DOMAIN file
                PROVE  Cardinality({j \in DOMAIN file : file[j] = file[i]}) <=
                         1 + Cardinality({c \in Children : file[i] \in inherited[c]})
    BY DEF CopiesComeFromFork
  <1>. DEFINE u == file[i]
  <1>1. u \in Units /\ file \in Seq(Units)
    BY BufType
  <1>2. Cardinality(Places(file, u)) + Cardinality(Holders(u)) <= 1 + Cardinality(Heirs(u))
    BY <1>1 DEF CopiesInv
  <1>3. Holders(u) \in SUBSET Procs /\ Heirs(u) \in SUBSET Procs
    BY DEF Holders, Heirs, Procs
  <1>4. /\ Cardinality(Places(file, u)) \in Nat /\ Cardinality(Holders(u)) \in Nat
        /\ Cardinality(Heirs(u)) \in Nat
    BY <1>1, <1>3, PlacesFinite, ProcsFinite
  <1>5. Cardinality(Places(file, u)) <= 1 + Cardinality(Heirs(u))
    BY <1>2, <1>4
  <1>. QED BY <1>5 DEF Places, Heirs

-----------------------------------------------------------------------------
(* All of it together. *)
LInv ==
  /\ IInv /\ OneBuf /\ Counted
  /\ OwnUnits /\ OwnLines /\ LossIsSuffix /\ Ordered
  /\ WholeInv /\ CopiesInv

LEMMA InitLInv == Init => LInv
  <1>. SUFFICES ASSUME Init PROVE LInv
    OBVIOUS
  <1>1. IInv /\ OneBuf /\ Counted
    BY InitIInv, InitCounted
  <1>2. ASSUME NEW p \in Procs PROVE Buf[p] = <<>> /\ mem[p].at = "idle" /\ Holds(p) = {}
    <2>1. /\ mem[p].buf = [g \in Loggers |-> <<>>] /\ mem[p].at = "idle" /\ mem[p].current = 1
      BY DEF Init, NoMemory
    <2>2. Buf[p] = <<>>
      BY <2>1 DEF Buf, Use, Copied, Loggers
    <2>. QED BY <2>1, <2>2, NoneOnce DEF Holds
  <1>3. /\ file = <<>> /\ Elems(file) = {} /\ returned = {}
        /\ \A c \in Children : inherited[c] = {}
    BY NoneOnce DEF Init
  <1>4. Live = {}
    BY <1>2, <1>3 DEF Live
  <1>5. OwnUnits /\ OwnLines /\ LossIsSuffix
    BY <1>3, <1>4 DEF OwnUnits, OwnLines, LossIsSuffix
  <1>6. Ordered
    BY <1>2, <1>3, FollowsNone DEF Ordered
  <1>7. WholeInv
    BY <1>2, <1>3, WholeNone DEF WholeInv, WholeBuf
  <1>8. ASSUME NEW u \in Units
        PROVE  Cardinality(Places(file, u)) + Cardinality(Holders(u)) <= 1 + Cardinality(Heirs(u))
    <2>1. Places(file, u) = {} /\ Holders(u) = {} /\ Heirs(u) = {}
      BY <1>2, <1>3 DEF Places, Holders, Heirs
    <2>2. Cardinality({}) = 0
      BY FS_EmptySet
    <2>. QED BY <2>1, <2>2
  <1>9. CopiesInv
    BY <1>2, <1>3, <1>8, NoneOnce DEF CopiesInv, Procs
  <1>. QED BY <1>1, <1>5, <1>6, <1>7, <1>9 DEF LInv

LEMMA NextLInv == LInv /\ [Next]_vars => LInv'
  <1>. SUFFICES ASSUME LInv, [Next]_vars PROVE LInv'
    OBVIOUS
  <1>1. /\ IInv /\ OneBuf /\ Counted /\ OwnUnits /\ OwnLines /\ LossIsSuffix /\ Ordered
        /\ WholeInv /\ CopiesInv
    BY DEF LInv
  <1>2. IInv'
    BY <1>1, NextIInv
  <1>3. CASE Next
    <2>1. OneBuf' /\ Effect
      BY <1>1, <1>3, NextEffect
    <2>2. PICK p \in Procs : Others(p) /\ EffectOf(p)
      BY <2>1 DEF Effect
    <2>3. Counted'
      BY <1>1, <1>2, <2>2, CountedStep
    <2>4. OwnUnits' /\ OwnLines'
      BY <1>1, <1>2, <2>2, OwnStep
    <2>5. LossIsSuffix'
      BY <1>1, <1>2, <2>2, LossStep
    <2>6. Ordered'
      BY <1>1, <1>2, <2>2, OrderedStep
    <2>7. WholeInv'
      BY <1>1, <1>2, <2>2, WholeStep
    <2>8. CopiesInv'
      BY <1>1, <1>2, <2>2, CopiesStep
    <2>. QED BY <1>2, <2>1, <2>3, <2>4, <2>5, <2>6, <2>7, <2>8 DEF LInv
  <1>4. CASE UNCHANGED vars
    <2>1. UNCHANGED <<file, count, mem, returned, inherited, spilled, lost, torn>>
      BY <1>4 DEF vars, histVars
    <2>2. Buf' = Buf
      BY <2>1 DEF Buf
    <2>3. \A q \in Procs : Holds(q)' = Holds(q)
      BY <2>2 DEF Holds
    <2>4. Live' = Live
      BY <2>1, <2>3 DEF Live
    <2>5. OneBuf' /\ Counted'
      BY <1>1, <2>1, <2>4 DEF OneBuf, Counted, UnitOK, LineOK
    <2>6. OwnUnits' /\ OwnLines'
      <3>1. /\ \A u \in Live : u.by \in Procs
            /\ \A r \in returned : r.by \in Procs
        BY <1>1, <1>2, StepTypes DEF Units
      <3>. QED BY <1>1, <2>1, <2>3, <2>4, <3>1 DEF OwnUnits, OwnLines
    <2>7. LossIsSuffix'
      BY <1>1, <2>1 DEF LossIsSuffix
    <2>8. Ordered' /\ WholeInv'
      BY <1>1, <2>1, <2>2, <2>4 DEF Ordered, WholeInv
    <2>9. \A u : Holders(u)' = Holders(u) /\ Heirs(u)' = Heirs(u)
      BY <2>1, <2>3 DEF Holders, Heirs
    <2>10. CopiesInv'
      BY <1>1, <2>1, <2>2, <2>3, <2>9 DEF CopiesInv, Procs
    <2>. QED BY <1>2, <2>5, <2>6, <2>7, <2>8, <2>10 DEF LInv
  <1>. QED BY <1>3, <1>4

-----------------------------------------------------------------------------
(* The memories of all processes keep their types and no buffer holds more *)
(* than it can, for any number of processes, lines and loggers.            *)
THEOREM TypeCorrect == Spec => []TypeOK
  <1>1. IInv => TypeOK
    BY DEF IInv
  <1>. QED BY <1>1, InitIInv, NextIInv, PTL DEF Spec

(* When FileSink::log has returned true for a warning or anything graver,  *)
(* the whole line is in the file, whatever the other processes, the        *)
(* reloads and the failures were.                                          *)
THEOREM ImportantIsDurableAlways == Spec => []ImportantIsDurable
  <1>1. IInv => ImportantIsDurable
    BY DEF IInv
  <1>. QED BY <1>1, InitIInv, NextIInv, PTL DEF Spec

(* A LogStream that has copied its logger writes to open sinks, however    *)
(* often the logger is replaced meanwhile.                                 *)
THEOREM CopyKeepsSinksOpenAlways == Spec => []CopyKeepsSinksOpen
  <1>1. IInv => CopyKeepsSinksOpen
    BY DEF IInv, Good, SinksOK, CopyKeepsSinksOpen
  <1>. QED BY <1>1, InitIInv, NextIInv, PTL DEF Spec

(* What a killed process loses is the end of its log: when FileSink::log   *)
(* has returned true for a grave line, the lines it returned true for      *)
(* before are in the file too, unless a buffer could not be written when   *)
(* its sink was destroyed.                                                 *)
THEOREM LossIsASuffixAlways == Spec => []LossIsASuffix
  <1>1. LInv => LossIsASuffix
    BY LossIsSuffixIs DEF LInv
  <1>. QED BY <1>1, InitLInv, NextLInv, PTL DEF Spec

(* The lines of a process are in the file in the order in which it logged  *)
(* them, whoever wrote them there: the process, or a child out of the      *)
(* buffer it inherited, also when a write fails half way and is repeated;  *)
(* unless a buffer could not be written when its sink was destroyed.       *)
THEOREM OrderKeptAlways == Spec => []OrderKept
  <1>1. LInv => OrderKept
    BY OrderedIs DEF LInv
  <1>. QED BY <1>1, InitLInv, NextLInv, PTL DEF Spec

(* As long as no buffer has overflowed and no write has failed with a part *)
(* of it in the file, the text of every line is followed by its newline,   *)
(* however many processes append to the file.  Flushes and destructors     *)
(* that fail without writing anything are included.                        *)
THEOREM WholeLinesAlways == Spec => []WholeLines
  <1>1. LInv => WholeLines
    BY WholeIs DEF LInv
  <1>. QED BY <1>1, InitLInv, NextLInv, PTL DEF Spec

(* A unit is in the file once, and once more at most for each child that   *)
(* found it in the buffer it inherited: reloads, flushes and the           *)
(* destructors of the sinks write nothing twice.  The exception is a write *)
(* that failed with a part of it in the file, which is repeated.           *)
THEOREM CopiesComeFromForkAlways == Spec => []CopiesComeFromFork
  <1>1. LInv => CopiesComeFromFork
    BY CopiesIs DEF LInv
  <1>. QED BY <1>1, InitLInv, NextLInv, PTL DEF Spec

(* Every result code has a known HTTP status: LOG_USING_RETCODE and, with  *)
(* that status, LOG_USING_STATUS log at the same level, a known one.       *)
THEOREM LevelsAgree ==
  \A code \in retCode : /\ to_http_status(code) \in http
                        /\ to_log_retCode(code) = to_log_http(to_http_status(code))
                        /\ to_log_retCode(code) \in log
  BY DEF retCode, to_http_status, int_to_status, http, to_log_retCode, to_log_http, LevelOfClass,
         log, trace, info, warning, error, critical, unknown,
         Success, InternalError, InvalidJsonOrParams, NotFound, RequestBufferOverflow
=============================================================================
