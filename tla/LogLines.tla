------------------------------ MODULE LogLines ------------------------------
(***************************************************************************)
(* The way of a log line into the file: the LOG macro and LogStream        *)
(* (logging_system.h, logging_system.cc), Logger and its sinks             *)
(* (logging.cc), in the server process and in the children it forks.       *)
(*                                                                         *)
(* Every process has its own memory, with its loggers and the buffer of    *)
(* each logger's FileSink; the file is one, opened for appending.  fork    *)
(* copies the memory, _exit drops it, and the destructor of a FileSink     *)
(* writes its buffer out.  The watcher's thread, which only the server     *)
(* process has, replaces the logger at any time (LogSystem has the rest of *)
(* it); the file sink is taken to keep its path.  A process logs from one  *)
(* thread.                                                                 *)
(***************************************************************************)
EXTENDS Status, Sequences, FiniteSets

CONSTANTS Server, Children,     \* the processes
          Codes,                \* the result codes that are logged
          Levels,               \* the levels a configuration may set
          Cap,                  \* how many units the buffer of an ofstream holds
          MaxLines,             \* bound on the lines logged
          MaxLoggers            \* bound on the loggers made

ASSUME LogLinesAssumption ==
  /\ Server \notin Children /\ IsFiniteSet(Children)
  /\ Codes \subseteq retCode /\ Levels \subseteq log
  /\ Cap \in Nat \ {0} /\ MaxLines \in Nat /\ MaxLoggers \in Nat \ {0}

Procs == Children \cup {Server}
Loggers == 1..MaxLoggers
Parts == {"text", "newline"}    \* file_ << inf << '\n'

VARIABLES file,         \* the units in the file
          count,        \* how many lines were logged, which numbers them
          mem,          \* the memory of each process, see Memory
          returned,     \* history: the lines for which FileSink::log returned true
          inherited,    \* history: the units a child found in its buffer
          spilled,      \* history: a buffer overflowed
          lost,         \* history: a buffer could not be written on closing
          torn          \* history: a write failed when part of it was in the file

histVars == <<returned, inherited, spilled, lost, torn>>
vars == <<file, count, mem, histVars>>

(* current: the logger in force, lm_->logger_, and its level; buf, closed: *)
(* the buffers of the loggers' FileSinks, and those destroyed; at, held:   *)
(* where the thread is in LOG, and the logger it has got hold of; n, lv:   *)
(* number and level of the line it is logging.                             *)
NoMemory(state) ==
  [state |-> state, current |-> 1, level |-> unknown, buf |-> [g \in Loggers |-> <<>>],
   closed |-> {}, at |-> "idle", held |-> 1, n |-> 0, lv |-> unknown]

Init ==
  /\ file = <<>> /\ count = 0
  /\ \E l \in Levels :
       mem = [p \in Procs |-> IF p = Server THEN [NoMemory("running") EXCEPT !.level = l]
                                            ELSE NoMemory("unborn")]
  /\ returned = {} /\ inherited = [c \in Children |-> {}]
  /\ spilled = FALSE /\ lost = FALSE /\ torn = FALSE

At(p, place) == mem[p].state = "running" /\ mem[p].at = place
Unit(p, part) == [by |-> p, n |-> mem[p].n, part |-> part]
Buffer(p) == mem[p].buf[mem[p].held]

-----------------------------------------------------------------------------
(* The buffer of an ofstream; the thread goes on to place. *)

(* An insertion goes to the buffer while there is room; otherwise the      *)
(* library writes the full buffer, with what did not fit or without it.    *)
Put(p, u, place) ==
  LET b == Append(Buffer(p), u)
      full == Len(b) > Cap IN
  \E k \in IF full THEN {Cap, Cap + 1} ELSE {0} :
    /\ file' = file \o SubSeq(b, 1, k)
    /\ mem' = [mem EXCEPT ![p].buf[mem[p].held] = SubSeq(b, k + 1, Len(b)), ![p].at = place]
    /\ spilled' = (spilled \/ full)

(* A write of b that fails: nothing of it is in the file, or the first     *)
(* units and perhaps a piece of the next one, which is not recorded.       *)
Short(b) ==
  /\ b # <<>>
  /\ \/ UNCHANGED <<file, torn>>
     \/ torn' = TRUE /\ \E k \in 0..(Len(b) - 1) : file' = file \o SubSeq(b, 1, k)

(* ~FileSink writes the buffer, and if that fails nobody learns of it. *)
WriteOut(b) ==
  \/ file' = file \o b /\ UNCHANGED <<lost, torn>>
  \/ Short(b) /\ lost' = TRUE

(* A memory m in which the sinks of logger g are destroyed. *)
Closed(m, g) == [m EXCEPT !.closed = @ \cup {g}, !.buf[g] = <<>>]

-----------------------------------------------------------------------------
(* LOG in process p: LOG_USING_RETCODE(code), or LOG_USING_STATUS with its *)
(* status; LOG_INFO and the like differ in naming the level themselves.    *)
(* While the manager is paused Get returns nothing and the line is not     *)
(* logged, which is as if the macro had not been reached.                  *)

GetLevel(p) == mem[p].level
ShouldLog(l, set_level) == set_level # unknown /\ set_level <= l

(* ShouldLog reads the level of the logger in force. *)
Check(p, l) ==
  /\ At(p, "idle") /\ count < MaxLines
  /\ ShouldLog(l, GetLevel(p))
  /\ count' = count + 1
  /\ mem' = [mem EXCEPT ![p].n = count + 1, ![p].lv = l, ![p].at = "get"]
  /\ UNCHANGED <<file, histVars>>

(* LogSystem::Get returns a reference to the logger in force. *)
Get(p) ==
  /\ At(p, "get")
  /\ mem' = [mem EXCEPT ![p].held = mem[p].current, ![p].at = "copy"]
  /\ UNCHANGED <<file, count, histVars>>

(* LogStream copies the Logger, and with it the shared pointers to its     *)
(* sinks.  If the logger was freed since Get, the copy is made of freed    *)
(* memory: the line is lost in a sink that is closed, or the process ends. *)
(* ~LogStream formats the line, or drops it, and Logger::log hands it to   *)
(* each sink in turn; an exception out of ConsoleSink::log or JsonFormat   *)
(* leaves a noexcept function.  Killed stands for both ways to end.        *)
Copy(p) ==
  /\ At(p, "copy")
  /\ \E place \in IF mem[p].held \in mem[p].closed THEN {"idle"} ELSE {"text", "release"} :
       mem' = [mem EXCEPT ![p].at = place]
  /\ UNCHANGED <<file, count, histVars>>

(* An important line that is written through before its end. *)
MutText(p) ==
  /\ At(p, "text")
  /\ IF important_log(mem[p].lv)
     THEN /\ file' = file \o Append(Buffer(p), Unit(p, "text"))
          /\ mem' = [mem EXCEPT ![p].buf[mem[p].held] = <<>>, ![p].at = "newline"]
          /\ UNCHANGED spilled
     ELSE Put(p, Unit(p, "text"), "newline")
  /\ UNCHANGED <<count, returned, inherited, lost, torn>>

(* FileSink::log *)
Text(p) ==
  /\ At(p, "text")
  /\ Put(p, Unit(p, "text"), "newline")
  /\ UNCHANGED <<count, returned, inherited, lost, torn>>

LogReturnsTrue(p) ==
  returned' = returned \cup {[by |-> p, n |-> mem[p].n, level |-> mem[p].lv]}

Newline(p) ==
  /\ At(p, "newline")
  /\ IF important_log(mem[p].lv)
     THEN Put(p, Unit(p, "newline"), "flush") /\ UNCHANGED returned
     ELSE Put(p, Unit(p, "newline"), "release") /\ LogReturnsTrue(p)
  /\ UNCHANGED <<count, inherited, lost, torn>>

(* An overflow that cannot be written: the unit is lost, what follows it   *)
(* is not inserted, and log returns false.  The buffer stays, and what of  *)
(* it reached the file is written again with it.                           *)
InsertFails(p) ==
  /\ At(p, "text") \/ At(p, "newline")
  /\ Len(Buffer(p)) >= Cap
  /\ Short(Append(Buffer(p), Unit(p, mem[p].at)))
  /\ mem' = [mem EXCEPT ![p].at = "release"]
  /\ spilled' = TRUE
  /\ UNCHANGED <<count, returned, inherited, lost>>

(* A flush that leaves the buffer as it was. *)
Mutflush(p) ==
  /\ At(p, "flush")
  /\ file' = file \o Buffer(p)
  /\ mem' = [mem EXCEPT ![p].at = "release"]
  /\ LogReturnsTrue(p)
  /\ UNCHANGED <<count, inherited, spilled, lost, torn>>

(* FileSink::flush writes the buffer; a failure leaves it, and as log      *)
(* clears the error the next write takes all of it once more.              *)
flush(p) ==
  /\ At(p, "flush")
  /\ \/ /\ file' = file \o Buffer(p)
        /\ mem' = [mem EXCEPT ![p].buf[mem[p].held] = <<>>, ![p].at = "release"]
        /\ LogReturnsTrue(p) /\ UNCHANGED torn
     \/ /\ Short(Buffer(p))
        /\ mem' = [mem EXCEPT ![p].at = "release"]
        /\ UNCHANGED returned
  /\ UNCHANGED <<count, inherited, spilled, lost>>

(* The LogStream is gone, and with it its share of the sinks: if the       *)
(* logger was replaced meanwhile it was the last one.                      *)
Release(p) ==
  /\ At(p, "release")
  /\ IF mem[p].held = mem[p].current
     THEN mem' = [mem EXCEPT ![p].at = "idle"] /\ UNCHANGED <<file, lost, torn>>
     ELSE /\ WriteOut(Buffer(p))
          /\ mem' = [mem EXCEPT ![p] = [Closed(@, mem[p].held) EXCEPT !.at = "idle"]]
  /\ UNCHANGED <<count, returned, inherited, spilled>>

LOG(p) ==
  \/ \E code \in Codes : \/ Check(p, to_log_retCode(code))
                         \/ Check(p, to_log_http(to_http_status(code)))
  \/ Get(p) \/ Copy(p)
  \/ Text(p) \/ Newline(p) \/ InsertFails(p) \/ flush(p)
  \/ Release(p)

-----------------------------------------------------------------------------
Copied == {"text", "newline", "flush", "release"}

(* A LogStream that keeps a reference to the logger shares nothing. *)
MutShared(m) == FALSE

(* A LogStream has a copy of the logger in force. *)
Shared(m) == m.at \in Copied /\ m.held = m.current

(* A replaced logger whose sinks are not written out. *)
MutReload(l) ==
  LET m == mem[Server]
      r == [m EXCEPT !.current = @ + 1, !.level = l] IN
  /\ m.state = "running" /\ m.current < MaxLoggers
  /\ mem' = [mem EXCEPT ![Server] = IF Shared(m) THEN r ELSE Closed(r, m.current)]
  /\ UNCHANGED <<file, count, histVars>>

(* The watcher's thread puts a new logger in the place of the old one.     *)
(* The old one's sinks are destroyed with it unless a LogStream shares     *)
(* them.                                                                   *)
Reload(l) ==
  LET m == mem[Server]
      r == [m EXCEPT !.current = @ + 1, !.level = l] IN
  /\ m.state = "running" /\ m.current < MaxLoggers
  /\ IF Shared(m)
     THEN mem' = [mem EXCEPT ![Server] = r] /\ UNCHANGED <<file, lost, torn>>
     ELSE mem' = [mem EXCEPT ![Server] = Closed(r, m.current)] /\ WriteOut(m.buf[m.current])
  /\ UNCHANGED <<count, returned, inherited, spilled>>

(* fork in the accept loop: the child is a copy, without the watcher's     *)
(* thread.                                                                 *)
fork(c) ==
  LET m == mem[Server]
      b == m.buf[m.current] IN
  /\ At(Server, "idle") /\ mem[c].state = "unborn"
  /\ mem' = [mem EXCEPT ![c] = m]
  /\ inherited' = [inherited EXCEPT ![c] = {b[i] : i \in DOMAIN b}]
  /\ UNCHANGED <<file, count, returned, spilled, lost, torn>>

(* _exit(0) of a child, or the end of any process by a signal or by        *)
(* std::terminate: what is buffered is gone.                               *)
Killed(p) ==
  /\ mem[p].state = "running"
  /\ mem' = [mem EXCEPT ![p] = NoMemory("gone")]
  /\ UNCHANGED <<file, count, histVars>>

(* The server process returns from main: lm_ is destroyed. *)
Exit ==
  /\ At(Server, "idle")
  /\ WriteOut(mem[Server].buf[mem[Server].current])
  /\ mem' = [mem EXCEPT ![Server] = NoMemory("gone")]
  /\ UNCHANGED <<count, returned, inherited, spilled>>

Next ==
  \/ \E p \in Procs : LOG(p) \/ Killed(p)
  \/ \E l \in Levels : Reload(l)
  \/ \E c \in Children : fork(c)
  \/ Exit

Spec == Init /\ [][Next]_vars

-----------------------------------------------------------------------------
Units == [by : Procs, n : 1..MaxLines, part : Parts]
Memory ==
  [state : {"unborn", "running", "gone"}, current : Loggers, level : Levels \cup {unknown},
   buf : [Loggers -> Seq(Units)], closed : SUBSET Loggers,
   at : {"idle", "get", "copy"} \cup Copied, held : Loggers,
   n : 0..MaxLines, lv : log \cup {unknown}]

(* The variables of LogStream, Logger and FileSink; no buffer holds more   *)
(* than it can.                                                            *)
TypeOK ==
  /\ file \in Seq(Units) /\ count \in 0..MaxLines
  /\ mem \in [Procs -> Memory]
  /\ \A p \in Procs, g \in Loggers : Len(mem[p].buf[g]) <= Cap
  /\ returned \subseteq [by : Procs, n : 1..MaxLines, level : log]
  /\ inherited \in [Children -> SUBSET Units]
  /\ spilled \in BOOLEAN /\ lost \in BOOLEAN /\ torn \in BOOLEAN

Written(p, n) == \A part \in Parts : \E i \in DOMAIN file : file[i] = [by |-> p, n |-> n, part |-> part]

(* Once FileSink::log has returned true for a warning or anything graver,  *)
(* the whole line is in the file, whatever becomes of the process.         *)
ImportantIsDurable ==
  \A r \in returned : r.level >= warning => Written(r.by, r.n)

(* And so is every line the process logged before it: what a killed        *)
(* process loses is the end of its log, after its last important line.     *)
(* The exception: a buffer that ~FileSink could not write is lost whole,   *)
(* and later lines may follow (lost).                                      *)
LossIsASuffix ==
  ~lost => \A r, s \in returned :
    r.level >= warning /\ s.by = r.by /\ s.n < r.n => Written(s.by, s.n)

(* The lines of a process come in their order, although a child may write  *)
(* what the server process had buffered, before or after the server does,  *)
(* and a failed write is repeated.  Again only ~FileSink's failure is      *)
(* excepted.                                                               *)
Before(u, v) == u.by = v.by /\ (u.n < v.n \/ (u.n = v.n /\ u.part = "text" /\ v.part = "newline"))
OrderKept ==
  ~lost => \A i, j \in DOMAIN file :
    Before(file[i], file[j]) => \E k \in 1..j : file[k] = file[i]

(* A unit is in the file twice only if fork found it in the buffer: once   *)
(* more at most for each child that inherited it.  The exception: a write  *)
(* that failed half way is repeated from its start (torn).                 *)
CopiesComeFromFork ==
  ~torn => \A i \in DOMAIN file :
    Cardinality({j \in DOMAIN file : file[j] = file[i]}) <=
      1 + Cardinality({c \in Children : file[i] \in inherited[c]})

(* While no buffer has overflowed and no write has failed half way, lines  *)
(* of several processes mix as whole lines.  Both are real exceptions: an  *)
(* overflow writes up to any unit, and on a full disk flush or ~FileSink   *)
(* may write the text of a line without its end.                           *)
WholeLines ==
  ~spilled /\ ~torn => \A i \in DOMAIN file : file[i].part = "text" =>
    i < Len(file) /\ file[i + 1] = [file[i] EXCEPT !.part = "newline"]

(* A LogStream that has made its copy writes to sinks that are open,       *)
(* however often the logger is replaced before it is done.                 *)
CopyKeepsSinksOpen ==
  \A p \in Procs : mem[p].at \in Copied => mem[p].held \notin mem[p].closed
=============================================================================
