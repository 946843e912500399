-------------------------- MODULE LogSystemProofs ---------------------------
(***************************************************************************)
(* Proofs about LogSystem, for every set of configurations and every       *)
(* interleaving of calls, writes to the file and the watchers' threads.    *)
(* IInv says where threads can be; it yields that logging is off between   *)
(* the end of Stop or Init and the next call.  FInv, on top of it, relates *)
(* the file, the events in the queue, what was read last and what is in    *)
(* force.                                                                  *)
(***************************************************************************)
EXTENDS LogSystem, SequenceTheorems, TLAPS

Workers == {"none", "waiting", "called", "reading", "installing", "exited"}
Events == {"vnode", "user"}
WatcherShape == [started : BOOLEAN, q : Seq(Events), worker : Workers, conf : Content, stale : BOOLEAN]

(* The part of the types the argument needs. *)
Shape ==
  /\ cw \in Slots \cup {None}
  /\ w \in [Slots -> WatcherShape]
  /\ file \in Content /\ lm \in BOOLEAN /\ paused \in BOOLEAN /\ down \in BOOLEAN

(* Only the watcher of cw_ has a thread, but for the one being destroyed. *)
OneThread ==
  /\ ctl \notin {"joinold", "dead"} => \A s \in Slots : s # cw => w[s].worker = "none"
  /\ ctl = "joinold" => cw \in Slots /\ w[cw].worker = "none" /\ ~w[cw].started

(* A watcher that is not started has no thread, except while it is joined. *)
NotStartedNoThread ==
  ctl \notin {"joining", "joinold", "dead"} =>
     \A s \in Slots : ~w[s].started => w[s].worker = "none"

(* A watcher that is joined is not started any more. *)
JoiningStopped == ctl = "joining" => ~w[cw].started

(* A call that waits or pauses is about a watcher that exists. *)
CallHasWatcher == ctl \in {"joining", "launch", "remain"} => cw \in Slots

(* Pausing comes when no thread is left to undo it, and none comes until   *)
(* the next start.                                                         *)
NoThread == \A s \in Slots : w[s].worker = "none"
PauseLast ==
  /\ ctl = "pause" => NoThread
  /\ down => paused /\ NoThread /\ ctl \in {"idle", "launch", "joining", "pause"}

IInv == Shape /\ OneThread /\ NotStartedNoThread /\ JoiningStopped /\ CallHasWatcher /\ PauseLast

(* The queue of a kqueue stays a sequence of event names. *)
LEMMA ActivateType ==
  ASSUME NEW q \in Seq(Events), NEW ev \in Events
  PROVE  Activate(q, ev) \in Seq(Events)
BY DEF Activate, Events

(* What Stop does to a watcher before the join. *)
LEMMA StoppedFacts ==
  ASSUME Shape, NEW s \in Slots
  PROVE  /\ Stopped(w[s]) \in WatcherShape
         /\ Stopped(w[s]).worker = w[s].worker /\ ~Stopped(w[s]).started
<1>1. Activate(w[s].q, "user") \in Seq(Events)
  BY ActivateType DEF Shape, WatcherShape, Events
<1> QED BY <1>1 DEF Stopped, Shape, WatcherShape

(* The configuration a watcher without a load keeps is a Content. *)
LEMMA NoWatcherFacts ==
  /\ NoWatcher \in WatcherShape
  /\ NoWatcher.worker = "none" /\ ~NoWatcher.started
  /\ NoLogger \in Content
BY DEF NoWatcher, NoLogger, Content, Workers, WatcherShape

(* Changing one field of a watcher keeps the others. *)
LEMMA FieldFacts ==
  ASSUME NEW x \in WatcherShape, NEW t \in Workers, NEW b \in BOOLEAN
  PROVE  /\ [x EXCEPT !.worker = t] \in WatcherShape
         /\ [x EXCEPT !.worker = t].worker = t
         /\ [x EXCEPT !.worker = t].started = x.started
         /\ [x EXCEPT !.stale = b] \in WatcherShape
         /\ [x EXCEPT !.stale = b].worker = x.worker
         /\ [x EXCEPT !.stale = b].started = x.started
BY DEF WatcherShape

(* The initial states satisfy the invariant. *)
LEMMA InitIInv == Init => IInv
BY NoWatcherFacts, LogSystemAssumption
   DEF Init, IInv, Shape, OneThread, NotStartedNoThread, JoiningStopped, CallHasWatcher, PauseLast, NoThread, Slots, None

(* A write only adds to the queues. *)
LEMMA WriteStep ==
  ASSUME IInv, NEW c \in Contents, Write(c)
  PROVE  IInv'
<1>1. \A s \in Slots : Activate(w[s].q, "vnode") \in Seq(Events)
  BY ActivateType DEF IInv, Shape, WatcherShape, Events
<1>2. \A s \in Slots : /\ w'[s] \in WatcherShape
                       /\ w'[s].worker = w[s].worker /\ w'[s].started = w[s].started
  BY <1>1 DEF IInv, Shape, Write, WatcherShape
<1>3. Shape'
  BY <1>2, LogSystemAssumption DEF IInv, Shape, Write, mgrVars, histVars
<1> QED
  BY <1>2, <1>3 DEF IInv, OneThread, NotStartedNoThread, JoiningStopped, CallHasWatcher, PauseLast, NoThread, Write,
     mgrVars, histVars

(* The steps of a call that replace the manager or the watcher. *)
LEMMA ReplaceSteps ==
  ASSUME IInv,
         \/ \E o \in {"Init", "StartPath"}, good \in BOOLEAN : NewManager(o, good)
         \/ NoWatch \/ NewWatcher \/ JoinOld
  PROVE  IInv'
<1> USE DEF Slots, None
<1>1. ASSUME NEW o \in {"Init", "StartPath"}, NEW good \in BOOLEAN, NewManager(o, good) PROVE IInv'
  <2>1. \A s \in Slots : \E b \in BOOLEAN : w'[s] = [w[s] EXCEPT !.stale = b]
    <3> TAKE s \in Slots
    <3>1. (w[s].stale \/ InManager(s)) \in BOOLEAN OBVIOUS
    <3>2. w'[s] = [w[s] EXCEPT !.stale = (w[s].stale \/ InManager(s))]
      BY <1>1 DEF NewManager
    <3> QED BY <3>1, <3>2
  <2>2. \A s \in Slots : /\ w'[s] \in WatcherShape
                         /\ w'[s].worker = w[s].worker /\ w'[s].started = w[s].started
    <3> TAKE s \in Slots
    <3>1. w[s] \in WatcherShape /\ "none" \in Workers BY DEF IInv, Shape, Workers
    <3>2. PICK b \in BOOLEAN : w'[s] = [w[s] EXCEPT !.stale = b] BY <2>1
    <3>3. /\ [w[s] EXCEPT !.stale = b] \in WatcherShape
          /\ [w[s] EXCEPT !.stale = b].worker = w[s].worker
          /\ [w[s] EXCEPT !.stale = b].started = w[s].started
      BY <3>1, FieldFacts, Zenon
    <3> QED BY <3>2, <3>3, Zenon
  <2>3. paused' \in BOOLEAN
    BY <1>1 DEF NewManager, PausedBy
  <2>4. Shape'
    BY <1>1, <2>2, <2>3 DEF IInv, Shape, NewManager
  <2> QED
    BY <1>1, <2>2, <2>4 DEF IInv, OneThread, NotStartedNoThread, JoiningStopped, CallHasWatcher, PauseLast, NewManager
<1>2. CASE NoWatch
  BY <1>2 DEF NoWatch, IInv, Shape, OneThread, NotStartedNoThread, JoiningStopped, CallHasWatcher, PauseLast, NoThread,
     mgrVars, histVars
<1>3. CASE NewWatcher
  <2> DEFINE s == IF cw = 0 THEN 1 ELSE 0
  <2>1. ctl = "watch" /\ cw' = s /\ ~down
    BY <1>3 DEF NewWatcher, IInv, PauseLast
  <2>2. CASE cw # None /\ w[cw].started
    <3>1. w' = [w EXCEPT ![s] = NoWatcher, ![cw] = Stopped(@)] /\ ctl' = "joinold"
      BY <1>3, <2>2 DEF NewWatcher
    <3>2. w'[s] = NoWatcher /\ w'[cw] = Stopped(w[cw]) /\ DOMAIN w' = Slots /\ cw \in Slots /\ cw # s
      BY <2>2, <3>1 DEF IInv, Shape
    <3>3. Shape'
      BY <1>3, <2>1, <3>1, <3>2, NoWatcherFacts, StoppedFacts DEF IInv, Shape, NewWatcher, mgrVars
    <3> QED
      BY <1>3, <2>1, <3>1, <3>2, <3>3, NoWatcherFacts, StoppedFacts
         DEF IInv, Shape, OneThread, NotStartedNoThread, JoiningStopped, CallHasWatcher, PauseLast, NewWatcher
  <2>3. CASE ~(cw # None /\ w[cw].started)
    <3>1. w' = [x \in Slots |-> NoWatcher] /\ ctl' = AfterWatcher
      BY <1>3, <2>3 DEF NewWatcher
    <3>2. Shape'
      BY <1>3, <2>1, <3>1, NoWatcherFacts DEF IInv, Shape, NewWatcher, mgrVars
    <3> QED
      BY <1>3, <2>1, <3>1, <3>2, NoWatcherFacts
         DEF IInv, OneThread, NotStartedNoThread, JoiningStopped, CallHasWatcher, PauseLast, NoThread, NewWatcher, AfterWatcher
  <2> QED BY <2>2, <2>3
<1>4. CASE JoinOld
  <2>1. cw \in Slots /\ w[cw].worker = "none" /\ ctl = "joinold" /\ ~down
    BY <1>4 DEF JoinOld, IInv, OneThread, PauseLast
  <2>2. 1 - cw \in Slots /\ 1 - cw # cw /\ \A s \in Slots : s # cw => s = 1 - cw
    BY <2>1
  <2>3. w' = [w EXCEPT ![1 - cw] = NoWatcher] /\ ctl' = AfterWatcher /\ cw' = cw
    BY <1>4 DEF JoinOld
  <2>4. Shape'
    BY <1>4, <2>1, <2>2, <2>3, NoWatcherFacts DEF IInv, Shape, JoinOld, mgrVars, histVars
  <2> QED
    BY <1>4, <2>1, <2>2, <2>3, <2>4, NoWatcherFacts
       DEF IInv, Shape, OneThread, NotStartedNoThread, JoiningStopped, CallHasWatcher, PauseLast, NoThread, JoinOld,
           AfterWatcher, histVars
<1> QED BY <1>1, <1>2, <1>3, <1>4

(* The steps of Start and Stop. *)
LEMMA CallSteps ==
  ASSUME IInv, Start \/ Launch \/ LaunchFails \/ Remain \/ Stop \/ Join \/ Pause
  PROVE  IInv'
<1> USE DEF Slots, None
<1>1. CASE Start
  BY <1>1 DEF Start, IInv, Shape, OneThread, NotStartedNoThread, JoiningStopped, CallHasWatcher, PauseLast, NoThread,
     mgrVars, histVars
<1>2. CASE Launch
  <2>1. cw \in Slots /\ ctl = "launch"
    BY <1>2 DEF Launch, IInv, CallHasWatcher
  <2>2. CASE w[cw].worker = "none"
    <3>1. /\ w' = [w EXCEPT ![cw].started = TRUE, ![cw].worker = "waiting"]
          /\ ctl' \in {"remain", "idle"} /\ cw' = cw /\ ~down'
      BY <1>2, <2>2 DEF Launch
    <3>2. Shape'
      BY <1>2, <2>1, <3>1 DEF IInv, Shape, WatcherShape, Launch, mgrVars, Workers
    <3> QED
      BY <2>1, <3>1, <3>2 DEF IInv, Shape, OneThread, NotStartedNoThread, JoiningStopped, CallHasWatcher, PauseLast
  <2>3. CASE w[cw].worker # "none"
    BY <1>2, <2>1, <2>3 DEF Launch, IInv, Shape, OneThread, NotStartedNoThread, JoiningStopped, CallHasWatcher,
       PauseLast, mgrVars
  <2> QED BY <2>2, <2>3
<1>7. CASE LaunchFails
  <2>1. /\ cw \in Slots /\ ctl = "launch" /\ ctl' = "idle"
        /\ w' = [w EXCEPT ![cw].started = TRUE]
        /\ UNCHANGED <<cw, file, lm, paused, down>>
    BY <1>7 DEF LaunchFails, IInv, CallHasWatcher, mgrVars
  <2>2. /\ w' \in [Slots -> WatcherShape]
        /\ \A s \in Slots : w'[s].worker = w[s].worker /\ (s # cw => w'[s] = w[s])
        /\ w'[cw].started
    BY <2>1 DEF IInv, Shape, WatcherShape
  <2>3. Shape'
    BY <2>1, <2>2 DEF IInv, Shape
  <2> QED
    BY <2>1, <2>2, <2>3 DEF IInv, OneThread, NotStartedNoThread, JoiningStopped, CallHasWatcher, PauseLast, NoThread
<1>3. CASE Remain
  BY <1>3 DEF Remain, IInv, Shape, OneThread, NotStartedNoThread, JoiningStopped, CallHasWatcher, PauseLast, histVars
<1>4. CASE Stop
  <2>1. cw \in Slots /\ ctl = "idle" /\ cw' = cw /\ down' = down /\ paused' = paused
    BY <1>4 DEF Stop, IInv, Shape, mgrVars, histVars
  <2>2. w' = [w EXCEPT ![cw] = Stopped(@)]
    BY <1>4 DEF Stop
  <2>3. Shape'
    BY <1>4, <2>1, <2>2, StoppedFacts DEF IInv, Shape, Stop, mgrVars, histVars
  <2>4. \A s \in Slots : w'[s].worker = w[s].worker /\ (s # cw => w'[s] = w[s])
    BY <2>1, <2>2, StoppedFacts DEF IInv, Shape
  <2>5. CASE w[cw].started
    <3>1. ctl' = "joining"
      BY <1>4, <2>5 DEF Stop
    <3> QED
      BY <2>1, <2>2, <2>3, <2>4, <3>1, StoppedFacts
         DEF IInv, Shape, OneThread, NotStartedNoThread, JoiningStopped, CallHasWatcher, PauseLast, NoThread
  <2>6. CASE ~w[cw].started
    <3>1. ctl' = "pause" /\ \A s \in Slots : w[s].worker = "none"
      BY <1>4, <2>1, <2>6 DEF Stop, IInv, OneThread, NotStartedNoThread
    <3> QED
      BY <2>1, <2>2, <2>3, <2>4, <3>1, StoppedFacts
         DEF IInv, Shape, OneThread, NotStartedNoThread, JoiningStopped, CallHasWatcher, PauseLast, NoThread
  <2> QED BY <2>5, <2>6
<1>5. CASE Join
  <2>1. cw \in Slots /\ ctl = "joining" /\ paused' = paused /\ down' = down
    BY <1>5 DEF Join, IInv, CallHasWatcher, mgrVars, histVars
  <2>2. w' = [w EXCEPT ![cw].worker = "none"] /\ ctl' = "pause" /\ cw' = cw
    BY <1>5 DEF Join
  <2>3. Shape'
    <3>1. w[cw] \in WatcherShape /\ "none" \in Workers BY <2>1 DEF IInv, Shape, Workers
    <3>2. [w[cw] EXCEPT !.worker = "none"] \in WatcherShape BY <3>1, FieldFacts
    <3>3. w' \in [Slots -> WatcherShape] BY <2>1, <2>2, <3>2 DEF IInv, Shape
    <3> QED BY <1>5, <3>3 DEF IInv, Shape, Join, mgrVars, histVars
  <2>4. NoThread'
    BY <2>1, <2>2 DEF IInv, Shape, OneThread, NoThread
  <2> QED
    BY <1>5, <2>1, <2>2, <2>3, <2>4
       DEF IInv, OneThread, NotStartedNoThread, JoiningStopped, CallHasWatcher, PauseLast, NoThread, Join, histVars
<1>6. CASE Pause
  BY <1>6 DEF Pause, IInv, Shape, OneThread, NotStartedNoThread, JoiningStopped, CallHasWatcher, PauseLast, NoThread
<1> QED BY <1>1, <1>2, <1>3, <1>4, <1>5, <1>6, <1>7

(* The steps of a watcher's thread: there is one only when logging is not  *)
(* down, and the steps neither start one nor end a join.                   *)
LEMMA RunSteps ==
  ASSUME IInv, NEW s \in Slots, Run(s) \/ KeventFails(s)
  PROVE  IInv'
<1>1. /\ w[s].worker # "none" /\ w'[s].worker # "none" /\ w'[s].started = w[s].started
      /\ \A x \in Slots : x # s => w'[x] = w[x]
      /\ w'[s] \in WatcherShape /\ w' \in [Slots -> WatcherShape]
  <2> USE DEF IInv, Shape, WatcherShape, Workers
  <2>1. CASE Vnode(s) \/ User(s)
    <3>1. w[s] \in WatcherShape /\ Tail(w[s].q) \in Seq(Events)
      BY <2>1 DEF Vnode, User, Events
    <3>2. CASE Vnode(s)
      BY <3>1, <3>2 DEF Vnode
    <3>3. CASE User(s)
      BY <3>1, <3>3 DEF User
    <3> QED BY <2>1, <3>2, <3>3
  <2>2. CASE Read(s)
    <3>1. /\ w[s] \in WatcherShape /\ w[s].worker = "reading"
          /\ w' = [w EXCEPT ![s] = [w[s] EXCEPT !.worker = IF Accepts(file) THEN "installing" ELSE "waiting",
                                               !.conf = IF Accepts(file) THEN file ELSE NoLogger]]
      BY <2>2 DEF Read
    <3> QED BY <3>1, NoWatcherFacts
  <2>3. CASE Install(s)
    BY <2>3, NoWatcherFacts DEF Install
  <2>4. CASE LoadFreed(s)
    BY <2>4, NoWatcherFacts DEF LoadFreed, InManager
  <2>5. CASE KeventFails(s)
    BY <2>5 DEF KeventFails
  <2>7. CASE Enter(s)
    BY <2>7 DEF Enter
  <2>6. CASE PathFails(s)
    <3>1. w[s] \in WatcherShape /\ Tail(w[s].q) \in Seq(Events)
      BY <2>6 DEF PathFails, Events
    <3>2. /\ [w[s] EXCEPT !.q = Tail(w[s].q)] \in WatcherShape
          /\ [w[s] EXCEPT !.q = Tail(w[s].q)].worker = w[s].worker
          /\ [w[s] EXCEPT !.q = Tail(w[s].q)].started = w[s].started
      BY <3>1
    <3>3. w' = [w EXCEPT ![s] = [w[s] EXCEPT !.q = Tail(w[s].q)]] /\ w[s].worker # "none"
      BY <2>6 DEF PathFails
    <3> QED BY <3>2, <3>3
  <2> QED BY <2>1, <2>2, <2>3, <2>4, <2>5, <2>6, <2>7 DEF Run
<1>2. /\ cw' = cw /\ file' = file /\ lm' = lm /\ down' = down
      /\ ctl' = ctl \/ ctl' = "dead"
  BY DEF Run, Vnode, PathFails, Enter, Read, Install, LoadFreed, User, KeventFails, mgrVars, histVars
<1>3. paused' \in BOOLEAN
  BY DEF IInv, Shape, Run, Vnode, PathFails, Enter, Read, Install, LoadFreed, User, KeventFails, mgrVars, PausedBy
<1>4. ~down /\ ctl # "pause"
  BY <1>1 DEF IInv, PauseLast, NoThread
<1>5. Shape'
  BY <1>1, <1>2, <1>3 DEF IInv, Shape
<1>6. OneThread' /\ CallHasWatcher' /\ PauseLast'
  BY <1>1, <1>2, <1>4 DEF IInv, OneThread, CallHasWatcher, PauseLast
<1>7. NotStartedNoThread' /\ JoiningStopped'
  BY <1>1, <1>2 DEF IInv, Shape, NotStartedNoThread, JoiningStopped, CallHasWatcher
<1> QED BY <1>5, <1>6, <1>7 DEF IInv

(* Every step preserves the invariant. *)
LEMMA NextIInv == IInv /\ [Next]_vars => IInv'
<1> SUFFICES ASSUME IInv, [Next]_vars PROVE IInv' OBVIOUS
<1>1. CASE \E c \in Contents : Write(c)
  BY <1>1, WriteStep
<1>2. CASE \/ \E o \in {"Init", "StartPath"}, good \in BOOLEAN : NewManager(o, good)
           \/ NoWatch \/ NewWatcher \/ JoinOld
  BY <1>2, ReplaceSteps
<1>3. CASE Start \/ Launch \/ LaunchFails \/ Remain \/ Stop \/ Join \/ Pause
  BY <1>3, CallSteps
<1>4. CASE \E s \in Slots : Run(s) \/ KeventFails(s)
  BY <1>4, RunSteps
<1>5. CASE UNCHANGED vars
  BY <1>5 DEF vars, mgrVars, histVars, IInv, Shape, OneThread, NotStartedNoThread, JoiningStopped,
     CallHasWatcher, PauseLast, NoThread
<1> QED BY <1>1, <1>2, <1>3, <1>4, <1>5 DEF Next, Goes

-----------------------------------------------------------------------------
(* What the watcher and the manager know of the file. *)

Alive == {"waiting", "called", "reading", "installing"}
Queue == {<<>>, <<"vnode">>, <<"user">>, <<"vnode", "user">>, <<"user", "vnode">>}
Has(q, ev) == \E i \in DOMAIN q : q[i] = ev

(* What is about to be installed was accepted, and unless the manager was  *)
(* freed meanwhile it is what was read last.                               *)
ConfSeen ==
  \A s \in Slots : w[s].worker = "installing" =>
    w[s].conf \in Contents /\ Accepts(w[s].conf) /\ (~w[s].stale => w[s].conf = seen)

(* A thread is left with a freed manager only within its callback, and     *)
(* only until the old watcher is joined.                                   *)
StaleLoads ==
  /\ \A s \in Slots : w[s].stale => InManager(s)
  /\ ~refused /\ ctl \notin {"watch", "nofile", "joinold", "dead"} => \A s \in Slots : ~w[s].stale

(* Stop's event is in the queue only while Stop waits for a thread that    *)
(* has not ended.  Once a thread was lost, a thread is there only with the *)
(* event of a Stop that came too late for that one.                        *)
UserEvent ==
  cw # None =>
    IF failed
    THEN w[cw].worker \in Alive => Has(w[cw].q, "user")
    ELSE /\ Has(w[cw].q, "user") => ctl \in {"joining", "dead"} /\ w[cw].worker \in Alive
         /\ w[cw].worker = "exited" => ctl \in {"joining", "dead"}
         /\ w[cw].started => w[cw].worker # "none"

(* A file that differs from what was read last has its event in the queue, *)
(* or the callback is about to read it.                                    *)
SeenFollows ==
  cw # None /\ ~missed /\ seen # Unreadable =>
    \/ seen = file
    \/ Has(w[cw].q, "vnode")
    \/ w[cw].worker \in {"called", "reading"} /\ ~w[cw].stale

(* What was read last is in force or being installed. *)
LoggerSeen ==
  Accepts(seen) => logger = seen \/ \E s \in Slots : w[s].worker = "installing" /\ ~w[s].stale

(* The file's pause is cleared only by Start(), whose thread is there from *)
(* then on until Stop pauses again.                                        *)
Disables(c) == c.yaml /\ c.enabled = "false"
DisabledPauses ==
  /\ Disables(seen) /\ ~paused =>
       forced /\ ctl # "remain" /\ (ctl = "pause" \/ (cw # None /\ w[cw].worker # "none"))
  /\ ctl \in {"watch", "nofile", "joinold"} => ~forced
  /\ ctl = "remain" => w[cw].worker # "none"

FInv == TypeOK /\ ConfSeen /\ StaleLoads /\ UserEvent /\ SeenFollows /\ LoggerSeen /\ DisabledPauses

LEMMA AppendTwo ==
  ASSUME NEW a \in Events, NEW b \in Events
  PROVE  Append(<<a>>, b) = <<a, b>>
<1>1. <<a>> \in Seq(Events) /\ Len(<<a>>) = 1 /\ <<a, b>> \in Seq(Events) /\ Len(<<a, b>>) = 2
  OBVIOUS
<1>2. Append(<<a>>, b) \in Seq(Events) /\ Len(Append(<<a>>, b)) = 2
  BY <1>1
<1>3. Append(<<a>>, b)[1] = a /\ Append(<<a>>, b)[2] = b
  BY <1>1
<1>4. ASSUME NEW i \in 1..2 PROVE Append(<<a>>, b)[i] = <<a, b>>[i]
  <2>1. i = 1 \/ i = 2 OBVIOUS
  <2> QED BY <1>3, <2>1
<1> QED BY <1>1, <1>2, <1>4, SeqEqual

LEMMA TailOne ==
  ASSUME NEW a \in Events
  PROVE  Tail(<<a>>) = <<>> /\ Head(<<a>>) = a
<1>1. <<a>> \in Seq(Events) /\ Len(<<a>>) = 1 OBVIOUS
<1>2. Tail(<<a>>) \in Seq(Events) /\ Len(Tail(<<a>>)) = 0 BY <1>1
<1> QED BY <1>1, <1>2

(* A kqueue holds an event once. *)
LEMMA ActivateFacts ==
  ASSUME NEW q \in Queue, NEW ev \in Events
  PROVE  /\ Activate(q, ev) \in Queue
         /\ \A e \in Events : Has(Activate(q, ev), e) <=> Has(q, e) \/ e = ev
<1>1. CASE Has(q, ev)
  BY <1>1 DEF Activate, Has
<1>2. CASE ~Has(q, ev)
  <2>1. Activate(q, ev) = Append(q, ev)
    BY <1>2 DEF Activate, Has
  <2>2. CASE q = <<>>
    <3>1. Append(q, ev) = <<ev>> BY <2>2
    <3> QED BY <2>1, <2>2, <3>1 DEF Has, Queue, Events
  <2>3. CASE q = <<"vnode">>
    <3>1. ev = "user" BY <1>2, <2>3 DEF Has, Events
    <3>2. Append(q, ev) = <<"vnode", "user">> BY <2>3, <3>1, AppendTwo DEF Events
    <3> QED BY <2>1, <2>3, <3>1, <3>2 DEF Has, Queue, Events
  <2>4. CASE q = <<"user">>
    <3>1. ev = "vnode" BY <1>2, <2>4 DEF Has, Events
    <3>2. Append(q, ev) = <<"user", "vnode">> BY <2>4, <3>1, AppendTwo DEF Events
    <3> QED BY <2>1, <2>4, <3>1, <3>2 DEF Has, Queue, Events
  <2>5. CASE q = <<"vnode", "user">> \/ q = <<"user", "vnode">>
    BY <1>2, <2>5 DEF Has, Events
  <2> QED BY <2>2, <2>3, <2>4, <2>5 DEF Queue
<1> QED BY <1>1, <1>2

(* An event that is retrieved is in the queue no more, the other stays. *)
LEMMA TailFacts ==
  ASSUME NEW q \in Queue, q # <<>>
  PROVE  /\ Tail(q) \in Queue /\ Head(q) \in Events
         /\ \A e \in Events : Has(Tail(q), e) <=> Has(q, e) /\ e # Head(q)
<1>1. ASSUME NEW a \in Events, q = <<a>>
      PROVE  /\ Tail(q) \in Queue /\ Head(q) \in Events
             /\ \A e \in Events : Has(Tail(q), e) <=> Has(q, e) /\ e # Head(q)
  <2>1. Tail(q) = <<>> /\ Head(q) = a BY <1>1, TailOne
  <2> QED BY <1>1, <2>1 DEF Has, Queue
<1>2. CASE q = <<"vnode", "user">>
  <2>1. Tail(q) = <<"user">> /\ Head(q) = "vnode" BY <1>2
  <2> QED BY <1>2, <2>1 DEF Has, Queue, Events
<1>3. CASE q = <<"user", "vnode">>
  <2>1. Tail(q) = <<"vnode">> /\ Head(q) = "user" BY <1>3
  <2> QED BY <1>3, <2>1 DEF Has, Queue, Events
<1> QED BY <1>1, <1>2, <1>3 DEF Queue, Events

(* The constants among the contents. *)
LEMMA ContentFacts ==
  /\ ~Accepts(NoLogger) /\ ~Accepts(Unreadable) /\ ~Unreadable.yaml
  /\ NoWatcher \in Watcher /\ NoWatcher.worker = "none" /\ ~NoWatcher.stale
  /\ ~NoWatcher.started /\ \A e : ~Has(NoWatcher.q, e)
BY DEF Accepts, NoLogger, Unreadable, NoWatcher, Watcher, Has

LEMMA InitFInv == Init => FInv
<1> SUFFICES ASSUME Init PROVE FInv OBVIOUS
<1>1. w \in [Slots -> Watcher] /\ \A s \in Slots : w[s] = NoWatcher
  BY ContentFacts DEF Init
<1>2. TypeOK
  BY <1>1 DEF Init, TypeOK, None
<1>3. seen = Unreadable /\ cw = None /\ ctl = "idle" BY DEF Init
<1> QED
  BY <1>1, <1>2, <1>3, ContentFacts
     DEF FInv, ConfSeen, StaleLoads, UserEvent, SeenFollows, LoggerSeen, DisabledPauses, Disables, InManager

(* The fields of a watcher, with the queue as one set. *)
WatcherFields == [started : BOOLEAN, q : Queue, worker : Workers,
                  conf : Contents \cup {NoLogger}, stale : BOOLEAN]
LEMMA WatcherIs == Watcher = WatcherFields
BY DEF Watcher, WatcherFields, Queue, Workers

LEMMA TypeFacts ==
  ASSUME TypeOK
  PROVE  /\ w \in [Slots -> WatcherFields] /\ \A s \in Slots : w[s].q \in Queue
         /\ seen \in Content /\ file \in Content /\ file \in Contents
         /\ cw # None => cw \in Slots
<1>1. w \in [Slots -> WatcherFields] BY WatcherIs DEF TypeOK
<1>2. \A s \in Slots : w[s].q \in Queue BY <1>1 DEF WatcherFields
<1>3. Unreadable \in Content BY DEF Unreadable, Content
<1> QED BY <1>1, <1>2, <1>3, LogSystemAssumption DEF TypeOK

(* A write puts its event into the queue of the watcher. *)
LEMMA WriteFollows ==
  ASSUME IInv, FInv, NEW c \in Contents, Write(c)
  PROVE  FInv'
<1>1. w \in [Slots -> WatcherFields] /\ \A s \in Slots : w[s].q \in Queue
  BY TypeFacts DEF FInv
<1>2. "vnode" \in Events /\ "user" \in Events BY DEF Events
<1>3. \A s \in Slots : Activate(w[s].q, "vnode") \in Queue
  BY <1>1, <1>2, ActivateFacts
<1>4. /\ file' = c
      /\ UNCHANGED <<lm, logger, paused, cw, ctl, op, seen, missed, down, failed, forced, refused>>
      /\ w' = [s \in Slots |-> IF s = cw \/ w[s].worker # "none"
                               THEN [w[s] EXCEPT !.q = Activate(w[s].q, "vnode")] ELSE w[s]]
  BY DEF Write, mgrVars, histVars
<1>5. \A s \in Slots :
        /\ w'[s] \in WatcherFields
        /\ w'[s].worker = w[s].worker /\ w'[s].started = w[s].started
        /\ w'[s].conf = w[s].conf /\ w'[s].stale = w[s].stale
        /\ w'[s].q \in {w[s].q, Activate(w[s].q, "vnode")}
        /\ s = cw => w'[s].q = Activate(w[s].q, "vnode")
  BY <1>1, <1>3, <1>4 DEF WatcherFields
<1>6. \A s \in Slots : Has(w'[s].q, "user") <=> Has(w[s].q, "user")
  BY <1>1, <1>2, <1>5, ActivateFacts
<1>7. cw \in Slots => Has(w'[cw].q, "vnode")
  BY <1>1, <1>2, <1>5, ActivateFacts
<1>8. TypeOK'
  <2>1. w' \in [Slots -> WatcherFields] BY <1>4, <1>5
  <2> QED BY <1>4, <2>1, WatcherIs DEF FInv, TypeOK
<1>9. cw # None => cw \in Slots BY TypeFacts DEF FInv
<1>10. ConfSeen' /\ StaleLoads' BY <1>4, <1>5 DEF FInv, ConfSeen, StaleLoads, InManager
<1>11. UserEvent' BY <1>4, <1>5, <1>6, <1>9 DEF FInv, UserEvent
<1>12. SeenFollows' BY <1>4, <1>7, <1>9 DEF SeenFollows
<1>13. LoggerSeen' BY <1>4, <1>5 DEF FInv, LoggerSeen
<1>14. DisabledPauses' BY <1>4, <1>5, <1>9 DEF IInv, CallHasWatcher, FInv, DisabledPauses
<1> QED BY <1>8, <1>10, <1>11, <1>12, <1>13, <1>14 DEF FInv

(* A new manager has read the file; a thread that is loading is cut off. *)
LEMMA NewManagerFollows ==
  ASSUME IInv, FInv, NEW o \in {"Init", "StartPath"}, NEW good \in BOOLEAN, NewManager(o, good)
  PROVE  FInv'
<1> DEFINE c == IF good THEN file ELSE Unreadable
<1>1. w \in [Slots -> WatcherFields] /\ file \in Contents
  BY TypeFacts DEF FInv
<1>2. /\ lm' = TRUE /\ seen' = c /\ op' = o /\ down' = FALSE /\ forced' = FALSE /\ refused' = FALSE
      /\ logger' = IF Accepts(c) THEN c ELSE NoLogger
      /\ paused' = PausedBy(c, FALSE)
      /\ ctl' \in {"watch", "nofile"} /\ UNCHANGED <<file, cw, missed, failed>>
      /\ w' = [s \in Slots |-> [w[s] EXCEPT !.stale = w[s].stale \/ InManager(s)]]
  BY DEF NewManager
<1>3. \A s \in Slots :
        /\ w'[s] \in WatcherFields
        /\ w'[s].worker = w[s].worker /\ w'[s].started = w[s].started
        /\ w'[s].conf = w[s].conf /\ w'[s].q = w[s].q
        /\ w'[s].stale = (w[s].stale \/ InManager(s))
  <2> TAKE s \in Slots
  <2>1. (w[s].stale \/ InManager(s)) \in BOOLEAN OBVIOUS
  <2> QED BY <1>1, <1>2, <2>1 DEF WatcherFields
<1>4. c \in Contents \cup {Unreadable} /\ (Accepts(c) => c = file)
  BY <1>1, ContentFacts
<1>5. paused' \in BOOLEAN /\ (c.yaml /\ c.enabled = "false" => paused')
  BY <1>2 DEF PausedBy
<1>6. TypeOK'
  <2>1. w' \in [Slots -> WatcherFields] BY <1>2, <1>3
  <2>2. logger' \in {d \in Contents : Accepts(d)} \cup {NoLogger} BY <1>1, <1>2, <1>4
  <2> QED BY <1>1, <1>2, <1>4, <1>5, <2>1, <2>2, WatcherIs DEF FInv, TypeOK
<1>7. ConfSeen' /\ StaleLoads'
  BY <1>2, <1>3 DEF FInv, ConfSeen, StaleLoads, InManager
<1>8. UserEvent'
  <2>1. ctl = "idle" BY DEF NewManager
  <2>2. cw # None => cw \in Slots BY TypeFacts DEF FInv
  <2> QED BY <1>2, <1>3, <2>1, <2>2 DEF FInv, UserEvent
<1>9. SeenFollows' BY <1>2 DEF SeenFollows
<1>10. LoggerSeen' BY <1>2 DEF LoggerSeen
<1>11. DisabledPauses' BY <1>2, <1>5 DEF DisabledPauses, Disables
<1> QED BY <1>6, <1>7, <1>8, <1>9, <1>10, <1>11 DEF FInv

(* What is left when the watchers were reset but for the one being joined. *)
LEMMA NewWatcherFollows ==
  ASSUME IInv, FInv, NewWatcher
  PROVE  FInv'
<1> USE DEF Slots, None
<1> DEFINE s == IF cw = 0 THEN 1 ELSE 0
<1>1. w \in [Slots -> WatcherFields] /\ \A x \in Slots : w[x].q \in Queue
  BY TypeFacts DEF FInv
<1>2. /\ ctl = "watch" /\ cw' = s /\ missed' = (seen # file) /\ failed' = FALSE
      /\ UNCHANGED <<file, lm, logger, paused, op, seen, down, forced, refused>>
  BY DEF NewWatcher, mgrVars
<1>3. s \in Slots BY DEF Slots
<1>4. NoWatcher \in WatcherFields BY ContentFacts, WatcherIs
<1>5. CASE cw # None /\ w[cw].started
  <2>1. cw \in Slots /\ cw # s BY <1>5 DEF FInv, TypeOK
  <2>2. w' = [w EXCEPT ![s] = NoWatcher, ![cw] = Stopped(w[cw])] /\ ctl' = "joinold"
    BY <1>5 DEF NewWatcher
  <2>3. Activate(w[cw].q, "user") \in Queue
    BY <1>1, <2>1, ActivateFacts DEF Events
  <2>4. /\ Stopped(w[cw]) \in WatcherFields /\ Stopped(w[cw]).worker = w[cw].worker
        /\ Stopped(w[cw]).conf = w[cw].conf /\ Stopped(w[cw]).stale = w[cw].stale
    BY <1>1, <2>1, <2>3 DEF Stopped, WatcherFields
  <2>5. w'[s] = NoWatcher /\ w'[cw] = Stopped(w[cw]) /\ w' \in [Slots -> WatcherFields]
    BY <1>1, <1>3, <1>4, <2>1, <2>2, <2>4
  <2>6. \A x \in Slots : x = s \/ x = cw BY <2>1
  <2>7. w[s].worker = "none" BY <1>2, <1>3, <2>1 DEF IInv, OneThread
  <2> HIDE DEF s
  <2>8. TypeOK' BY <1>2, <1>3, <2>2, <2>5, WatcherIs DEF FInv, TypeOK
  <2>9. ConfSeen' /\ StaleLoads'
    BY <1>2, <2>1, <2>2, <2>4, <2>5, <2>6, ContentFacts DEF FInv, ConfSeen, StaleLoads, InManager
  <2>10. UserEvent' /\ SeenFollows'
    BY <1>2, <2>5, ContentFacts DEF UserEvent, SeenFollows
  <2>11. LoggerSeen'
    BY <1>2, <2>1, <2>4, <2>5, <2>6, <2>7 DEF FInv, LoggerSeen
  <2>12. DisabledPauses' BY <1>2, <2>2 DEF FInv, DisabledPauses
  <2> QED BY <2>8, <2>9, <2>10, <2>11, <2>12 DEF FInv
<1>6. CASE ~(cw # None /\ w[cw].started)
  <2>1. w' = [x \in Slots |-> NoWatcher] /\ ctl' = AfterWatcher
    BY <1>6 DEF NewWatcher
  <2>2. \A x \in Slots : w[x].worker = "none"
    BY <1>2, <1>6 DEF FInv, TypeOK, IInv, OneThread, NotStartedNoThread
  <2>3. \A x \in Slots : w'[x] = NoWatcher BY <2>1
  <2>4. ctl' \in {"pause", "launch"} BY <2>1 DEF AfterWatcher
  <2> HIDE DEF s
  <2>5. TypeOK'
    <3>1. w' \in [Slots -> Watcher] BY <2>1, ContentFacts
    <3>2. cw' \in Slots \cup {None} /\ missed' \in BOOLEAN /\ failed' \in BOOLEAN BY <1>2, <1>3
    <3> HIDE DEF Slots, None
    <3> QED BY <1>2, <2>4, <3>1, <3>2 DEF FInv, TypeOK
  <2>6. ConfSeen' /\ StaleLoads' BY <2>3, ContentFacts DEF ConfSeen, StaleLoads
  <2>7. UserEvent' /\ SeenFollows'
    BY <1>2, <1>3, <2>3, ContentFacts DEF UserEvent, SeenFollows
  <2>8. LoggerSeen' /\ DisabledPauses'
    BY <1>2, <2>2, <2>4 DEF FInv, LoggerSeen, DisabledPauses
  <2> QED BY <2>5, <2>6, <2>7, <2>8 DEF FInv
<1> QED BY <1>5, <1>6

(* The steps of a call that leave the watchers as they are. *)
LEMMA CallsFollow ==
  ASSUME IInv, FInv, NoWatch \/ Start \/ Remain \/ Pause
  PROVE  FInv'
<1>1. w' = w /\ cw' = cw /\ file' = file /\ seen' = seen /\ logger' = logger
      /\ missed' = missed /\ failed' = failed
  BY DEF NoWatch, Start, Remain, Pause, mgrVars, histVars
<1>2. TypeOK'
  <2>1. paused' \in BOOLEAN /\ forced' \in BOOLEAN /\ down' \in BOOLEAN /\ refused' \in BOOLEAN
    BY DEF FInv, TypeOK, NoWatch, Start, Remain, Pause, mgrVars, histVars
  <2>2. lm' = lm /\ ctl' \in {"idle", "launch"} /\ op' \in {op, "Start"}
    BY DEF NoWatch, Start, Remain, Pause, mgrVars
  <2> QED BY <1>1, <2>1, <2>2 DEF FInv, TypeOK
<1>3. ConfSeen' /\ SeenFollows' /\ LoggerSeen'
  BY <1>1 DEF FInv, ConfSeen, SeenFollows, LoggerSeen
<1>4. /\ ctl \notin {"joining", "dead"} /\ ctl' \notin {"watch", "nofile", "joinold", "dead"}
      /\ \/ refused' = refused /\ ctl \notin {"watch", "nofile", "joinold"}
         \/ refused' = TRUE
  BY DEF NoWatch, Start, Remain, Pause, histVars
<1>5. UserEvent' BY <1>1, <1>4 DEF FInv, UserEvent
<1>6. StaleLoads' BY <1>1, <1>4 DEF FInv, StaleLoads, InManager
<1>7. DisabledPauses'
  <2>1. CASE NoWatch \/ Start
    BY <1>1, <2>1 DEF FInv, DisabledPauses, NoWatch, Start, mgrVars, histVars
  <2>2. CASE Remain
    <3>1. ctl = "remain" /\ ctl' = "idle" /\ forced' = paused BY <2>2 DEF Remain
    <3>2. cw # None /\ w[cw].worker # "none"
      BY <3>1 DEF FInv, DisabledPauses, IInv, CallHasWatcher, Slots, None
    <3> QED BY <1>1, <3>1, <3>2 DEF FInv, DisabledPauses
  <2>3. CASE Pause
    BY <1>1, <2>3 DEF DisabledPauses, Pause
  <2> QED BY <2>1, <2>2, <2>3
<1> QED BY <1>2, <1>3, <1>5, <1>6, <1>7 DEF FInv

(* A step that changes one watcher, x being its new contents, and neither  *)
(* what is known of the file nor the manager.                              *)
SameKnowledge ==
  /\ UNCHANGED <<file, lm, logger, paused, cw, seen, missed, forced, refused>>
  /\ failed' \in BOOLEAN

LEMMA OneWatcher ==
  ASSUME FInv, SameKnowledge, NEW s \in Slots, NEW x \in WatcherFields,
         w' = [w EXCEPT ![s] = x],
         x.worker = "installing" => w[s].worker = "installing" /\ x.conf = w[s].conf,
         w[s].worker = "installing" => x.worker = "installing",
         x.stale = w[s].stale, x.stale => x.worker = w[s].worker,
         Has(w[s].q, "vnode") => Has(x.q, "vnode"),
         w[s].worker \in {"called", "reading"} => x.worker = w[s].worker,
         down' \in BOOLEAN, op' \in {"none", "Init", "StartPath", "Start", "Stop"},
         ctl' \in {"idle", "launch", "remain", "joining", "pause"},
         ctl \notin {"watch", "nofile", "joinold", "dead"}
  PROVE  TypeOK' /\ ConfSeen' /\ StaleLoads' /\ SeenFollows' /\ LoggerSeen'
<1>1. w \in [Slots -> WatcherFields] BY TypeFacts DEF FInv
<1>2. w' \in [Slots -> WatcherFields] /\ w'[s] = x /\ \A y \in Slots : y # s => w'[y] = w[y]
  BY <1>1
<1>3. TypeOK' BY <1>2, WatcherIs DEF FInv, TypeOK, SameKnowledge
<1>4. ConfSeen' BY <1>2 DEF FInv, ConfSeen, SameKnowledge
<1>5. StaleLoads' BY <1>2 DEF FInv, StaleLoads, InManager, SameKnowledge
<1>6. SeenFollows'
  <2>1. cw # None => cw \in Slots BY TypeFacts DEF FInv
  <2> QED BY <1>2, <2>1 DEF FInv, SeenFollows, SameKnowledge
<1>7. LoggerSeen'
  <2>1. \A y \in Slots : w[y].worker = "installing" /\ ~w[y].stale =>
                         w'[y].worker = "installing" /\ ~w'[y].stale
    BY <1>2
  <2> QED BY <2>1 DEF FInv, LoggerSeen, SameKnowledge
<1> QED BY <1>3, <1>4, <1>5, <1>6, <1>7

(* The steps of Start and Stop at the watcher.  Stop sends its event to a  *)
(* thread that has not ended; joined, the thread has taken it.             *)
LEMMA LaunchFollows ==
  ASSUME IInv, FInv, Launch
  PROVE  FInv'
<1>0. cw \in Slots /\ ctl = "launch" BY DEF Launch, IInv, CallHasWatcher
<1>1. w \in [Slots -> WatcherFields] /\ ctl = "launch" BY TypeFacts DEF FInv, Launch
<1>2. /\ SameKnowledge /\ down' = FALSE /\ op' = op
      /\ failed' = (failed /\ Has(w[cw].q, "user"))
  BY DEF Launch, SameKnowledge, mgrVars, Pending, Has
<1>3. CASE w[cw].worker = "none"
  <2> DEFINE x == [w[cw] EXCEPT !.started = TRUE, !.worker = "waiting"]
  <2>1. w' = [w EXCEPT ![cw] = x] /\ ctl' \in {"remain", "idle"}
    BY <1>0, <1>1, <1>3 DEF Launch
  <2>2. /\ x \in WatcherFields /\ x.worker = "waiting" /\ x.q = w[cw].q /\ x.stale = w[cw].stale
    BY <1>0, <1>1 DEF WatcherFields, Workers
  <2>3. ~w[cw].stale BY <1>0, <1>3 DEF FInv, StaleLoads, InManager
  <2> HIDE DEF x
  <2>4. w'[cw] = x BY <1>0, <1>1, <2>1
  <2>5. TypeOK' /\ ConfSeen' /\ StaleLoads' /\ SeenFollows' /\ LoggerSeen'
    <3>1. op' \in {"none", "Init", "StartPath", "Start", "Stop"} BY <1>2 DEF FInv, TypeOK
    <3> QED BY <1>0, <1>2, <1>3, <2>1, <2>2, <2>3, <3>1, OneWatcher
  <2>6. UserEvent'
    BY <1>0, <1>2, <2>2, <2>4 DEF FInv, UserEvent, SameKnowledge
  <2>7. DisabledPauses'
    BY <1>0, <1>2, <1>3, <2>1, <2>2, <2>4 DEF FInv, DisabledPauses, SameKnowledge
  <2> QED BY <2>5, <2>6, <2>7 DEF FInv
<1>4. CASE w[cw].worker # "none"
  <2>1. w' = w /\ ctl' = "dead" BY <1>4 DEF Launch
  <2>2. TypeOK'
    <3>1. TypeOK BY DEF FInv
    <3>2. /\ file' = file /\ lm' = lm /\ logger' = logger /\ paused' = paused /\ cw' = cw
          /\ seen' = seen /\ missed' = missed /\ failed' \in BOOLEAN /\ forced' = forced
          /\ refused' = refused
      BY <1>2 DEF SameKnowledge
    <3>3. w' \in [Slots -> Watcher] BY <2>1, <3>1 DEF TypeOK
    <3> QED BY <1>2, <2>1, <3>1, <3>2, <3>3 DEF TypeOK
  <2>3. UserEvent' BY <1>0, <1>2, <1>4, <2>1, TypeFacts DEF FInv, UserEvent, SameKnowledge, Alive, Workers, WatcherFields
  <2>4. DisabledPauses' BY <1>0, <1>2, <2>1 DEF FInv, DisabledPauses, SameKnowledge
  <2>5. ConfSeen' /\ StaleLoads' /\ SeenFollows' /\ LoggerSeen'
    BY <1>2, <2>1 DEF FInv, ConfSeen, StaleLoads, InManager, SeenFollows, LoggerSeen, SameKnowledge
  <2> QED BY <2>2, <2>3, <2>4, <2>5 DEF FInv
<1> QED BY <1>3, <1>4

LEMMA LaunchFailsFollows ==
  ASSUME IInv, FInv, LaunchFails
  PROVE  FInv'
<1>0. cw \in Slots /\ ctl = "launch" /\ ctl' = "idle" BY DEF LaunchFails, IInv, CallHasWatcher
<1>1. w \in [Slots -> WatcherFields] BY TypeFacts DEF FInv
<1>2. /\ SameKnowledge /\ down' = down /\ op' = op
      /\ failed' = (failed \/ w[cw].worker = "none")
  BY DEF LaunchFails, SameKnowledge, mgrVars
<1> DEFINE x == [w[cw] EXCEPT !.started = TRUE]
<1>3. w' = [w EXCEPT ![cw] = x] BY DEF LaunchFails
<1>4. /\ x \in WatcherFields /\ x.worker = w[cw].worker /\ x.q = w[cw].q
      /\ x.conf = w[cw].conf /\ x.stale = w[cw].stale
  BY <1>0, <1>1 DEF WatcherFields
<1> HIDE DEF x
<1>5. w'[cw] = x BY <1>0, <1>1, <1>3
<1>6. TypeOK' /\ ConfSeen' /\ StaleLoads' /\ SeenFollows' /\ LoggerSeen'
  <2>1. down' \in BOOLEAN /\ op' \in {"none", "Init", "StartPath", "Start", "Stop"}
    BY <1>2 DEF FInv, TypeOK
  <2> QED BY <1>0, <1>2, <1>3, <1>4, <2>1, OneWatcher
<1>7. UserEvent' BY <1>0, <1>2, <1>4, <1>5 DEF FInv, UserEvent, SameKnowledge, Alive
<1>8. DisabledPauses' BY <1>0, <1>2, <1>4, <1>5 DEF FInv, DisabledPauses, SameKnowledge
<1> QED BY <1>6, <1>7, <1>8 DEF FInv

LEMMA StopFollows ==
  ASSUME IInv, FInv, Stop
  PROVE  FInv'
<1>0. cw \in Slots /\ cw # None /\ ctl = "idle" BY TypeFacts DEF Stop, FInv
<1>1. w \in [Slots -> WatcherFields] /\ w[cw].q \in Queue BY <1>0, TypeFacts DEF FInv
<1>2. SameKnowledge /\ failed' = failed /\ down' = down /\ op' = "Stop"
  BY DEF Stop, SameKnowledge, FInv, TypeOK, mgrVars, histVars
<1> DEFINE x == Stopped(w[cw])
<1>3. w' = [w EXCEPT ![cw] = x] /\ ctl' = IF w[cw].started THEN "joining" ELSE "pause"
  BY DEF Stop
<1>4. Activate(w[cw].q, "user") \in Queue /\ (Has(w[cw].q, "vnode") => Has(Activate(w[cw].q, "user"), "vnode"))
  BY <1>1, ActivateFacts DEF Events
<1>5. /\ x \in WatcherFields /\ x.worker = w[cw].worker
      /\ x.conf = w[cw].conf /\ x.stale = w[cw].stale
      /\ Has(w[cw].q, "vnode") => Has(x.q, "vnode")
      /\ ~w[cw].started => x = w[cw]
  BY <1>0, <1>1, <1>4 DEF Stopped, WatcherFields
<1> HIDE DEF x
<1>6. w'[cw] = x BY <1>0, <1>1, <1>3
<1>7. TypeOK' /\ ConfSeen' /\ StaleLoads' /\ SeenFollows' /\ LoggerSeen'
  <2>1. down' \in BOOLEAN /\ op' \in {"none", "Init", "StartPath", "Start", "Stop"}
        /\ ctl' \in {"idle", "launch", "remain", "joining", "pause"}
    BY <1>2, <1>3 DEF FInv, TypeOK
  <2> QED BY <1>0, <1>2, <1>3, <1>5, <2>1, OneWatcher
<1>8. UserEvent'
  <2>1. CASE w[cw].started
    <3>1. w[cw].worker \in Workers /\ (~failed => w[cw].worker # "none") /\ Has(x.q, "user") /\ ~x.started
      <4>1. Has(Activate(w[cw].q, "user"), "user")
        BY <1>1, ActivateFacts DEF Events
      <4> QED BY <1>0, <1>1, <2>1, <4>1 DEF WatcherFields, FInv, UserEvent, Stopped, x
    <3> QED BY <1>0, <1>2, <1>3, <1>5, <1>6, <2>1, <3>1
            DEF FInv, UserEvent, SameKnowledge, Alive, Workers
  <2>2. CASE ~w[cw].started
    BY <1>0, <1>2, <1>5, <1>6, <2>2 DEF FInv, UserEvent, SameKnowledge
  <2> QED BY <2>1, <2>2
<1>9. DisabledPauses'
  BY <1>0, <1>2, <1>3, <1>5, <1>6 DEF FInv, DisabledPauses, SameKnowledge
<1> QED BY <1>7, <1>8, <1>9 DEF FInv

LEMMA JoinFollows ==
  ASSUME IInv, FInv, Join
  PROVE  FInv'
<1>0. /\ cw \in Slots /\ cw # None /\ ctl = "joining" /\ ctl' = "pause"
      /\ w[cw].worker \in {"none", "exited"} /\ ~w[cw].started
  BY DEF Join, IInv, CallHasWatcher, JoiningStopped, Slots, None
<1>1. w \in [Slots -> WatcherFields] BY TypeFacts DEF FInv
<1>2. SameKnowledge /\ failed' = failed /\ down' = down /\ op' = op
  BY DEF Join, SameKnowledge, FInv, TypeOK, mgrVars, histVars
<1> DEFINE x == [w[cw] EXCEPT !.worker = "none"]
<1>3. w' = [w EXCEPT ![cw] = x] BY DEF Join
<1>4. /\ x \in WatcherFields /\ x.worker = "none" /\ x.q = w[cw].q /\ x.stale = w[cw].stale
      /\ x.started = w[cw].started
  BY <1>0, <1>1 DEF WatcherFields, Workers
<1>5. ~w[cw].stale BY <1>0 DEF FInv, StaleLoads, InManager
<1> HIDE DEF x
<1>6. w'[cw] = x BY <1>0, <1>1, <1>3
<1>7. TypeOK' /\ ConfSeen' /\ StaleLoads' /\ SeenFollows' /\ LoggerSeen'
  <2>1. down' \in BOOLEAN /\ op' \in {"none", "Init", "StartPath", "Start", "Stop"}
    BY <1>2 DEF FInv, TypeOK
  <2> QED BY <1>0, <1>2, <1>3, <1>4, <1>5, <2>1, OneWatcher
<1>8. UserEvent' BY <1>0, <1>2, <1>4, <1>6 DEF FInv, UserEvent, SameKnowledge, Alive
<1>9. DisabledPauses' BY <1>0, <1>2 DEF FInv, DisabledPauses, SameKnowledge
<1> QED BY <1>7, <1>8, <1>9 DEF FInv

(* The old watcher is joined: what it knew of the file is of no account. *)
LEMMA JoinOldFollows ==
  ASSUME IInv, FInv, JoinOld
  PROVE  FInv'
<1> DEFINE old == 1 - cw
<1>0. /\ cw \in Slots /\ cw # None /\ ctl = "joinold" /\ w[cw].worker = "none"
      /\ ctl' = AfterWatcher /\ w[old].worker \in {"none", "exited"}
  BY DEF JoinOld, IInv, OneThread, Slots, None
<1>1. old \in Slots /\ old # cw /\ \A s \in Slots : s = cw \/ s = old BY <1>0 DEF Slots
<1> HIDE DEF old
<1>2. w \in [Slots -> WatcherFields] /\ NoWatcher \in WatcherFields
  BY TypeFacts, ContentFacts, WatcherIs DEF FInv
<1>3. w' = [w EXCEPT ![old] = NoWatcher] /\ SameKnowledge /\ failed' = failed /\ down' = down /\ op' = op
  BY DEF JoinOld, SameKnowledge, FInv, TypeOK, mgrVars, histVars, old
<1>4. w' \in [Slots -> WatcherFields] /\ w'[old] = NoWatcher /\ w'[cw] = w[cw]
  BY <1>0, <1>1, <1>2, <1>3
<1>5. ctl' \in {"pause", "launch"} BY <1>0 DEF AfterWatcher
<1>6. TypeOK' BY <1>3, <1>4, <1>5, WatcherIs DEF FInv, TypeOK, SameKnowledge
<1>7. ConfSeen' /\ StaleLoads'
  BY <1>0, <1>1, <1>3, <1>4, ContentFacts DEF FInv, ConfSeen, StaleLoads, InManager, SameKnowledge
<1>8. UserEvent' BY <1>0, <1>3, <1>4 DEF FInv, UserEvent, SameKnowledge, Alive
<1>9. SeenFollows' BY <1>3, <1>4 DEF FInv, SeenFollows, SameKnowledge
<1>10. LoggerSeen' BY <1>0, <1>1, <1>3 DEF FInv, LoggerSeen, SameKnowledge
<1>11. DisabledPauses' BY <1>0, <1>3, <1>5 DEF FInv, DisabledPauses, SameKnowledge
<1> QED BY <1>6, <1>7, <1>8, <1>9, <1>10, <1>11 DEF FInv

(* There is one thread: that of cw_, or of the watcher being replaced. *)
LEMMA OnlyThread ==
  ASSUME IInv, ctl # "dead", NEW s \in Slots, w[s].worker # "none"
  PROVE  /\ \A y \in Slots : y # s => w[y].worker = "none"
         /\ cw \in Slots /\ cw # None /\ ctl # "pause"
         /\ cw # s => ctl = "joinold"
<1>1. CASE ctl = "joinold"
  <2>1. cw \in Slots /\ w[cw].worker = "none" BY <1>1 DEF IInv, OneThread
  <2> QED BY <1>1, <2>1 DEF Slots, None
<1>2. CASE ctl # "joinold"
  <2>1. s = cw /\ ctl # "pause" BY <1>2 DEF IInv, OneThread, PauseLast, NoThread
  <2> QED BY <1>2, <2>1 DEF IInv, OneThread, Slots, None
<1> QED BY <1>1, <1>2

(* A thread's step keeps the thread, and the pause of the file with it. *)
LEMMA ThreadKeepsPause ==
  ASSUME IInv, FInv, ctl # "dead", NEW s \in Slots, w[s].worker # "none",
         NEW x, w' = [w EXCEPT ![s] = x], x.worker # "none",
         UNCHANGED <<cw, seen, paused, forced>>, ctl' = ctl
  PROVE  DisabledPauses'
<1>1. w \in [Slots -> WatcherFields] BY TypeFacts DEF FInv
<1>2. w'[s] = x /\ \A y \in Slots : y # s => w'[y] = w[y] BY <1>1
<1>3. cw \in Slots BY OnlyThread
<1> QED BY <1>2, <1>3 DEF FInv, DisabledPauses

(* The callback begins with what its event announced. *)
LEMMA EventFollows ==
  ASSUME IInv, FInv, ctl # "dead", NEW s \in Slots, Vnode(s) \/ PathFails(s) \/ User(s) \/ KeventFails(s)
  PROVE  FInv'
<1>0. w \in [Slots -> WatcherFields] /\ w[s].q \in Queue BY TypeFacts DEF FInv
<1>1. w[s].worker = "waiting" /\ ~w[s].stale
  BY DEF Vnode, PathFails, User, KeventFails, FInv, StaleLoads, InManager
<1>2. /\ \A y \in Slots : y # s => w[y].worker = "none"
      /\ cw \in Slots /\ cw # None /\ (cw # s => ctl = "joinold")
  BY <1>1, OnlyThread
<1>3. UNCHANGED <<file, lm, logger, paused, cw, ctl, op, seen, down, forced, refused>>
  BY DEF Vnode, PathFails, User, KeventFails, mgrVars, histVars
<1>4. ASSUME NEW x \in WatcherFields, w' = [w EXCEPT ![s] = x], x.worker \in {"waiting", "called", "reading", "exited"},
             ~x.stale, missed' \in BOOLEAN, failed' \in BOOLEAN
      PROVE  /\ TypeOK' /\ ConfSeen' /\ StaleLoads' /\ LoggerSeen' /\ DisabledPauses'
             /\ w'[s] = x /\ \A y \in Slots : y # s => w'[y] = w[y]
  <2>1. w'[s] = x /\ (\A y \in Slots : y # s => w'[y] = w[y]) /\ w' \in [Slots -> WatcherFields]
    BY <1>0, <1>4
  <2>2. TypeOK' BY <1>3, <1>4, <2>1, WatcherIs DEF FInv, TypeOK
  <2>3. ConfSeen' BY <1>3, <1>4, <2>1 DEF FInv, ConfSeen
  <2>4. StaleLoads' BY <1>3, <1>4, <2>1 DEF FInv, StaleLoads, InManager
  <2>5. LoggerSeen' BY <1>1, <1>2, <1>3 DEF FInv, LoggerSeen
  <2>6. DisabledPauses' BY <1>1, <1>3, <1>4, ThreadKeepsPause
  <2> QED BY <2>1, <2>2, <2>3, <2>4, <2>5, <2>6
<1>5. CASE Vnode(s)
  <2> DEFINE x == [w[s] EXCEPT !.q = Tail(w[s].q), !.worker = "called"]
  <2>1. /\ w' = [w EXCEPT ![s] = x] /\ w[s].q # <<>> /\ Head(w[s].q) = "vnode"
        /\ UNCHANGED <<missed, failed>>
    BY <1>5 DEF Vnode, histVars
  <2>2. Tail(w[s].q) \in Queue /\ (Has(Tail(w[s].q), "user") <=> Has(w[s].q, "user"))
    BY <1>0, <2>1, TailFacts DEF Events
  <2>3. x \in WatcherFields /\ x.worker = "called" /\ x.stale = w[s].stale /\ x.q = Tail(w[s].q)
    BY <1>0, <2>2 DEF WatcherFields, Workers
  <2> HIDE DEF x
  <2>4. missed' \in BOOLEAN /\ failed' \in BOOLEAN BY <2>1 DEF FInv, TypeOK
  <2>5. /\ TypeOK' /\ ConfSeen' /\ StaleLoads' /\ LoggerSeen' /\ DisabledPauses'
        /\ w'[s] = x /\ \A y \in Slots : y # s => w'[y] = w[y]
    BY <1>1, <1>4, <2>1, <2>3, <2>4
  <2>6. UserEvent' BY <1>1, <1>2, <1>3, <2>1, <2>2, <2>3, <2>5 DEF FInv, UserEvent, Alive
  <2>7. SeenFollows' BY <1>1, <1>2, <1>3, <2>1, <2>3, <2>5 DEF FInv, SeenFollows
  <2> QED BY <2>5, <2>6, <2>7 DEF FInv
<1>6. CASE PathFails(s)
  <2> DEFINE x == [w[s] EXCEPT !.q = Tail(w[s].q)]
  <2>1. /\ w' = [w EXCEPT ![s] = x] /\ w[s].q # <<>> /\ Head(w[s].q) = "vnode"
        /\ missed' = (missed \/ s = cw) /\ failed' = failed
    BY <1>6 DEF PathFails
  <2>2. Tail(w[s].q) \in Queue /\ (Has(Tail(w[s].q), "user") <=> Has(w[s].q, "user"))
    BY <1>0, <2>1, TailFacts DEF Events
  <2>3. x \in WatcherFields /\ x.worker = "waiting" /\ x.stale = w[s].stale /\ x.q = Tail(w[s].q)
    BY <1>0, <1>1, <2>2 DEF WatcherFields
  <2> HIDE DEF x
  <2>4. missed' \in BOOLEAN /\ failed' \in BOOLEAN BY <2>1 DEF FInv, TypeOK
  <2>5. /\ TypeOK' /\ ConfSeen' /\ StaleLoads' /\ LoggerSeen' /\ DisabledPauses'
        /\ w'[s] = x /\ \A y \in Slots : y # s => w'[y] = w[y]
    BY <1>1, <1>4, <2>1, <2>3, <2>4
  <2>6. UserEvent' BY <1>1, <1>2, <1>3, <2>1, <2>2, <2>3, <2>5 DEF FInv, UserEvent, Alive
  <2>7. SeenFollows' BY <1>2, <1>3, <2>1, <2>3, <2>5 DEF FInv, SeenFollows
  <2> QED BY <2>5, <2>6, <2>7 DEF FInv
<1>7. CASE User(s)
  <2> DEFINE x == [w[s] EXCEPT !.q = Tail(w[s].q), !.worker = "exited"]
  <2>1. /\ w' = [w EXCEPT ![s] = x] /\ w[s].q # <<>> /\ Head(w[s].q) = "user"
        /\ UNCHANGED <<missed, failed>>
    BY <1>7 DEF User, histVars
  <2>2. /\ Tail(w[s].q) \in Queue /\ ~Has(Tail(w[s].q), "user") /\ Has(w[s].q, "user")
        /\ Has(Tail(w[s].q), "vnode") <=> Has(w[s].q, "vnode")
    <3>1. /\ Tail(w[s].q) \in Queue /\ ~Has(Tail(w[s].q), "user")
          /\ Has(Tail(w[s].q), "vnode") <=> Has(w[s].q, "vnode")
      BY <1>0, <2>1, TailFacts DEF Events
    <3>2. Has(w[s].q, "user")
      BY <1>0, <2>1 DEF Has, Queue
    <3> QED BY <3>1, <3>2
  <2>3. x \in WatcherFields /\ x.worker = "exited" /\ x.stale = w[s].stale /\ x.q = Tail(w[s].q)
    BY <1>0, <2>2 DEF WatcherFields, Workers
  <2> HIDE DEF x
  <2>4. missed' \in BOOLEAN /\ failed' \in BOOLEAN BY <2>1 DEF FInv, TypeOK
  <2>5. /\ TypeOK' /\ ConfSeen' /\ StaleLoads' /\ LoggerSeen' /\ DisabledPauses'
        /\ w'[s] = x /\ \A y \in Slots : y # s => w'[y] = w[y]
    BY <1>1, <1>4, <2>1, <2>3, <2>4
  <2>6. UserEvent' BY <1>2, <1>3, <2>1, <2>2, <2>3, <2>5 DEF FInv, UserEvent, Alive
  <2>7. SeenFollows' BY <1>1, <1>2, <1>3, <2>1, <2>2, <2>3, <2>5 DEF FInv, SeenFollows
  <2> QED BY <2>5, <2>6, <2>7 DEF FInv
<1>8. CASE KeventFails(s)
  <2> DEFINE x == [w[s] EXCEPT !.worker = "exited"]
  <2>1. w' = [w EXCEPT ![s] = x] /\ missed' = missed /\ failed' = (failed \/ s = cw)
    BY <1>8 DEF KeventFails
  <2>2. x \in WatcherFields /\ x.worker = "exited" /\ x.stale = w[s].stale /\ x.q = w[s].q
    BY <1>0 DEF WatcherFields, Workers
  <2> HIDE DEF x
  <2>3. missed' \in BOOLEAN /\ failed' \in BOOLEAN BY <2>1 DEF FInv, TypeOK
  <2>4. /\ TypeOK' /\ ConfSeen' /\ StaleLoads' /\ LoggerSeen' /\ DisabledPauses'
        /\ w'[s] = x /\ \A y \in Slots : y # s => w'[y] = w[y]
    BY <1>1, <1>4, <2>1, <2>2, <2>3
  <2>5. UserEvent' BY <1>2, <1>3, <2>1, <2>2, <2>4 DEF FInv, UserEvent, Alive
  <2>6. SeenFollows' BY <1>1, <1>2, <1>3, <2>1, <2>2, <2>4 DEF FInv, SeenFollows
  <2> QED BY <2>4, <2>5, <2>6 DEF FInv
<1> QED BY <1>5, <1>6, <1>7, <1>8

(* The callback reads the file as it is now, which settles every event     *)
(* that came before.                                                       *)
LEMMA ReadFollows ==
  ASSUME IInv, FInv, ctl # "dead", NEW s \in Slots, Read(s)
  PROVE  FInv'
<1>0. w \in [Slots -> WatcherFields] /\ file \in Contents BY TypeFacts DEF FInv
<1>1. w[s].worker = "reading" /\ ~w[s].stale BY DEF Read
<1>2. /\ \A y \in Slots : y # s => w[y].worker = "none"
      /\ cw \in Slots /\ cw # None /\ (cw # s => ctl = "joinold")
  BY <1>1, OnlyThread
<1> DEFINE x == [w[s] EXCEPT !.worker = IF Accepts(file) THEN "installing" ELSE "waiting",
                             !.conf = IF Accepts(file) THEN file ELSE NoLogger]
<1>3. /\ UNCHANGED <<file, lm, logger, cw, ctl, op, down, failed, refused>>
      /\ seen' = file /\ missed' = FALSE /\ forced' = FALSE /\ paused' = PausedBy(file, paused)
      /\ w' = [w EXCEPT ![s] = x]
  BY DEF Read
<1>4. /\ x \in WatcherFields /\ x.q = w[s].q /\ x.stale = w[s].stale
      /\ Accepts(file) => x.worker = "installing" /\ x.conf = file
      /\ ~Accepts(file) => x.worker = "waiting"
  BY <1>0 DEF WatcherFields, Workers
<1> HIDE DEF x
<1>5. w'[s] = x /\ (\A y \in Slots : y # s => w'[y] = w[y]) /\ w' \in [Slots -> WatcherFields]
  BY <1>0, <1>3, <1>4
<1>6. paused' \in BOOLEAN /\ (Disables(file) => paused')
  BY <1>3 DEF FInv, TypeOK, PausedBy, Disables
<1>7. TypeOK'
  <2>1. w' \in [Slots -> Watcher] BY <1>5, WatcherIs
  <2>2. TypeOK BY DEF FInv
  <2> QED BY <1>3, <1>6, <2>1, <2>2 DEF TypeOK
<1>8. ConfSeen' BY <1>0, <1>2, <1>3, <1>4, <1>5 DEF ConfSeen
<1>9. StaleLoads' BY <1>1, <1>2, <1>3, <1>4, <1>5 DEF FInv, StaleLoads, InManager
<1>10. UserEvent'
  BY <1>1, <1>2, <1>3, <1>4, <1>5 DEF FInv, UserEvent, Alive
<1>11. SeenFollows' BY <1>3 DEF SeenFollows
<1>12. LoggerSeen' BY <1>1, <1>3, <1>4, <1>5 DEF LoggerSeen
<1>13. DisabledPauses'
  <2>1. x.worker # "none" BY <1>4
  <2> QED BY <1>2, <1>3, <1>5, <1>6, <2>1 DEF FInv, DisabledPauses
<1> QED BY <1>7, <1>8, <1>9, <1>10, <1>11, <1>12, <1>13 DEF FInv

(* The callback enters the manager that is there now. *)
LEMMA EnterFollows ==
  ASSUME IInv, FInv, ctl # "dead", NEW s \in Slots, Enter(s)
  PROVE  FInv'
<1>0. w \in [Slots -> WatcherFields] BY TypeFacts DEF FInv
<1>1. w[s].worker = "called" /\ ~w[s].stale BY DEF Enter, FInv, StaleLoads, InManager
<1>2. /\ \A y \in Slots : y # s => w[y].worker = "none"
      /\ cw \in Slots /\ cw # None /\ (cw # s => ctl = "joinold")
  BY <1>1, OnlyThread
<1> DEFINE x == [w[s] EXCEPT !.worker = "reading"]
<1>3. /\ UNCHANGED <<file, lm, logger, paused, cw, ctl, op, seen, missed, down, failed, forced, refused>>
      /\ w' = [w EXCEPT ![s] = x]
  BY DEF Enter, mgrVars, histVars
<1>4. x \in WatcherFields /\ x.worker = "reading" /\ x.q = w[s].q /\ x.stale = w[s].stale /\ x.started = w[s].started
  BY <1>0 DEF WatcherFields, Workers
<1> HIDE DEF x
<1>5. w'[s] = x /\ (\A y \in Slots : y # s => w'[y] = w[y]) /\ w' \in [Slots -> WatcherFields]
  BY <1>0, <1>3, <1>4
<1>6. TypeOK' BY <1>3, <1>5, WatcherIs DEF FInv, TypeOK
<1>7. ConfSeen' /\ StaleLoads' BY <1>1, <1>3, <1>4, <1>5 DEF FInv, ConfSeen, StaleLoads, InManager
<1>8. UserEvent' BY <1>1, <1>2, <1>3, <1>4, <1>5 DEF FInv, UserEvent, Alive
<1>9. SeenFollows' BY <1>1, <1>2, <1>3, <1>4, <1>5 DEF FInv, SeenFollows
<1>10. LoggerSeen' BY <1>1, <1>3, <1>4, <1>5 DEF FInv, LoggerSeen
<1>11. DisabledPauses' BY <1>1, <1>3, <1>4, ThreadKeepsPause
<1> QED BY <1>6, <1>7, <1>8, <1>9, <1>10, <1>11 DEF FInv

(* The callback ends: the logger is in force, or went to a freed manager. *)
LEMMA LoadFollows ==
  ASSUME IInv, FInv, ctl # "dead", NEW s \in Slots, Install(s) \/ LoadFreed(s)
  PROVE  FInv'
<1>0. w \in [Slots -> WatcherFields] BY TypeFacts DEF FInv
<1>1. w[s].worker \in {"reading", "installing"} BY DEF Install, LoadFreed, InManager
<1>2. /\ \A y \in Slots : y # s => w[y].worker = "none"
      /\ cw \in Slots /\ cw # None /\ (cw # s => ctl = "joinold")
  BY <1>1, OnlyThread
<1>3. UNCHANGED <<file, lm, paused, cw, op, seen, missed, down, failed, forced, refused>>
  BY DEF Install, LoadFreed, mgrVars, histVars
<1>4. CASE w' = w /\ ctl' = "dead" /\ logger' = logger
  BY <1>0, <1>1, <1>2, <1>3, <1>4
     DEF FInv, TypeOK, ConfSeen, StaleLoads, InManager, UserEvent, SeenFollows, LoggerSeen, DisabledPauses
<1>5. ASSUME ctl' = ctl,
             NEW x \in WatcherFields, w' = [w EXCEPT ![s] = x], x.worker = "waiting", ~x.stale, x.q = w[s].q,
             logger' \in {c \in Contents : Accepts(c)} \cup {NoLogger},
             Accepts(seen) => logger' = seen,
             w[s].worker = "reading" => w[s].stale
      PROVE  FInv'
  <2>1. w'[s] = x /\ (\A y \in Slots : y # s => w'[y] = w[y]) /\ w' \in [Slots -> WatcherFields]
    BY <1>0, <1>5
  <2>2. TypeOK' BY <1>3, <1>5, <2>1, WatcherIs DEF FInv, TypeOK
  <2>3. ConfSeen' BY <1>3, <1>5, <2>1 DEF FInv, ConfSeen
  <2>4. StaleLoads' BY <1>3, <1>5, <2>1 DEF FInv, StaleLoads, InManager
  <2>5. UserEvent' BY <1>1, <1>2, <1>3, <1>5, <2>1 DEF FInv, UserEvent, Alive
  <2>6. SeenFollows' BY <1>1, <1>2, <1>3, <1>5, <2>1 DEF FInv, SeenFollows
  <2>7. LoggerSeen' BY <1>3, <1>5 DEF LoggerSeen
  <2>8. DisabledPauses' BY <1>1, <1>3, <1>5, ThreadKeepsPause
  <2> QED BY <2>2, <2>3, <2>4, <2>5, <2>6, <2>7, <2>8 DEF FInv
<1>6. CASE Install(s)
  <2> DEFINE x == [w[s] EXCEPT !.worker = "waiting", !.conf = NoLogger]
  <2>1. /\ w[s].worker = "installing" /\ ~w[s].stale /\ logger' = w[s].conf /\ ctl' = ctl
        /\ w' = [w EXCEPT ![s] = x]
    BY <1>6 DEF Install
  <2>2. x \in WatcherFields /\ x.worker = "waiting" /\ x.stale = w[s].stale /\ x.q = w[s].q
    BY <1>0 DEF WatcherFields, Workers
  <2>3. logger' \in {c \in Contents : Accepts(c)} /\ logger' = seen
    BY <2>1 DEF FInv, ConfSeen
  <2> HIDE DEF x
  <2> QED BY <1>5, <2>1, <2>2, <2>3
<1>7. CASE LoadFreed(s) /\ ctl' = ctl
  <2> DEFINE x == [w[s] EXCEPT !.worker = "waiting", !.conf = NoLogger, !.stale = FALSE]
  <2>1. w[s].stale /\ logger' = logger /\ w' = [w EXCEPT ![s] = x]
    BY <1>7 DEF LoadFreed, mgrVars
  <2>2. x \in WatcherFields /\ x.worker = "waiting" /\ x.stale = FALSE /\ x.q = w[s].q
    BY <1>0 DEF WatcherFields, Workers
  <2>3. Accepts(seen) => logger' = seen
    BY <1>2, <2>1 DEF FInv, LoggerSeen
  <2>4. logger' \in {c \in Contents : Accepts(c)} \cup {NoLogger} BY <2>1 DEF FInv, TypeOK
  <2> HIDE DEF x
  <2> QED BY <1>5, <1>7, <2>1, <2>2, <2>3, <2>4
<1> QED BY <1>4, <1>6, <1>7 DEF LoadFreed, mgrVars

LEMMA NextFInv == IInv /\ FInv /\ [Next]_vars => FInv'
<1> SUFFICES ASSUME IInv, FInv, [Next]_vars PROVE FInv' OBVIOUS
<1>1. CASE UNCHANGED vars
  BY <1>1 DEF vars, mgrVars, histVars, FInv, TypeOK, ConfSeen, StaleLoads, InManager, UserEvent,
     SeenFollows, LoggerSeen, DisabledPauses
<1>2. ASSUME ctl # "dead", NEW s \in Slots, Run(s) \/ KeventFails(s) PROVE FInv'
  BY <1>2, EventFollows, EnterFollows, ReadFollows, LoadFollows DEF Run
<1>3. CASE Goes
  BY <1>3, CallsFollow, NewWatcherFollows, JoinOldFollows, LaunchFollows, JoinFollows DEF Goes
<1> QED BY <1>1, <1>2, <1>3, WriteFollows, NewManagerFollows, CallsFollow, StopFollows, LaunchFailsFollows DEF Next

LEMMA InvAlways == Spec => [](IInv /\ FInv)
BY InitIInv, NextIInv, InitFInv, NextFInv, PTL DEF Spec

-----------------------------------------------------------------------------
(* The variables keep their types, and a logger in force is always one     *)
(* that ParseLogConfig accepted.                                           *)
THEOREM TypeCorrect == Spec => []TypeOK
<1>1. FInv => TypeOK BY DEF FInv
<1> QED BY <1>1, InvAlways, PTL

(* No write of the file is lost: when the watcher is at rest, the logger   *)
(* in force is the one the file describes.                                 *)
THEOREM LoggerFollowsFileAlways == Spec => []LoggerFollowsFile
<1>1. IInv /\ FInv => LoggerFollowsFile
  <2> SUFFICES ASSUME IInv, FInv, ctl = "idle", cw # None, ~missed, ~Pending(cw, "vnode"), ~Loading(cw),
                      seen # Unreadable, Accepts(file)
               PROVE  logger = file
    BY DEF LoggerFollowsFile
  <2>1. seen = file BY DEF FInv, SeenFollows, Pending, Has, Loading, InManager
  <2>2. \A s \in Slots : w[s].worker # "installing"
    BY DEF IInv, OneThread, Loading, InManager
  <2> QED BY <2>1, <2>2 DEF FInv, LoggerSeen
<1> QED BY <1>1, InvAlways, PTL

(* A file that disables logging keeps it off through every reload and      *)
(* restart, unless Start() cleared its pause.                              *)
THEOREM DisabledIsSilentAlways == Spec => []DisabledIsSilent
<1>1. FInv => DisabledIsSilent
  <2> SUFFICES ASSUME FInv, ctl = "idle", cw # None, ~missed, ~Pending(cw, "vnode"), ~Loading(cw),
                      seen # Unreadable, file.yaml, file.enabled = "false", ~forced
               PROVE  Get = NoLogger
    BY DEF DisabledIsSilent
  <2>1. seen = file BY DEF FInv, SeenFollows, Pending, Has, Loading, InManager
  <2>2. paused BY <2>1 DEF FInv, DisabledPauses, Disables
  <2> QED BY <2>2 DEF Get
<1> QED BY <1>1, InvAlways, PTL

(* After a call that made its watcher, no thread is inside a freed         *)
(* manager.                                                                *)
THEOREM FreedOnlyDuringCallAlways == Spec => []FreedOnlyDuringCall
<1>1. FInv => FreedOnlyDuringCall BY DEF FInv, StaleLoads, FreedOnlyDuringCall
<1> QED BY <1>1, InvAlways, PTL

(* A started watcher has a living thread, and no event of an earlier Stop  *)
(* is left to end it, until kevent fails in the thread or the thread       *)
(* cannot be made; after that there is no thread, or one for which such an *)
(* event waits.                                                            *)
THEOREM WatcherAliveAlways == Spec => []WatcherAlive
<1>1. IInv /\ FInv => WatcherAlive
  <2> SUFFICES ASSUME IInv, FInv, ctl = "idle", cw # None, w[cw].started
               PROVE  IF failed
                      THEN w[cw].worker \in {"none", "exited"} \/ Pending(cw, "user")
                      ELSE w[cw].worker \notin {"none", "exited"} /\ ~Pending(cw, "user")
    BY DEF WatcherAlive
  <2>1. cw \in Slots /\ w[cw].worker \in Workers
    BY TypeFacts DEF FInv, WatcherFields
  <2> QED BY <2>1 DEF FInv, UserEvent, Pending, Has, Alive, Workers
<1> QED BY <1>1, InvAlways, PTL

(* From the end of Stop or Init until the next call LogSystem::Get hands   *)
(* out no logger, whatever reload the watcher's thread had under way.      *)
THEOREM StoppedIsSilentAlways == Spec => []StoppedIsSilent
<1>1. IInv => StoppedIsSilent
  BY DEF IInv, PauseLast, StoppedIsSilent, Get
<1> QED BY <1>1, InitIInv, NextIInv, PTL DEF Spec
=============================================================================
