----------------------------- MODULE LogSystem ------------------------------
(***************************************************************************)
(* LogSystem (logging_system.cc) with the LogManager it owns               *)
(* (logging_manager.cc) and the ConfigWatcher thread that reloads the      *)
(* configuration when its file is written (config/impl/macos.cc).          *)
(*                                                                         *)
(* The callers of Init, Start and Stop are serialised by LogSystem::mtx_,  *)
(* so that one control point, ctl, stands for the call under way.  The     *)
(* watcher's thread takes no lock: its steps fall between those of a call. *)
(* Replacing cw_ builds the new watcher before it destroys the old one;    *)
(* two slots hold the two.                                                 *)
(***************************************************************************)
EXTENDS Integers, Sequences

CONSTANTS Contents      \* what the configuration file may hold

(* yaml: it can be read and has a map 'logging'; enabled: that key; rest:  *)
(* what becomes of the level and the sinks.                                *)
Content == [yaml : BOOLEAN,
            enabled : {"absent", "true", "false", "notbool"},
            rest : {"good", "bad", "throws"}]

ASSUME LogSystemAssumption == Contents \subseteq Content

Slots == {0, 1}
None == 2
Unreadable == [yaml |-> FALSE, enabled |-> "absent", rest |-> "bad"]
NoLogger == [yaml |-> FALSE, enabled |-> "absent", rest |-> "throws"]
NoWatcher == [started |-> FALSE, q |-> <<>>, worker |-> "none", conf |-> NoLogger, stale |-> FALSE]

VARIABLES file,         \* what the configuration file holds
          lm,           \* lm_ # nullptr
          logger,       \* lm_->logger_, named by the content it was made from
          paused,       \* lm_->paused_
          cw,           \* the slot of *cw_, or None
          w,            \* the watchers: started_, the kqueue, the thread
          ctl, op,      \* where the call under way is, and which it is
          seen, missed, \* history: what lm_ read last, and whether the file was
                        \* written between that and the watcher's registration,
                        \* or its event dropped
          down,         \* history: Init or Stop ended last
          failed,       \* history: the watcher lost its thread, kevent failed or
                        \* it could not be made; over when one starts with no
                        \* event of an earlier Stop left for it
          forced,       \* history: Start() cleared the pause after the last read
          refused       \* history: the last call that made a manager made no watcher

mgrVars == <<lm, logger, paused>>
histVars == <<seen, missed, down, failed, forced, refused>>
vars == <<file, mgrVars, cw, w, ctl, op, histVars>>

Init ==
  /\ file \in Contents
  /\ lm = FALSE /\ logger = NoLogger /\ paused = FALSE
  /\ cw = None /\ w = [s \in Slots |-> NoWatcher]
  /\ ctl = "idle" /\ op = "none"
  /\ seen = Unreadable /\ missed = FALSE /\ down = FALSE /\ failed = FALSE
  /\ forced = FALSE /\ refused = FALSE

-----------------------------------------------------------------------------
(* A parser that takes enabled: false for a reason to keep the old logger. *)
MutPausedBy(c, p) == IF c.yaml /\ c.enabled = "true" THEN FALSE ELSE p

(* ParseLogConfig: it throws on a boolean that is none, sets or clears the *)
(* pause on 'enabled' as it goes, and may still reject the rest.           *)
Throws(c) == c.yaml /\ (\/ c.enabled = "notbool"
                        \/ c.enabled # "false" /\ c.rest = "throws")
Accepts(c) == c.yaml /\ c.enabled \in {"absent", "true"} /\ c.rest = "good"
PausedBy(c, p) ==
  IF ~c.yaml THEN p ELSE CASE c.enabled = "false" -> TRUE
                           [] c.enabled = "true" -> FALSE
                           [] OTHER -> p

(* LogSystem::Get *)
Get == IF lm /\ ~paused THEN logger ELSE NoLogger

(* A kqueue holds an event once until it is retrieved. *)
Activate(q, ev) == IF \E i \in DOMAIN q : q[i] = ev THEN q ELSE Append(q, ev)
Pending(s, ev) == \E i \in DOMAIN w[s].q : w[s].q[i] = ev

(* The thread of watcher s is in its callback; lm_ is dereferenced when     *)
(* the callback is entered, and from then on the thread is in that manager. *)
InManager(s) == w[s].worker \in {"reading", "installing"}
Loading(s) == w[s].worker = "called" \/ InManager(s)

(* The file is written in place; every registered watcher is notified. *)
Write(c) ==
  /\ c # file
  /\ file' = c
  /\ w' = [s \in Slots |-> IF s = cw \/ w[s].worker # "none"
                           THEN [w[s] EXCEPT !.q = Activate(@, "vnode")] ELSE w[s]]
  /\ UNCHANGED <<mgrVars, cw, ctl, op, histVars>>

-----------------------------------------------------------------------------
(* The calls. *)

(* Init(path) and Start(path) first make a manager, which reads the file   *)
(* at path; good says whether that is the file, or none.  A thread that is *)
(* in the old manager is left with a freed one.  If the constructor throws *)
(* the call returns and nothing has changed.                               *)
NewManager(o, good) ==
  LET c == IF good THEN file ELSE Unreadable IN
  /\ ctl = "idle" /\ ~Throws(c)
  /\ lm' = TRUE /\ seen' = c
  /\ logger' = IF Accepts(c) THEN c ELSE NoLogger
  /\ paused' = PausedBy(c, FALSE)
  /\ w' = [s \in Slots |-> [w[s] EXCEPT !.stale = @ \/ InManager(s)]]
  /\ op' = o /\ down' = FALSE /\ forced' = FALSE /\ refused' = FALSE
  /\ ctl' = IF good THEN "watch" ELSE "nofile"
  /\ UNCHANGED <<file, cw, missed, failed>>

(* ConfigWatcherImpl's constructor throws, for want of the file or of a    *)
(* descriptor: the call returns false, with the new manager and the old    *)
(* watcher.                                                                *)
NoWatch ==
  /\ ctl \in {"nofile", "watch"} /\ ctl' = "idle"
  /\ refused' = TRUE
  /\ UNCHANGED <<file, mgrVars, cw, w, op, seen, missed, down, failed, forced>>

AfterWatcher == IF op = "Init" THEN "pause" ELSE "launch"

(* A Stop that wakes a thread whether or not there is one to wake. *)
MutStopped(x) == [x EXCEPT !.started = FALSE, !.q = Activate(@, "user")]

(* ConfigWatcherImpl::Stop up to the join. *)
Stopped(x) == IF x.started THEN [x EXCEPT !.started = FALSE, !.q = Activate(@, "user")] ELSE x

(* A replacement that stops the old watcher and does not wait for it. *)
MutNewWatcher ==
  LET s == IF cw = 0 THEN 1 ELSE 0 IN
  /\ ctl = "watch"
  /\ cw' = s /\ missed' = (seen # file) /\ failed' = FALSE
  /\ w' = IF cw # None /\ w[cw].started
          THEN [w EXCEPT ![s] = NoWatcher, ![cw] = Stopped(@)] ELSE [x \in Slots |-> NoWatcher]
  /\ ctl' = AfterWatcher
  /\ UNCHANGED <<file, mgrVars, op, seen, down, forced, refused>>

(* Then a watcher, registered with the file, takes the place of the old    *)
(* one, whose destructor stops it.                                         *)
NewWatcher ==
  LET s == IF cw = 0 THEN 1 ELSE 0 IN
  /\ ctl = "watch"
  /\ cw' = s
  /\ missed' = (seen # file)
  /\ failed' = FALSE
  /\ IF cw # None /\ w[cw].started
     THEN /\ w' = [w EXCEPT ![s] = NoWatcher, ![cw] = Stopped(@)]
          /\ ctl' = "joinold"
     ELSE /\ w' = [x \in Slots |-> NoWatcher]
          /\ ctl' = AfterWatcher
  /\ UNCHANGED <<file, mgrVars, op, seen, down, forced, refused>>

JoinOld ==
  LET old == 1 - cw IN
  /\ ctl = "joinold" /\ w[old].worker \in {"none", "exited"}
  /\ w' = [w EXCEPT ![old] = NoWatcher]
  /\ ctl' = AfterWatcher
  /\ UNCHANGED <<file, mgrVars, cw, op, histVars>>

(* Start(): without a manager and a watcher it returns false. *)
Start ==
  /\ ctl = "idle" /\ lm /\ cw # None
  /\ op' = "Start" /\ ctl' = "launch"
  /\ UNCHANGED <<file, mgrVars, cw, w, histVars>>

(* ConfigWatcherImpl::Start.  Assigning to a std::thread that is joinable  *)
(* terminates the program.                                                 *)
Launch ==
  /\ ctl = "launch"
  /\ down' = FALSE
  /\ failed' = (failed /\ Pending(cw, "user"))
  /\ IF w[cw].worker = "none"
     THEN /\ w' = [w EXCEPT ![cw].started = TRUE, ![cw].worker = "waiting"]
          /\ ctl' = IF op = "Start" THEN "remain" ELSE "idle"
     ELSE ctl' = "dead" /\ w' = w
  /\ UNCHANGED <<file, mgrVars, cw, op, seen, missed, forced, refused>>

(* std::thread's constructor throws, when started_ is set already; nobody  *)
(* catches it in LogSystem::Start, which ends there.  A thread the watcher *)
(* had before is still there.                                              *)
LaunchFails ==
  /\ ctl = "launch" /\ ctl' = "idle"
  /\ w' = [w EXCEPT ![cw].started = TRUE]
  /\ failed' = (failed \/ w[cw].worker = "none")
  /\ UNCHANGED <<file, mgrVars, cw, op, seen, missed, down, forced, refused>>

(* Start() then clears a pause, whoever set it. *)
Remain ==
  /\ ctl = "remain" /\ paused' = FALSE /\ ctl' = "idle"
  /\ forced' = paused
  /\ UNCHANGED <<file, lm, logger, cw, w, op, seen, missed, down, failed, refused>>

(* A Stop that pauses before it stops the watcher. *)
MutStop ==
  /\ ctl = "idle" /\ lm /\ cw # None
  /\ op' = "Stop"
  /\ w' = [w EXCEPT ![cw] = Stopped(@)]
  /\ paused' = TRUE /\ down' = TRUE
  /\ ctl' = IF w[cw].started THEN "joining" ELSE "idle"
  /\ UNCHANGED <<file, lm, logger, cw, seen, missed, failed, forced, refused>>

(* Stop(): the watcher is stopped and its thread joined, then the manager  *)
(* is paused.                                                              *)
Stop ==
  /\ ctl = "idle" /\ lm /\ cw # None
  /\ op' = "Stop"
  /\ w' = [w EXCEPT ![cw] = Stopped(@)]
  /\ ctl' = IF w[cw].started THEN "joining" ELSE "pause"
  /\ UNCHANGED <<file, mgrVars, cw, histVars>>

(* A thread that was never made is not joinable. *)
Join ==
  /\ ctl = "joining" /\ w[cw].worker \in {"none", "exited"}
  /\ w' = [w EXCEPT ![cw].worker = "none"]
  /\ ctl' = "pause"
  /\ UNCHANGED <<file, mgrVars, cw, op, histVars>>

Pause ==
  /\ ctl = "pause" /\ paused' = TRUE /\ down' = TRUE /\ ctl' = "idle"
  /\ UNCHANGED <<file, lm, logger, cw, w, op, seen, missed, failed, forced, refused>>

-----------------------------------------------------------------------------
(* ConfigWatcherImpl::Run in the thread of watcher s. *)

(* A file that is written is reported; the event is cleared when it is     *)
(* retrieved, before the callback reads the file.                          *)
Vnode(s) ==
  /\ w[s].worker = "waiting" /\ w[s].q # <<>> /\ Head(w[s].q) = "vnode"
  /\ w' = [w EXCEPT ![s].q = Tail(@), ![s].worker = "called"]
  /\ UNCHANGED <<file, mgrVars, cw, ctl, op, histVars>>

(* The callback calls Init of the manager lm_ points to now. *)
Enter(s) ==
  /\ w[s].worker = "called"
  /\ w' = [w EXCEPT ![s].worker = "reading"]
  /\ UNCHANGED <<file, mgrVars, cw, ctl, op, histVars>>

(* The path of the file cannot be resolved: the event is dropped. *)
PathFails(s) ==
  /\ w[s].worker = "waiting" /\ w[s].q # <<>> /\ Head(w[s].q) = "vnode"
  /\ w' = [w EXCEPT ![s].q = Tail(@)]
  /\ missed' = (missed \/ s = cw)
  /\ UNCHANGED <<file, mgrVars, cw, ctl, op, seen, down, failed, forced, refused>>

(* A callback that installs whatever it has read. *)
MutRead(s) ==
  /\ w[s].worker = "reading" /\ ~w[s].stale
  /\ seen' = file /\ missed' = FALSE /\ forced' = FALSE /\ paused' = PausedBy(file, paused)
  /\ w' = [w EXCEPT ![s].worker = "installing", ![s].conf = file]
  /\ UNCHANGED <<file, lm, logger, cw, ctl, op, down, failed, refused>>

(* A callback that takes the lock of LogSystem. *)
LockedRead(s) ==
  /\ w[s].worker = "reading" /\ ~w[s].stale /\ ctl = "idle"
  /\ seen' = file /\ missed' = FALSE /\ forced' = FALSE /\ paused' = PausedBy(file, paused)
  /\ w' = [w EXCEPT ![s].worker = "waiting"]
  /\ UNCHANGED <<file, lm, logger, cw, ctl, op, down, failed, refused>>

(* LogManager::Init parses the file; unless it accepts it, it returns or   *)
(* throws, and Run waits again.                                            *)
Read(s) ==
  /\ w[s].worker = "reading" /\ ~w[s].stale
  /\ seen' = file /\ missed' = FALSE /\ forced' = FALSE
  /\ paused' = PausedBy(file, paused)
  /\ w' = [w EXCEPT ![s].worker = IF Accepts(file) THEN "installing" ELSE "waiting",
                    ![s].conf = IF Accepts(file) THEN file ELSE NoLogger]
  /\ UNCHANGED <<file, lm, logger, cw, ctl, op, down, failed, refused>>

(* A reload that takes the events of its own time for its own. *)
MutInstall(s) ==
  /\ w[s].worker = "installing" /\ ~w[s].stale
  /\ logger' = w[s].conf
  /\ w' = [w EXCEPT ![s].worker = "waiting", ![s].conf = NoLogger,
                    ![s].q = SelectSeq(@, LAMBDA ev : ev # "vnode")]
  /\ UNCHANGED <<file, lm, paused, cw, ctl, op, histVars>>

(* The new Logger takes the place of the old one. *)
Install(s) ==
  /\ w[s].worker = "installing" /\ ~w[s].stale
  /\ logger' = w[s].conf
  /\ w' = [w EXCEPT ![s].worker = "waiting", ![s].conf = NoLogger]
  /\ UNCHANGED <<file, lm, paused, cw, ctl, op, histVars>>

(* A load into a manager that was freed meanwhile is undefined: it may go  *)
(* nowhere or crash the program.                                           *)
LoadFreed(s) ==
  /\ InManager(s) /\ w[s].stale
  /\ \/ w' = [w EXCEPT ![s].worker = "waiting", ![s].conf = NoLogger, ![s].stale = FALSE] /\ ctl' = ctl
     \/ w' = w /\ ctl' = "dead"
  /\ UNCHANGED <<file, mgrVars, cw, op, histVars>>

(* The event Stop triggers ends the thread. *)
User(s) ==
  /\ w[s].worker = "waiting" /\ w[s].q # <<>> /\ Head(w[s].q) = "user"
  /\ w' = [w EXCEPT ![s].q = Tail(@), ![s].worker = "exited"]
  /\ UNCHANGED <<file, mgrVars, cw, ctl, op, histVars>>

(* kevent fails or reports an error: the thread returns. *)
KeventFails(s) ==
  /\ w[s].worker = "waiting"
  /\ w' = [w EXCEPT ![s].worker = "exited"]
  /\ failed' = (failed \/ s = cw)
  /\ UNCHANGED <<file, mgrVars, cw, ctl, op, seen, missed, down, forced, refused>>

Run(s) ==
  \/ Vnode(s) \/ PathFails(s) \/ User(s)
  \/ Enter(s) \/ Read(s) \/ Install(s) \/ LoadFreed(s)

Goes == NoWatch \/ NewWatcher \/ JoinOld \/ Launch \/ Remain \/ Join \/ Pause

Next ==
  /\ ctl # "dead"
  /\ \/ \E c \in Contents : Write(c)
     \/ \E o \in {"Init", "StartPath"}, good \in BOOLEAN : NewManager(o, good)
     \/ Start \/ Stop
     \/ Goes \/ LaunchFails
     \/ \E s \in Slots : Run(s) \/ KeventFails(s)

(* The watcher's thread and the thread of a call that has begun are        *)
(* scheduled; nobody has to call, and neither kevent nor std::thread need  *)
(* fail.                                                                   *)
Fairness == WF_vars(ctl # "dead" /\ Goes) /\ \A s \in Slots : WF_vars(ctl # "dead" /\ Run(s))

Spec == Init /\ [][Next]_vars /\ Fairness

-----------------------------------------------------------------------------
Watcher == [started : BOOLEAN,
            q : {<<>>, <<"vnode">>, <<"user">>, <<"vnode", "user">>, <<"user", "vnode">>},
            worker : {"none", "waiting", "called", "reading", "installing", "exited"},
            conf : Contents \cup {NoLogger},
            stale : BOOLEAN]

(* The variables of LogSystem, LogManager and ConfigWatcherImpl; a logger  *)
(* is always one that ParseLogConfig accepted.                             *)
TypeOK ==
  /\ file \in Contents /\ lm \in BOOLEAN /\ paused \in BOOLEAN
  /\ logger \in {c \in Contents : Accepts(c)} \cup {NoLogger}
  /\ cw \in Slots \cup {None} /\ w \in [Slots -> Watcher]
  /\ ctl \in {"idle", "nofile", "watch", "joinold", "launch", "remain", "joining", "pause", "dead"}
  /\ op \in {"none", "Init", "StartPath", "Start", "Stop"}
  /\ seen \in Contents \cup {Unreadable}
  /\ missed \in BOOLEAN /\ down \in BOOLEAN /\ failed \in BOOLEAN
  /\ forced \in BOOLEAN /\ refused \in BOOLEAN

(* From the end of Stop or Init until the next call logging is off: no     *)
(* reload that was under way in the watcher's thread turns it on again.    *)
StoppedIsSilent == down => Get = NoLogger

(* When the watcher has nothing to retrieve and is not in its callback,    *)
(* the logger in force is the one the file describes, if it describes one: *)
(* no write is lost, not even one made while the callback ran or while the *)
(* system was stopped.  The exceptions are a write between the first read  *)
(* of the file and the registration of the watcher, one whose path could   *)
(* not be resolved, and a call that was given a path where there is no     *)
(* file.                                                                   *)
LoggerFollowsFile ==
  (/\ ctl = "idle" /\ cw # None /\ ~missed /\ ~Pending(cw, "vnode") /\ ~Loading(cw)
   /\ seen # Unreadable /\ Accepts(file))
  => logger = file

(* Under the same condition a file that disables logging keeps it off,     *)
(* through every reload and restart, but for Start(), which clears the     *)
(* pause of the file along with that of Stop.                              *)
DisabledIsSilent ==
  (/\ ctl = "idle" /\ cw # None /\ ~missed /\ ~Pending(cw, "vnode") /\ ~Loading(cw)
   /\ seen # Unreadable /\ file.yaml /\ file.enabled = "false" /\ ~forced)
  => Get = NoLogger

(* Making a manager frees the old one under the thread of the old watcher; *)
(* but before the call returns that thread is joined, so afterwards none   *)
(* is left inside a freed manager.  A call that could not make a watcher   *)
(* is the exception: it leaves the old thread running.                     *)
FreedOnlyDuringCall ==
  ctl = "idle" /\ ~refused => \A s \in Slots : ~w[s].stale

(* A watcher that is started has a thread to reload the configuration, and *)
(* the event with which Stop ended an earlier one is not there to end it.  *)
(* That is so until kevent fails in the thread or the thread cannot be     *)
(* made, and then it is not so at all: the thread is gone, and the Start   *)
(* after a Stop does not bring it back, since the event meant for the lost *)
(* thread waits in the kqueue for the new one.  Only a new watcher, or a   *)
(* second Start where the first could not make a thread, ends that.        *)
WatcherAlive ==
  ctl = "idle" /\ cw # None /\ w[cw].started =>
    IF failed
    THEN w[cw].worker \in {"none", "exited"} \/ Pending(cw, "user")
    ELSE w[cw].worker \notin {"none", "exited"} /\ ~Pending(cw, "user")

(* Stop, and replacing the watcher, wait for a thread while they hold the  *)
(* lock; that thread always ends, however often the file is written.       *)
StopReturns == ctl \in {"joining", "joinold"} ~> ctl \in {"idle", "dead"}
=============================================================================
