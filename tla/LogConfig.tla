----------------------------- MODULE LogConfig ------------------------------
(***************************************************************************)
(* What ParseLogConfig (logging_manager.cc) makes of the level and the     *)
(* sinks of a configuration.  A sink is described by how far its entry is  *)
(* well formed, in the order in which CreateSink and the create functions  *)
(* of the sinks look at it.                                                *)
(***************************************************************************)
EXTENDS Sequences

(* shape: a map with one key whose value is a map with a scalar 'enabled'; *)
(* name, format: of the sinks and formats there are; opens: there is a     *)
(* path and the file can be opened (a console needs none).                 *)
SinkEntry == [shape : BOOLEAN, enabled : {"true", "false", "notbool"},
              name : {"console", "file", "other"},
              format : {"console", "json", "other", "missing"}, opens : BOOLEAN]

(* FormatIs returns no format *)
NoFormat(format) == format \notin {"console", "json"}

(* ConsoleSink::create and FileSink::create *)
CreateConsole(e) == IF NoFormat(e.format) THEN "null" ELSE "sink"
CreateFile(e) == IF NoFormat(e.format) \/ ~e.opens THEN "null" ELSE "sink"

(* CreateSink: a sink, no sink, or an exception of as<bool>. *)
CreateSink(e) ==
  CASE ~e.shape -> "null"
    [] e.shape /\ e.enabled = "notbool" -> "throws"
    [] e.shape /\ e.enabled = "false" -> "null"
    [] OTHER -> CASE e.name = "console" -> CreateConsole(e)
                  [] e.name = "file" -> CreateFile(e)
                  [] OTHER -> "null"

(* The names to_log knows a level by. *)
LevelNames == {"trace", "debug", "info", "warning", "error", "critical"}

(* level and sinks as ParseLogConfig finds them: an entry that yields no   *)
(* sink is left out, also when none remains.                               *)
Rest(level, sinks) ==
  IF level \notin LevelNames THEN "bad"
  ELSE IF \E i \in DOMAIN sinks : CreateSink(sinks[i]) = "throws" THEN "throws" ELSE "good"
=============================================================================
