---------------------------- MODULE MCLogSystem -----------------------------
(* Two configurations that are accepted, one of them without a sink that   *)
(* can be made; one that disables logging; one that enables it and is then *)
(* rejected for its level; and two on which parsing throws, one of them    *)
(* after it enabled logging.                                               *)
EXTENDS LogSystem, LogConfig

Console == [shape |-> TRUE, enabled |-> "true", name |-> "console", format |-> "console", opens |-> TRUE]
NoFile == [Console EXCEPT !.name = "file", !.format = "json", !.opens = FALSE]
NoBool == [Console EXCEPT !.enabled = "notbool"]

Conf(enabled, level, sinks) == [yaml |-> TRUE, enabled |-> enabled, rest |-> Rest(level, sinks)]

MCContents ==
  {Conf("true", "trace", <<Console>>),
   Conf("absent", "error", <<NoFile>>),
   Conf("false", "trace", <<Console>>),
   Conf("true", "loud", <<Console>>),
   Conf("notbool", "trace", <<Console>>),
   Conf("true", "trace", <<Console, NoBool>>)}
=============================================================================
