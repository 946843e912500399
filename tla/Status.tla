------------------------------- MODULE Status -------------------------------
(***************************************************************************)
(* The tables of common/status: which result codes there are, the HTTP     *)
(* status and the log level each stands for, and which levels a FileSink   *)
(* writes through at once.  The texts that go with them are left out.      *)
(***************************************************************************)
EXTENDS Integers

(* enum class http *)
unknown == 0
http ==
  (100..103) \cup (200..208) \cup {226} \cup (300..305) \cup {307, 308}
  \cup (400..418) \cup (421..426) \cup {428, 429, 431, 451}
  \cup (500..508) \cup {510, 511}

(* enum class retCode; only some are answers of the server itself. *)
Success == 20000
InvalidJsonOrParams == 40000
NotFound == 40400
RequestBufferOverflow == 41300
InternalError == 50000
retCode ==
  {Success, InternalError} \cup (40000..40002) \cup (40100..40103) \cup {40300}
  \cup {40400, 40401, 40500, 40600, 40800, 40900, 40901}
  \cup {41000, 41100, 41200, 41300, 41400, 41500, 41700}
  \cup (42200..42203) \cup {42900, 42901, 43100, 45100}
  \cup {50100, 50200, 50300, 50400, 50700}

int_to_status(v) == IF v \in http THEN v ELSE unknown

to_http_status(code) == int_to_status(code \div 100)

-----------------------------------------------------------------------------
(* enum class log *)
trace == 1
debug == 2
info == 3
warning == 4
error == 5
critical == 6
log == trace..critical

(* to_log of an http status and of a retCode: by the first digit. *)
LevelOfClass(d) ==
  CASE d \in 1..3 -> info
    [] d = 4 -> warning
    [] d = 5 -> error
    [] OTHER -> unknown
to_log_http(v) == LevelOfClass(v \div 100)
to_log_retCode(code) == LevelOfClass(code \div 10000)

(* The list of levels that can wait, with one too many. *)
Mutimportant_log(l) == l \notin {trace, debug, info, warning}

important_log(l) == l \notin {trace, debug, info}
=============================================================================
