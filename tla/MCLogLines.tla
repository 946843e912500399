----------------------------- MODULE MCLogLines -----------------------------
(* One result code that is logged at info and one at warning.  A stricter  *)
(* level only takes lines away, so one level that lets both pass gives     *)
(* every behaviour of the file and the buffers.                            *)
EXTENDS LogLines, TLC

MCCodes == {Success, InvalidJsonOrParams}
MCLevels == {info}
Symmetry == Permutations(Children)
=============================================================================
