------------------------------ MODULE MCCodec -------------------------------
EXTENDS CodecRoundTrip, TLC

MCLower == ("Host" :> "host") @@ ("GET" :> "get") @@ ("X" :> "x")
MCMethodNames == ("get" :> "GET") @@ ("post" :> "POST")

(* An object, on one line or over several; one with a number that is too   *)
(* large for the parser.                                                   *)
MCJson == (<<"{", "}">> :> "{}") @@ (<<"{", CR, LF, "}">> :> "{}")
            @@ (<<"{", COLON, CR, LF, "}">> :> "{:}")
MCJsonHuge == {<<"{", COLON, "}">>}

MCTargets ==
  { [word |-> <<"GET">>,  method |-> "GET",   path |-> <<"/u">>, version |-> <<"v">>],
    [word |-> <<"post">>, method |-> "POST",  path |-> <<>>, version |-> <<"v", SP, "v">>],
    [word |-> <<"u", "u">>, method |-> Unknown, path |-> <<"/u">>, version |-> <<>>] }

MCFields ==
  { [line |-> <<"Host", COLON, SP, "a">>, colon |-> 2],
    [line |-> <<"host", COLON, "b", COLON>>, colon |-> 2],
    [line |-> <<"X", CR, COLON, SP>>, colon |-> 3],
    [line |-> <<"a">>, colon |-> 0],
    [line |-> <<COLON, "b">>, colon |-> 1] }

MCBodyUnits == {"{", COLON, CR, LF, "}"}
=============================================================================
