------------------------- MODULE ConnectionMessages -------------------------
(* The words and requests of the connection models. *)
EXTENDS Sequences, TLC

MCLower == ("Host" :> "host") @@ ("GET" :> "get")
MCMethodNames == ("get" :> "GET")
MCJson == (<<"1">> :> 1) @@ (<<"1", "1">> :> 11) @@ (<<"{", "x", "}">> :> "{x}")
MCJsonHuge == {<<"9", "9">>}
MCHandled == {<<"GET", <<"/u">>>>}

HeadOf(path, host) ==
  <<"GET", "SP", path, "CR", "LF", host, ":", "CR", "LF", "CR", "LF">>

(* A head alone (11 units); with bodies that are an object, a number (12   *)
(* units: with a buffer of 4 its last read fills the buffer), a longer     *)
(* number that begins with it, and a number that is too large to parse.    *)
Plain == HeadOf("/u", "Host")
Object == Plain \o <<"{", "x", "}">>
Full == Plain \o <<"1">>
Number == Plain \o <<"1", "1">>
Huge == Plain \o <<"9", "9">>
Unrouted == HeadOf("/x", "Host")
NoHost == HeadOf("/u", "a")
AtLimit == Plain \o <<"1", "1", "1", "1", "1">>
TooLong == Plain \o <<"1", "1", "1", "1", "1", "1">>

Reqs == {Object, Full, Number, Huge, Unrouted, NoHost, AtLimit, TooLong}
OneReq == {Object}
LongReqs == {AtLimit, TooLong}
=============================================================================
