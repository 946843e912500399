-------------------------- MODULE MCHttpConnection --------------------------
EXTENDS HttpConnection, ConnectionMessages

AnyStack == {<<"NUL", "NUL", "NUL", "NUL">>, <<"?", "?", "?", "?">>}
AnyBeyond == {<<>>, <<"?">>}
ZeroStack == {<<"NUL", "NUL", "NUL", "NUL">>}
NothingBeyond == {<<>>}
=============================================================================
