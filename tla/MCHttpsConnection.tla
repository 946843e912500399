------------------------- MODULE MCHttpsConnection --------------------------
EXTENDS HttpsConnection, ConnectionMessages
=============================================================================
