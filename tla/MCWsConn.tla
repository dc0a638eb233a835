------------------------------ MODULE MCWsConn ------------------------------
EXTENDS WsConn
=============================================================================
