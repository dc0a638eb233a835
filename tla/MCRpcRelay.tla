----------------------------- MODULE MCRpcRelay -----------------------------
EXTENDS RpcRelay
=============================================================================
