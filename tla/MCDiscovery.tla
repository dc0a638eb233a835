---------------------------- MODULE MCDiscovery ----------------------------
EXTENDS Discovery

CONSTANTS s1, s2

FirstThenSecond == <<s1, s2>>
=============================================================================
