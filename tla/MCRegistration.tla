--------------------------- MODULE MCRegistration ---------------------------
EXTENDS Registration, TLC

CONSTANTS s1, s2

AnyService == Permutations(Services)
=============================================================================
