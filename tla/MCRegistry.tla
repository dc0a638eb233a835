----------------------------- MODULE MCRegistry -----------------------------
EXTENDS Registry

CONSTANTS s1, s2

SecondThenFirst == <<s2, s1>>
=============================================================================
