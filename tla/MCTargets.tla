----------------------------- MODULE MCTargets -----------------------------
EXTENDS Targets, TLC

CONSTANTS s1, s2, heavy, light

FirstThenSecond == <<s1, s2>>

\* heavy weighs two; the Addr of light does not parse.
TwoAndOne == heavy :> 2 @@ light :> 1
HeavyParses == heavy :> TRUE @@ light :> FALSE

\* At the start, just before the largest int, and just before zero again.
Corners == {0, Half - 2, 2 * Half - 1}

\* One request in the form clients send, one with an absolute URI, and two
\* that ask for an RPC.
Old == <<"old">>
OldPart == <<"old", "part">>
FourAsks ==
  {[rpc |-> "no", path |-> Old, host |-> "", query |-> <<"q">>, body |-> ""],
   [rpc |-> "no", path |-> OldPart, host |-> "origin", query |-> <<>>, body |-> ""],
   [rpc |-> "complete", path |-> Old, host |-> "", query |-> <<>>, body |-> ""],
   [rpc |-> "incomplete", path |-> Old, host |-> "", query |-> <<>>, body |-> "b"]}

\* Expressions match anywhere in a path, so "/old" matches what "/old/part"
\* does; a relative To; and one that url.Parse refuses.
ThreeRules ==
  {[matches |-> {Old, OldPart}, to |-> Url("backend", <<"new">>, <<>>)],
   [matches |-> {OldPart}, to |-> Url("", <<"new">>, <<"to">>)],
   [matches |-> {Old}, to |-> Unparsable]}

OneBackend == {Url("backend", <<"api">>, <<"b">>)}

AnyRequest == Permutations(Requests)
=============================================================================
