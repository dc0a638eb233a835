----------------------------- MODULE MCGateway -----------------------------
EXTENDS Gateway, TLC

Instance(filters, arrivals, ticks, signal) ==
  [filters |-> filters, arrivals |-> arrivals, ticks |-> ticks, signal |-> signal]

\* The gateway of main.go, with enough requests and time for a token to come
\* back; the two orders of two filters, one to be sorted by requests that
\* meet; and a process that is asked to end.
FourInstances ==
  {Instance(<<"ratelimit">>, 4, 4, FALSE),
   Instance(<<"ratelimit", "cors">>, 3, 2, FALSE),
   Instance(<<"cors", "ratelimit">>, 2, 2, FALSE),
   Instance(<<"ratelimit">>, 2, 1, TRUE)}

Shipped == {Instance(<<"ratelimit">>, 1, 0, TRUE)}

AnyRequest == Permutations(Requests)
=============================================================================
