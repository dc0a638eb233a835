----------------------------- MODULE Balancers -----------------------------
(***************************************************************************)
(* The algorithms of the balance package, as operators on the state of a   *)
(* picker and the positions of a list of services.                         *)
(***************************************************************************)
EXTENDS Integers, Functions

CONSTANT Half   \* how many of the values of an unsigned int are ints: 2^63

ASSUME HalfAssumption == Half \in Nat \ {0}

-----------------------------------------------------------------------------
(* Round robin.                                                            *)

\* A variant that does not wrap around.
AddOneUnbounded(count) == count + 1

\* atomic.AddUint64(count, 1), which wraps around.
AddOne(count) == (count + 1) % (2 * Half)

\* int(u) of an unsigned u: its upper half becomes negative.
ToInt(u) == IF u < Half THEN u ELSE u - 2 * Half

\* The % of Go, which takes the sign of its left operand.
Remainder(a, n) == IF a >= 0 THEN a % n ELSE -((-a) % n)

\* The index RoundRobin.Pick computes from the counter it has just raised.
RoundRobinIndex(count, length) == Remainder(ToInt(count), length)

-----------------------------------------------------------------------------
(* Smooth weighted round robin: current and weight are functions on the    *)
(* positions of the list, live is the set of positions that are not nil.   *)

TotalWeight(weight, live) == SumFunctionOnSet(weight, live)

\* Every live service gains its weight ...
Raised(current, weight, live) ==
  [i \in DOMAIN current |->
     IF i \in live THEN current[i] + weight[i] ELSE current[i]]

\* ... the first of the largest is the best ...
Best(raised, live) ==
  CHOOSE i \in live :
    \A j \in live : \/ raised[j] < raised[i]
                    \/ raised[j] = raised[i] /\ i <= j

\* ... and pays for all.
Lowered(raised, best, total) == [raised EXCEPT ![best] = @ - total]
=============================================================================
