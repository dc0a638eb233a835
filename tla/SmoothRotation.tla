--------------------------- MODULE SmoothRotation ---------------------------
(***************************************************************************)
(* WeightRoundRobin.Pick called again and again on one list of services    *)
(* that keeps its CurrentWeights, the way TestWeightRoundRobin calls it.   *)
(***************************************************************************)
EXTENDS Balancers

CONSTANTS
  Length,      \* the length of the list
  MaxWeight    \* bound: the largest weight

ASSUME LengthAssumption == Length \in Nat
ASSUME MaxWeightAssumption == MaxWeight \in Nat

Positions == 1..Length

Nobody == 0            \* no Pick yet
NilServiceErr == -1    \* the error of next

VARIABLES
  weight,    \* Weight of each service
  live,      \* the positions that hold a service; the others hold nil
  current,   \* CurrentWeight of each service
  picks,     \* how often each was picked in this circle of Total picks
  last       \* what the last Pick returned

rotationVars == <<weight, live, current, picks, last>>

Total == TotalWeight(weight, live)

Steps == SumFunctionOnSet(picks, live)

RotationTypeOK ==
  /\ weight \in [Positions -> 0..MaxWeight]
  /\ live \subseteq Positions
  /\ current \in [Positions -> Int]
  /\ picks \in [Positions -> Nat]
  /\ last \in live \cup {Nobody, NilServiceErr}

\* The weights come from JSON, where a weight left out is 0.
RotationInit ==
  /\ weight \in [Positions -> 0..MaxWeight]
  /\ live \in SUBSET Positions
  /\ current = [i \in Positions |-> 0]
  /\ picks = [i \in Positions |-> 0]
  /\ last = Nobody

-----------------------------------------------------------------------------
\* The tally, which is the model's own, starts anew when a circle is full.
Tally(best) ==
  picks' = IF Steps < Total
           THEN [picks EXCEPT ![best] = @ + 1]
           ELSE [i \in Positions |-> IF i = best THEN 1 ELSE 0]

\* A variant in which the best pays its own weight only.
PayOwn ==
  LET raised == Raised(current, weight, live)
      best == Best(raised, live)
  IN  /\ live # {}
      /\ current' = Lowered(raised, best, weight[best])
      /\ last' = best
      /\ Tally(best)
      /\ UNCHANGED <<weight, live>>

\* A variant that chooses before the weights are added.
ChooseFirst ==
  LET best == Best(current, live)
  IN  /\ live # {}
      /\ current' = Lowered(Raised(current, weight, live), best, Total)
      /\ last' = best
      /\ Tally(best)
      /\ UNCHANGED <<weight, live>>

\* next on a list with a service.
NextService ==
  LET raised == Raised(current, weight, live)
      best == Best(raised, live)
  IN  /\ live # {}
      /\ current' = Lowered(raised, best, Total)
      /\ last' = best
      /\ Tally(best)
      /\ UNCHANGED <<weight, live>>

\* next on a list of nils, or on an empty one, whose other error is the same
\* to the caller: no service and no change.
NextNone ==
  /\ live = {}
  /\ last' = NilServiceErr
  /\ UNCHANGED <<weight, live, current, picks>>

RotationNext == NextService \/ NextNone

RotationSpec == RotationInit /\ [][RotationNext]_rotationVars

-----------------------------------------------------------------------------
(* Properties.                                                             *)

\* The CurrentWeights are a ledger of the circle: what a service has been
\* credited, less what it has paid. So they never grow, however many picks.
Ledger ==
  \A i \in live : Total > 0 => current[i] = Steps * weight[i] - Total * picks[i]

\* Nobody runs ahead of its share by a pick or more, and after a full circle
\* everyone was picked as often as its weight says: by the ledger, the circle
\* begins again from nothing. (A service may fall behind by more than a pick.)
WeightsAreKept ==
  \A i \in live : Total > 0 =>
    /\ Total * picks[i] < Steps * weight[i] + Total
    /\ Steps = Total => picks[i] = weight[i]
=============================================================================
