------------------------------ MODULE Arrange ------------------------------
(***************************************************************************)
(* A finite set as a sequence, in a total order: the keys etcd returns,    *)
(* and what sort.Ints makes of a slice.                                    *)
(***************************************************************************)
EXTENDS Naturals, FiniteSets

\* The order is given by what does not come after an element: upTo[x], a set
\* that x is in. The k-th element is the one with k elements up to it.
Arrange(upTo) ==
  [k \in 1..Cardinality(DOMAIN upTo) |->
     CHOOSE x \in DOMAIN upTo : Cardinality(upTo[x]) = k]
=============================================================================
