----------------------------- MODULE SetLemmas -----------------------------
(***************************************************************************)
(* Facts about finite sets that several proofs need: what Arrange makes of *)
(* a total order, and how the sums of the community modules add up.        *)
(***************************************************************************)
EXTENDS Arrange, Integers, Functions, FiniteSetTheorems, FunctionTheorems,
        WellFoundedInduction, TLAPS

(* The least of a set of numbers, and the smallest of some finite sets.    *)

NatLess == {p \in Nat \X Nat : p[1] < p[2]}

\* A set of naturals has a least element.
LEMMA LeastNat ==
  ASSUME NEW T \in SUBSET Nat, T # {}
  PROVE  \E x \in T : \A y \in T : x <= y
<1>1. NatLess = OpToRel(<, Nat)
  BY DEF NatLess, OpToRel
<1>2. IsWellFoundedOn(NatLess, Nat)
  BY <1>1, NatLessThanWellFounded
<1>3. PICK x \in T : \A y \in T : ~(<<y, x>> \in NatLess)
  BY <1>2, WFMin
<1>4. \A y \in Nat : <<y, x>> \in NatLess <=> y < x
  BY DEF NatLess
<1>5. \A y \in T : x <= y
  <2>1. x \in Nat
    OBVIOUS
  <2>2. ASSUME NEW y \in T PROVE x <= y
    <3>1. y \in Nat /\ ~(y < x)
      BY <1>3, <1>4
    <3>2. QED
      BY <2>1, <3>1
  <2>3. QED
    BY <2>2
<1>6. QED
  BY <1>5

\* Of finite sets, one is the smallest.
LEMMA SmallestSet ==
  ASSUME NEW D, D # {}, \A T \in D : IsFiniteSet(T)
  PROVE  \E T \in D : \A R \in D : ~(Cardinality(R) < Cardinality(T))
<1> DEFINE sizes == {Cardinality(T) : T \in D}
<1>1. sizes \in SUBSET Nat /\ sizes # {}
  BY FS_CardinalityType
<1>2. PICK n \in sizes : \A m \in sizes : n <= m
  BY <1>1, LeastNat
<1>3. PICK T \in D : Cardinality(T) = n
  BY <1>2
<1>4. \A R \in D : Cardinality(R) \in Nat /\ Cardinality(T) <= Cardinality(R)
  BY <1>1, <1>2, <1>3
<1>5. QED
  BY <1>1, <1>2, <1>3, <1>4

-----------------------------------------------------------------------------
\* upTo is a total order on the finite set S.
IsUpTo(upTo, S) ==
  /\ IsFiniteSet(S)
  /\ upTo \in [S -> SUBSET S]
  /\ \A x \in S : x \in upTo[x]
  /\ \A x, y \in S : x # y => \/ upTo[x] \subseteq upTo[y] \ {y}
                              \/ upTo[y] \subseteq upTo[x] \ {x}

\* The elements of a finite order are numbered by what comes up to them.
LEMMA UpToRank ==
  ASSUME NEW S, NEW upTo, IsUpTo(upTo, S)
  PROVE  /\ Cardinality(S) \in Nat /\ DOMAIN upTo = S
         /\ \A x \in S : Cardinality(upTo[x]) \in 1..Cardinality(S)
         /\ \A x, y \in S : x # y /\ Cardinality(upTo[x]) <= Cardinality(upTo[y])
                              => upTo[x] \subseteq upTo[y] \ {y}
                                 /\ Cardinality(upTo[x]) < Cardinality(upTo[y])
         /\ \A k \in 1..Cardinality(S) : \E x \in S : Cardinality(upTo[x]) = k
<1> DEFINE n == Cardinality(S)
           rank == [x \in S |-> Cardinality(upTo[x])]
<1>1. n \in Nat /\ DOMAIN upTo = S
  BY FS_CardinalityType DEF IsUpTo
<1>2. ASSUME NEW x \in S
      PROVE  IsFiniteSet(upTo[x]) /\ Cardinality(upTo[x]) \in 1..n
  <2>1. /\ IsFiniteSet(upTo[x]) /\ Cardinality(upTo[x]) <= n
        /\ Cardinality(upTo[x]) \in Nat /\ x \in upTo[x]
    BY FS_Subset, FS_CardinalityType DEF IsUpTo
  <2>2. Cardinality(upTo[x]) # 0
    BY <2>1, FS_EmptySet
  <2>3. QED
    BY <1>1, <2>1, <2>2
<1>3. ASSUME NEW x \in S, NEW y \in S, upTo[x] \subseteq upTo[y] \ {y}
      PROVE  Cardinality(upTo[x]) < Cardinality(upTo[y])
  <2>1. /\ IsFiniteSet(upTo[y] \ {y})
        /\ Cardinality(upTo[y] \ {y}) = Cardinality(upTo[y]) - 1
    BY <1>2, FS_RemoveElement DEF IsUpTo
  <2>2. Cardinality(upTo[x]) <= Cardinality(upTo[y] \ {y})
    BY <1>3, <2>1, FS_Subset
  <2>3. Cardinality(upTo[x]) \in Nat /\ Cardinality(upTo[y]) \in Nat
    BY <1>2
  <2>4. QED
    BY <2>1, <2>2, <2>3
<1>4. ASSUME NEW x \in S, NEW y \in S, x # y,
             Cardinality(upTo[x]) <= Cardinality(upTo[y])
      PROVE  /\ upTo[x] \subseteq upTo[y] \ {y}
             /\ Cardinality(upTo[x]) < Cardinality(upTo[y])
  <2>1. Cardinality(upTo[x]) \in Nat /\ Cardinality(upTo[y]) \in Nat
    BY <1>2
  <2>2. ~(upTo[y] \subseteq upTo[x] \ {x})
    BY <1>3, <1>4, <2>1
  <2>3. upTo[x] \subseteq upTo[y] \ {y}
    BY <1>4, <2>2 DEF IsUpTo
  <2>4. QED
    BY <1>3, <2>3
<1> HIDE DEF n
<1>5. rank \in Injection(S, 1..n)
  <2>1. rank \in [S -> 1..n]
    BY <1>2
  <2>2. ASSUME NEW x \in S, NEW y \in S, rank[x] = rank[y] PROVE x = y
    <3>1. /\ Cardinality(upTo[x]) = Cardinality(upTo[y])
          /\ Cardinality(upTo[x]) \in Nat
      BY <1>2, <2>2
    <3>2. QED
      BY <1>4, <3>1
  <2>3. QED
    BY <2>1, <2>2 DEF Injection, IsInjective
<1>6. IsFiniteSet(1..n) /\ Cardinality(1..n) = n
  BY <1>1, FS_Interval
<1>7. rank \in Surjection(S, 1..n)
  BY <1>5, <1>6, FS_Injection DEF n
<1>8. \A k \in 1..n : \E x \in S : Cardinality(upTo[x]) = k
  BY <1>7 DEF Surjection
<1>9. QED
  BY <1>1, <1>2, <1>4, <1>8 DEF n

\* Arrange makes a sequence of all elements, each once, in the order.
LEMMA ArrangeFacts ==
  ASSUME NEW S, NEW upTo, IsUpTo(upTo, S)
  PROVE  /\ Cardinality(S) \in Nat
         /\ Arrange(upTo) \in [1..Cardinality(S) -> S]
         /\ \A x \in S : \E k \in 1..Cardinality(S) : Arrange(upTo)[k] = x
         /\ \A k, l \in 1..Cardinality(S) :
              k < l => Arrange(upTo)[k] \in upTo[Arrange(upTo)[l]] \ {Arrange(upTo)[l]}
<1> DEFINE n == Cardinality(S)
           at(k) == CHOOSE x \in S : Cardinality(upTo[x]) = k
<1>1. n \in Nat /\ Arrange(upTo) = [k \in 1..n |-> at(k)]
  BY UpToRank DEF Arrange
<1>2. ASSUME NEW k \in 1..n
      PROVE  at(k) \in S /\ Cardinality(upTo[at(k)]) = k
  BY UpToRank
<1>3. ASSUME NEW x \in S PROVE \E k \in 1..n : at(k) = x
  <2>1. PICK k \in 1..n : k = Cardinality(upTo[x])
    BY UpToRank
  <2>2. PICK y : y = at(k)
    OBVIOUS
  <2>3. y \in S /\ Cardinality(upTo[y]) = k
    BY <1>2, <2>2
  <2>4. y = x
    BY <2>1, <2>3, UpToRank
  <2>5. QED
    BY <2>2, <2>4
<1>4. ASSUME NEW k \in 1..n, NEW l \in 1..n, k < l
      PROVE  at(k) \in upTo[at(l)] \ {at(l)}
  <2>1. PICK x \in S, y \in S : x = at(k) /\ y = at(l)
    BY <1>2
  <2>2. Cardinality(upTo[x]) = k /\ Cardinality(upTo[y]) = l
    BY <1>2, <2>1
  <2>3. x # y /\ k <= l
    BY <1>4, <2>2
  <2>4. upTo[x] \subseteq upTo[y] \ {y} /\ x \in upTo[x]
    BY <2>2, <2>3, UpToRank DEF IsUpTo
  <2>5. QED
    BY <2>1, <2>4
<1> HIDE DEF at
<1>5. QED
  BY <1>1, <1>2, <1>3, <1>4

\* Numbers in their order.
LEMMA UpToOfNumbers ==
  ASSUME NEW S, IsFiniteSet(S), NEW f \in [S -> Int],
         \A x, y \in S : f[x] = f[y] => x = y
  PROVE  IsUpTo([x \in S |-> {y \in S : f[y] <= f[x]}], S)
  BY DEF IsUpTo

-----------------------------------------------------------------------------
(* Sums.                                                                   *)

SumOver(f, S) == SumFunctionOnSet(f, S)

Chosen(S) == CHOOSE x \in S : TRUE

\* g adds up f on every subset of S.
AddsUp(f, S, g) ==
  g = [T \in SUBSET S |-> IF T = {} THEN 0
                          ELSE f[Chosen(T)] + g[T \ {Chosen(T)}]]

\* The sum of the community modules is the value of a function that adds up.
LEMMA SumDef ==
  ASSUME NEW f, NEW S
  PROVE  SumOver(f, S) = (CHOOSE g : AddsUp(f, S, g))[S]
BY DEF SumOver, SumFunctionOnSet, FoldFunctionOnSet, MapThenFoldSet, AddsUp, Chosen

\* There is such a g: there is one for the subsets of up to n elements.
LEMMA SumExists ==
  ASSUME NEW S, IsFiniteSet(S), NEW f, \A x \in S : f[x] \in Int
  PROVE  \E g \in [SUBSET S -> Int] : AddsUp(f, S, g)
<1> DEFINE Upto(n) == {T \in SUBSET S : Cardinality(T) <= n}
           Good(n, g) ==
             /\ g \in [Upto(n) -> Int]
             /\ \A T \in Upto(n) :
                  g[T] = IF T = {} THEN 0 ELSE f[Chosen(T)] + g[T \ {Chosen(T)}]
           bad == {n \in Nat : ~\E g : Good(n, g)}
<1>1. \A T \in SUBSET S : /\ IsFiniteSet(T) /\ Cardinality(T) \in Nat
                          /\ Cardinality(T) <= Cardinality(S)
                          /\ (Cardinality(T) = 0 <=> T = {})
  BY FS_Subset, FS_CardinalityType, FS_EmptySet
<1>2. ASSUME NEW T \in SUBSET S, T # {}
      PROVE  /\ Chosen(T) \in T /\ T \ {Chosen(T)} \in SUBSET S
             /\ Cardinality(T \ {Chosen(T)}) = Cardinality(T) - 1
  <2>1. Chosen(T) \in T
    BY <1>2 DEF Chosen
  <2>2. QED
    BY <1>1, <2>1, FS_RemoveElement
<1>3. \E g : Good(0, g)
  <2> DEFINE g == [T \in Upto(0) |-> 0]
  <2>1. \A T \in Upto(0) : T = {}
    BY <1>1
  <2>2. g \in [Upto(0) -> Int] /\ \A T \in Upto(0) : g[T] = 0
    OBVIOUS
  <2>3. Good(0, g)
    BY <2>1, <2>2
  <2>4. QED
    BY <2>3
<1>4. ASSUME NEW n \in Nat, NEW g, Good(n, g)
      PROVE  \E h : Good(n + 1, h)
  <2> DEFINE h == [T \in Upto(n + 1) |->
                     IF T = {} THEN 0 ELSE f[Chosen(T)] + g[T \ {Chosen(T)}]]
  <2>1. ASSUME NEW T \in Upto(n + 1), T # {}
        PROVE  /\ T \ {Chosen(T)} \in Upto(n) /\ f[Chosen(T)] \in Int
               /\ T \ {Chosen(T)} \in Upto(n + 1)
    BY <1>1, <1>2, <2>1
  <2>2. \A T \in Upto(n) : T \in Upto(n + 1) /\ h[T] = g[T]
    BY <1>1, <1>4
  <2>3. h \in [Upto(n + 1) -> Int]
    BY <1>4, <2>1
  <2>4. ASSUME NEW T \in Upto(n + 1)
        PROVE  h[T] = IF T = {} THEN 0 ELSE f[Chosen(T)] + h[T \ {Chosen(T)}]
    BY <2>1, <2>2
  <2>5. QED
    BY <2>3, <2>4
<1> HIDE DEF Good
<1>5. \A n \in Nat : \E g : Good(n, g)
  <2> SUFFICES ASSUME bad # {} PROVE FALSE
    OBVIOUS
  <2>1. PICK n \in bad : \A m \in bad : n <= m
    BY LeastNat
  <2>2. n # 0
    BY <1>3, <2>1
  <2>3. n - 1 \in Nat /\ n - 1 \notin bad
    BY <2>1, <2>2
  <2>4. \E g : Good(n - 1, g)
    BY <2>3
  <2>5. \E g : Good(n - 1 + 1, g)
    BY <1>4, <2>3, <2>4
  <2>6. QED
    BY <2>1, <2>5
<1>6. PICK g : Good(Cardinality(S), g)
  BY <1>1, <1>5
<1>7. Upto(Cardinality(S)) = SUBSET S
  BY <1>1
<1>8. QED
  BY <1>6, <1>7 DEF Good, AddsUp

Adding(f, S, g) ==
  /\ \A T \in SUBSET S : g[T] \in Int
  /\ g[{}] = 0
  /\ \A T \in SUBSET S : T # {} =>
       /\ Chosen(T) \in T /\ T \ {Chosen(T)} \in SUBSET S
       /\ Cardinality(T \ {Chosen(T)}) < Cardinality(T)
       /\ g[T] = f[Chosen(T)] + g[T \ {Chosen(T)}]

\* A function that adds up does so whichever element it takes first.
LEMMA AddsUpFacts ==
  ASSUME NEW S, IsFiniteSet(S), NEW f, \A x \in S : f[x] \in Int,
         NEW g, AddsUp(f, S, g)
  PROVE  Adding(f, S, g)
<1>1. g[{}] = 0
  BY DEF AddsUp
<1>2. ASSUME NEW T \in SUBSET S, T # {}
      PROVE  /\ Chosen(T) \in T /\ T \ {Chosen(T)} \in SUBSET S
             /\ Cardinality(T \ {Chosen(T)}) < Cardinality(T)
             /\ g[T] = f[Chosen(T)] + g[T \ {Chosen(T)}]
  <2>1. Chosen(T) \in T
    BY <1>2 DEF Chosen
  <2>2. IsFiniteSet(T) /\ Cardinality(T) \in Nat
    BY FS_Subset, FS_CardinalityType
  <2>3. Cardinality(T \ {Chosen(T)}) = Cardinality(T) - 1
    BY <2>1, <2>2, FS_RemoveElement
  <2>4. Cardinality(T \ {Chosen(T)}) < Cardinality(T)
    BY <2>2, <2>3
  <2>5. g[T] = f[Chosen(T)] + g[T \ {Chosen(T)}]
    BY <1>2, Zenon DEF AddsUp
  <2>6. QED
    BY <2>1, <2>4, <2>5
<1>3. \A T \in SUBSET S : g[T] \in Int
  <2> DEFINE bad == {T \in SUBSET S : g[T] \notin Int}
  <2> SUFFICES ASSUME bad # {} PROVE FALSE
    OBVIOUS
  <2>1. \A T \in bad : IsFiniteSet(T)
    BY FS_Subset
  <2>2. PICK T \in bad : \A R \in bad : ~(Cardinality(R) < Cardinality(T))
    BY <2>1, SmallestSet
  <2>3. T \in SUBSET S /\ g[T] \notin Int
    BY <2>2
  <2>4. T # {}
    BY <1>1, <2>3
  <2>5. PICK U \in SUBSET S, x \in S :
          /\ U = T \ {x} /\ Cardinality(U) < Cardinality(T)
          /\ g[T] = f[x] + g[U]
    BY <1>2, <2>3, <2>4
  <2>6. U \in bad
    BY <2>3, <2>5
  <2>7. QED
    BY <2>2, <2>5, <2>6
<1>4. QED
  BY <1>1, <1>2, <1>3 DEF Adding

\* Which g it is does not matter, nor of which set it sums the subsets.
LEMMA AddsUpUnique ==
  ASSUME NEW S, IsFiniteSet(S), NEW R \in SUBSET S,
         NEW f, \A x \in S : f[x] \in Int,
         NEW g, AddsUp(f, S, g), NEW h, AddsUp(f, R, h)
  PROVE  \A T \in SUBSET R : g[T] = h[T]
<1> DEFINE bad == {T \in SUBSET R : g[T] # h[T]}
<1> SUFFICES ASSUME bad # {} PROVE FALSE
  OBVIOUS
<1>1. IsFiniteSet(R) /\ \A T \in bad : IsFiniteSet(T)
  BY FS_Subset
<1>2. PICK T \in bad : \A U \in bad : ~(Cardinality(U) < Cardinality(T))
  BY <1>1, SmallestSet
<1>3. T \in SUBSET S /\ T \in SUBSET R /\ g[T] # h[T]
  BY <1>2
<1>4. /\ g[{}] = 0
      /\ T # {} => g[T] = f[Chosen(T)] + g[T \ {Chosen(T)}]
  <2>1. Adding(f, S, g)
    BY AddsUpFacts
  <2>2. QED
    BY <1>3, <2>1 DEF Adding
<1>5. /\ h[{}] = 0
      /\ T # {} => /\ h[T] = f[Chosen(T)] + h[T \ {Chosen(T)}]
                   /\ T \ {Chosen(T)} \in SUBSET R
                   /\ Cardinality(T \ {Chosen(T)}) < Cardinality(T)
  <2>1. \A x \in R : f[x] \in Int
    OBVIOUS
  <2>2. Adding(f, R, h)
    BY <1>1, <2>1, AddsUpFacts
  <2>3. QED
    BY <1>3, <2>2 DEF Adding
<1>6. PICK U : U = T \ {Chosen(T)}
  OBVIOUS
<1>7. T # {}
  BY <1>3, <1>4, <1>5
<1>8. U \in SUBSET R /\ Cardinality(U) < Cardinality(T) /\ g[U] # h[U]
  BY <1>3, <1>4, <1>5, <1>6, <1>7
<1>9. QED
  BY <1>2, <1>8

\* So a sum is what it should be.
LEMMA SumStep ==
  ASSUME NEW S, IsFiniteSet(S), NEW f, \A x \in S : f[x] \in Int
  PROVE  /\ SumOver(f, S) \in Int
         /\ S = {} => SumOver(f, S) = 0
         /\ S # {} =>
              /\ Chosen(S) \in S
              /\ SumOver(f, S) = f[Chosen(S)] + SumOver(f, S \ {Chosen(S)})
<1> DEFINE g(T) == CHOOSE g : AddsUp(f, T, g)
<1>1. ASSUME NEW T \in SUBSET S PROVE AddsUp(f, T, g(T)) /\ SumOver(f, T) = g(T)[T]
  <2>1. IsFiniteSet(T)
    BY FS_Subset
  <2>2. \E h : AddsUp(f, T, h)
    BY <2>1, SumExists
  <2>3. QED
    BY <2>2, SumDef
<1>2. PICK h : h = g(S)
  OBVIOUS
<1>3. AddsUp(f, S, h) /\ SumOver(f, S) = h[S]
  BY <1>1, <1>2
<1>4. ASSUME S # {}
      PROVE  SumOver(f, S \ {Chosen(S)}) = h[S \ {Chosen(S)}]
  <2>1. PICK T \in SUBSET S : T = S \ {Chosen(S)}
    OBVIOUS
  <2>2. PICK k : k = g(T)
    OBVIOUS
  <2>3. AddsUp(f, T, k) /\ SumOver(f, T) = k[T]
    BY <1>1, <2>2
  <2>4. h[T] = k[T]
    BY <1>3, <2>3, AddsUpUnique
  <2>5. QED
    BY <2>1, <2>3, <2>4
<1> HIDE DEF g
<1>5. Adding(f, S, h)
  BY <1>3, AddsUpFacts
<1>6. S \in SUBSET S
  OBVIOUS
<1>7. SumOver(f, S) \in Int /\ (S = {} => SumOver(f, S) = 0)
  BY <1>3, <1>5, <1>6 DEF Adding
<1>8. S # {} => /\ Chosen(S) \in S
                /\ h[S] = f[Chosen(S)] + h[S \ {Chosen(S)}]
  BY <1>5, <1>6 DEF Adding
<1>9. QED
  BY <1>3, <1>4, <1>7, <1>8

\* ... in whatever order it is taken.
LEMMA SumRemove ==
  ASSUME NEW S, IsFiniteSet(S), NEW f, \A x \in S : f[x] \in Int,
         NEW x \in S
  PROVE  /\ SumOver(f, S) \in Int /\ SumOver(f, S \ {x}) \in Int
         /\ SumOver(f, S) = f[x] + SumOver(f, S \ {x})
<1> DEFINE Wrong(T) == \E y \in T : SumOver(f, T) # f[y] + SumOver(f, T \ {y})
           bad == {T \in SUBSET S : Wrong(T)}
<1>1. ASSUME NEW T \in SUBSET S
      PROVE  /\ IsFiniteSet(T) /\ SumOver(f, T) \in Int
             /\ T # {} => /\ Chosen(T) \in T
                          /\ SumOver(f, T) = f[Chosen(T)] + SumOver(f, T \ {Chosen(T)})
  <2>1. IsFiniteSet(T)
    BY FS_Subset
  <2>2. QED
    BY <2>1, SumStep
<1>2. bad = {}
  <2> SUFFICES ASSUME bad # {} PROVE FALSE
    OBVIOUS
  <2>1. \A T \in bad : IsFiniteSet(T)
    BY <1>1
  <2>2. PICK T \in bad : \A R \in bad : ~(Cardinality(R) < Cardinality(T))
    BY <2>1, SmallestSet
  <2>3. PICK y \in T : SumOver(f, T) # f[y] + SumOver(f, T \ {y})
    BY <2>2
  <2>4. PICK c \in T : SumOver(f, T) = f[c] + SumOver(f, T \ {c})
    BY <1>1, <2>2
  <2>5. y # c /\ T \in SUBSET S
    BY <2>2, <2>3, <2>4
  <2>6. ASSUME NEW z \in T, NEW w \in T \ {z}
        PROVE  SumOver(f, T \ {z}) = f[w] + SumOver(f, (T \ {z}) \ {w})
    <3>1. PICK U : U = T \ {z}
      OBVIOUS
    <3>2. U \in SUBSET S
      BY <2>5, <3>1
    <3>3. IsFiniteSet(T) /\ Cardinality(U) = Cardinality(T) - 1 /\ Cardinality(T) \in Nat
      BY <2>1, <2>2, <3>1, FS_RemoveElement, FS_CardinalityType
    <3>4. U \notin bad
      BY <2>2, <3>3
    <3>5. w \in U
      BY <3>1
    <3>6. SumOver(f, U) = f[w] + SumOver(f, U \ {w})
      BY <3>2, <3>4, <3>5
    <3>7. QED
      BY <3>1, <3>6
  <2>7. SumOver(f, T \ {c}) = f[y] + SumOver(f, (T \ {c}) \ {y})
    BY <2>5, <2>6
  <2>8. SumOver(f, T \ {y}) = f[c] + SumOver(f, (T \ {y}) \ {c})
    BY <2>5, <2>6
  <2>9. (T \ {c}) \ {y} = (T \ {y}) \ {c} /\ (T \ {c}) \ {y} \in SUBSET S
    BY <2>5
  <2>10. SumOver(f, (T \ {c}) \ {y}) \in Int /\ f[y] \in Int /\ f[c] \in Int
    BY <1>1, <2>5, <2>9
  <2>11. QED
    BY <2>3, <2>4, <2>7, <2>8, <2>9, <2>10
<1>3. ~Wrong(S)
  BY <1>2
<1>4. SumOver(f, S) \in Int /\ SumOver(f, S \ {x}) \in Int
  BY <1>1
<1>5. QED
  BY <1>3, <1>4

\* Two sums add up to the sum of a third function that adds them pointwise.
LEMMA SumPlus ==
  ASSUME NEW S, IsFiniteSet(S),
         NEW f, \A x \in S : f[x] \in Int, NEW g, \A x \in S : g[x] \in Int,
         NEW h, \A x \in S : h[x] = f[x] + g[x]
  PROVE  SumOver(h, S) = SumOver(f, S) + SumOver(g, S)
<1> DEFINE bad == {T \in SUBSET S : SumOver(h, T) # SumOver(f, T) + SumOver(g, T)}
<1> SUFFICES ASSUME bad # {} PROVE FALSE
  OBVIOUS
<1>1. \A T \in SUBSET S : IsFiniteSet(T)
  BY FS_Subset
<1>2. PICK T \in bad : \A R \in bad : ~(Cardinality(R) < Cardinality(T))
  BY <1>1, SmallestSet
<1>3. IsFiniteSet(T) /\ T \in SUBSET S /\ \A x \in T : h[x] \in Int
  BY <1>1, <1>2
<1>4. T # {}
  <2>1. ASSUME T = {}
        PROVE  SumOver(f, T) = 0 /\ SumOver(g, T) = 0 /\ SumOver(h, T) = 0
    BY <1>3, <2>1, SumStep
  <2>2. QED
    BY <1>2, <2>1
<1>5. PICK x \in T : TRUE
  BY <1>4
<1>6. PICK U : U = T \ {x}
  OBVIOUS
<1>7. U \in SUBSET S /\ U \notin bad
  <2>1. Cardinality(U) = Cardinality(T) - 1 /\ Cardinality(T) \in Nat
    BY <1>3, <1>6, FS_RemoveElement, FS_CardinalityType
  <2>2. QED
    BY <1>2, <1>3, <1>6, <2>1
<1>8. SumOver(f, T) = f[x] + SumOver(f, U) /\ SumOver(f, U) \in Int
  BY <1>3, <1>6, SumRemove
<1>9. SumOver(g, T) = g[x] + SumOver(g, U) /\ SumOver(g, U) \in Int
  BY <1>3, <1>6, SumRemove
<1>10. SumOver(h, T) = h[x] + SumOver(h, U)
  BY <1>3, <1>6, SumRemove
<1>11. SumOver(h, U) = SumOver(f, U) + SumOver(g, U)
  BY <1>7
<1>12. h[x] = f[x] + g[x] /\ f[x] \in Int /\ g[x] \in Int
  BY <1>3
<1>13. SumOver(h, T) # SumOver(f, T) + SumOver(g, T)
  BY <1>2
<1>14. QED
  BY <1>8, <1>9, <1>10, <1>11, <1>12, <1>13

\* A sum of what is not positive is not positive.
LEMMA SumNotPositive ==
  ASSUME NEW S, IsFiniteSet(S), NEW f,
         \A x \in S : f[x] \in Int /\ f[x] <= 0
  PROVE  SumOver(f, S) \in Int /\ SumOver(f, S) <= 0
<1>1. \A T \in SUBSET S : IsFiniteSet(T)
  BY FS_Subset
<1>2. ASSUME NEW T \in SUBSET S PROVE SumOver(f, T) \in Int
  <2>1. \A x \in T : f[x] \in Int
    OBVIOUS
  <2>2. QED
    BY <1>1, <2>1, SumStep
<1> DEFINE bad == {T \in SUBSET S : ~(SumOver(f, T) <= 0)}
<1> SUFFICES ASSUME bad # {} PROVE FALSE
  BY <1>2
<1>3. PICK T \in bad : \A R \in bad : ~(Cardinality(R) < Cardinality(T))
  BY <1>1, SmallestSet
<1>4. IsFiniteSet(T) /\ T \in SUBSET S /\ \A x \in T : f[x] \in Int
  BY <1>1, <1>3
<1>5. T # {}
  <2>1. ASSUME T = {} PROVE SumOver(f, T) = 0
    BY <1>4, <2>1, SumStep
  <2>2. QED
    BY <1>3, <2>1
<1>6. PICK x \in T : TRUE
  BY <1>5
<1>7. PICK U : U = T \ {x}
  OBVIOUS
<1>8. U \in SUBSET S /\ U \notin bad
  <2>1. Cardinality(U) = Cardinality(T) - 1 /\ Cardinality(T) \in Nat
    BY <1>4, <1>7, FS_RemoveElement, FS_CardinalityType
  <2>2. QED
    BY <1>3, <1>4, <1>7, <2>1
<1>9. SumOver(f, T) = f[x] + SumOver(f, U)
  BY <1>4, <1>7, SumRemove
<1>10. SumOver(f, U) <= 0 /\ SumOver(f, U) \in Int /\ f[x] \in Int /\ f[x] <= 0
  BY <1>2, <1>4, <1>8
<1>11. ~(SumOver(f, T) <= 0)
  BY <1>3
<1>12. QED
  BY <1>9, <1>10, <1>11

\* When it is 0, so is every term.
LEMMA SumIsZero ==
  ASSUME NEW S, IsFiniteSet(S), NEW f,
         \A x \in S : f[x] \in Int /\ f[x] <= 0,
         SumOver(f, S) = 0
  PROVE  \A x \in S : f[x] = 0
<1> TAKE x \in S
<1>1. SumOver(f, S) = f[x] + SumOver(f, S \ {x})
  BY SumRemove
<1>2. PICK U : U = S \ {x}
  OBVIOUS
<1>3. IsFiniteSet(U) /\ \A y \in U : f[y] \in Int /\ f[y] <= 0
  BY <1>2, FS_Subset
<1>4. SumOver(f, U) \in Int /\ SumOver(f, U) <= 0
  BY <1>3, SumNotPositive
<1>5. QED
  BY <1>1, <1>2, <1>4

\* A sum depends on the terms only, and changes with one of them.
LEMMA SumSame ==
  ASSUME NEW S, IsFiniteSet(S),
         NEW f, \A x \in S : f[x] \in Int, NEW g, \A x \in S : g[x] = f[x]
  PROVE  SumOver(g, S) = SumOver(f, S)
<1> DEFINE zero == [x \in S |-> 0]
<1>1. \A x \in S : zero[x] \in Int /\ zero[x] = zero[x] + zero[x]
  OBVIOUS
<1>2. \A x \in S : g[x] = f[x] + zero[x]
  OBVIOUS
<1> HIDE DEF zero
<1>3. SumOver(zero, S) = SumOver(zero, S) + SumOver(zero, S)
  BY <1>1, SumPlus
<1>4. SumOver(g, S) = SumOver(f, S) + SumOver(zero, S)
  BY <1>1, <1>2, SumPlus
<1>5. SumOver(zero, S) \in Int
  BY <1>1, SumStep
<1>6. SumOver(f, S) \in Int
  BY SumStep
<1>7. SumOver(zero, S) = 0
  <2>1. \A n \in Int : n = n + n => n = 0
    OBVIOUS
  <2>2. QED
    BY <1>3, <1>5, <2>1, Zenon
<1>8. QED
  BY <1>4, <1>6, <1>7

\* The sum when one value changes.
LEMMA SumExcept ==
  ASSUME NEW S, IsFiniteSet(S), NEW b \in S,
         NEW f, \A x \in S : f[x] \in Int, NEW g, \A x \in S : g[x] \in Int,
         \A x \in S : x # b => g[x] = f[x]
  PROVE  SumOver(g, S) = SumOver(f, S) - f[b] + g[b]
<1>1. PICK U : U = S \ {b}
  OBVIOUS
<1>2. IsFiniteSet(U) /\ \A x \in U : f[x] \in Int /\ g[x] = f[x]
  BY <1>1, FS_Subset
<1>3. SumOver(g, U) = SumOver(f, U)
  BY <1>2, SumSame
<1>4. SumOver(f, S) = f[b] + SumOver(f, U) /\ SumOver(f, U) \in Int
  BY <1>1, SumRemove
<1>5. SumOver(g, S) = g[b] + SumOver(g, U)
  BY <1>1, SumRemove
<1>6. QED
  BY <1>3, <1>4, <1>5

=============================================================================
