---------------------------- MODULE TargetsProofs ----------------------------
(***************************************************************************)
(* Whoever asks where to, for any services, any lists and weights, any     *)
(* hash function and any rules: each of the users keeps the promises that  *)
(* the small instance shows.                                               *)
(***************************************************************************)
EXTENDS Targets, SetLemmas

-----------------------------------------------------------------------------
(* The weighted rotation.                                                  *)

\* The CurrentWeights sum up to nothing, so whoever is the best has a
\* positive one, and pays without falling to -Total.
RotationInv ==
  /\ RotationTypeOK
  /\ SumOver(current, live) = 0
  /\ Total > 0 => /\ Steps <= Total
                  /\ \A i \in live : current[i] > -Total
  /\ Ledger

\* The weights, picks and credits of finitely many services are numbers.
LEMMA RotationSums ==
  ASSUME RotationTypeOK
  PROVE  /\ IsFiniteSet(live) /\ live \subseteq Positions
         /\ \A i \in live : /\ weight[i] \in Nat /\ picks[i] \in Nat
                            /\ current[i] \in Int
         /\ Total = SumOver(weight, live) /\ Total \in Int
         /\ Steps = SumOver(picks, live) /\ Steps \in Int
<1>1. Length \in Nat /\ MaxWeight \in Nat
  BY LengthAssumption, MaxWeightAssumption
<1>2. IsFiniteSet(Positions)
  BY <1>1, FS_Interval DEF Positions
<1>3. IsFiniteSet(live) /\ live \subseteq Positions
  BY <1>2, FS_Subset DEF RotationTypeOK
<1>4. \A i \in live : weight[i] \in Nat /\ picks[i] \in Nat /\ current[i] \in Int
  BY <1>1, <1>3 DEF RotationTypeOK
<1>5. Total = SumOver(weight, live) /\ Steps = SumOver(picks, live)
  BY DEF Total, TotalWeight, Steps, SumOver
<1>6. SumOver(weight, live) \in Int
  <2>1. \A i \in live : weight[i] \in Int
    BY <1>4
  <2>2. QED
    BY <1>3, <2>1, SumStep
<1>7. SumOver(picks, live) \in Int
  <2>1. \A i \in live : picks[i] \in Int
    BY <1>4
  <2>2. QED
    BY <1>3, <2>1, SumStep
<1>8. QED
  BY <1>3, <1>4, <1>5, <1>6, <1>7

\* What SMT must be told of products.
LEMMA Products ==
  /\ \A t, w, p \in Int : t > 0 /\ t * w - t * p > -t => p <= w
  /\ \A s, t, w, p \in Int : /\ (s + 1) * w = s * w + w
                             /\ t * (p + 1) = t * p + t
                             /\ t * 0 = 0 /\ 1 * w = w
<1>1. ASSUME NEW t \in Int, NEW w \in Int, NEW p \in Int,
             t > 0, t * w - t * p > -t
      PROVE  p <= w
  <2> SUFFICES ASSUME w + 1 <= p PROVE FALSE
    OBVIOUS
  <2>1. PICK d \in Nat : p = w + 1 + d
    <3>1. p - w - 1 \in Nat /\ p = w + 1 + (p - w - 1)
      OBVIOUS
    <3>2. QED
      BY <3>1
  <2>2. t * p = t * w + t + t * d
    BY <2>1
  <2>3. t * d >= 0
    BY <1>1
  <2>4. QED
    BY <1>1, <2>2, <2>3
<1>2. QED
  BY <1>1

\* After a full circle everyone was picked as often as its weight says.
LEMMA FullCircle ==
  ASSUME RotationInv, Total > 0, Steps = Total, NEW i \in live
  PROVE  picks[i] = weight[i]
<1> DEFINE diff == [j \in live |-> picks[j] - weight[j]]
<1>1. /\ IsFiniteSet(live) /\ Total \in Int
      /\ \A j \in live : weight[j] \in Nat /\ picks[j] \in Nat
      /\ Total = SumOver(weight, live) /\ Steps = SumOver(picks, live)
  BY RotationSums DEF RotationInv
<1>2. ASSUME NEW j \in live PROVE picks[j] <= weight[j]
  <2>1. Total * weight[j] - Total * picks[j] > -Total
    BY DEF RotationInv, Ledger
  <2>2. QED
    BY <1>1, <2>1, Products
<1>3. \A j \in live : diff[j] \in Int /\ diff[j] <= 0
  BY <1>1, <1>2
<1>4. \A j \in live : picks[j] = weight[j] + diff[j]
  BY <1>1
<1> HIDE DEF diff
<1>5. SumOver(picks, live) = SumOver(weight, live) + SumOver(diff, live)
  <2>1. /\ \A j \in live : weight[j] \in Int
        /\ \A j \in live : diff[j] \in Int
    BY <1>1, <1>3
  <2>2. QED
    BY <1>1, <1>4, <2>1, SumPlus
<1>6. SumOver(diff, live) \in Int
  BY <1>1, <1>3, SumStep
<1>7. SumOver(diff, live) = 0
  BY <1>1, <1>5, <1>6
<1>8. diff[i] = 0
  BY <1>1, <1>3, <1>7, SumIsZero
<1>9. QED
  BY <1>1, <1>4, <1>8

\* Best finds one that is in the list, and none is better.
LEMMA BestFacts ==
  ASSUME NEW S, IsFiniteSet(S), S # {}, \A i \in S : i \in Int,
         NEW r, \A i \in S : r[i] \in Int
  PROVE  Best(r, S) \in S /\ \A j \in S : r[j] <= r[Best(r, S)]
<1> DEFINE upTo == [i \in S |-> {j \in S : \/ r[j] < r[i]
                                           \/ r[j] = r[i] /\ i <= j}]
<1>1. IsUpTo(upTo, S)
  BY DEF IsUpTo
<1>2. Cardinality(S) \in Nat /\ Cardinality(S) # 0
  BY FS_CardinalityType, FS_EmptySet
<1> DEFINE n == Cardinality(S)
<1>3. PICK i \in S : Cardinality(upTo[i]) = n
  <2>1. n \in 1..n
    BY <1>2
  <2> HIDE DEF n, upTo
  <2>2. QED
    BY <1>1, <2>1, UpToRank DEF n
<1>4. ASSUME NEW j \in S PROVE j \in upTo[i]
  <2> HIDE DEF upTo
  <2>1. Cardinality(upTo[j]) <= n /\ j \in upTo[j]
    BY <1>1, <1>2, UpToRank DEF IsUpTo
  <2>2. QED
    BY <1>1, <1>3, <2>1, UpToRank DEF IsUpTo
<1>5. \A j \in S : r[j] < r[i] \/ (r[j] = r[i] /\ i <= j)
  BY <1>4
<1>6. PICK b : b = Best(r, S)
  OBVIOUS
<1>7. b \in S /\ \A j \in S : r[j] < r[b] \/ (r[j] = r[b] /\ b <= j)
  BY <1>5, <1>6 DEF Best
<1>8. QED
  BY <1>6, <1>7

\* The invariant at the start, whatever the list and its weights.
LEMMA RotationStarts ==
  ASSUME RotationInit
  PROVE  RotationInv
<1>1. RotationTypeOK
  BY LengthAssumption, MaxWeightAssumption
     DEF RotationInit, RotationTypeOK, Positions
<1>2. /\ IsFiniteSet(live)
      /\ \A i \in live : current[i] = 0 /\ picks[i] = 0 /\ weight[i] \in Nat
  BY <1>1, RotationSums DEF RotationInit
<1>3. SumOver(current, live) = 0 /\ SumOver(picks, live) = 0
  <2>1. ASSUME NEW f, \A i \in live : f[i] = 0 PROVE SumOver(f, live) = 0
    <3>1. \A i \in live : f[i] \in Int /\ f[i] = f[i] + f[i]
      BY <2>1
    <3>2. SumOver(f, live) = SumOver(f, live) + SumOver(f, live)
      BY <1>2, <3>1, SumPlus
    <3>3. SumOver(f, live) \in Int
      BY <1>2, <3>1, SumStep
    <3>4. \A n \in Int : n = n + n => n = 0
      OBVIOUS
    <3>5. QED
      BY <3>2, <3>3, <3>4, Zenon
  <2>2. QED
    BY <1>2, <2>1
<1>4. Steps = 0 /\ Total \in Int
  BY <1>1, <1>3, RotationSums
<1>5. ASSUME NEW i \in live, Total > 0
      PROVE  current[i] > -Total /\ current[i] = Steps * weight[i] - Total * picks[i]
  BY <1>2, <1>4, <1>5, Products
<1>6. QED
  BY <1>1, <1>3, <1>4, <1>5 DEF RotationInv, Ledger

\* The step of a Pick that finds a service.
LEMMA NextServiceStep ==
  ASSUME RotationInv, NextService
  PROVE  RotationInv'
<1> DEFINE raised == Raised(current, weight, live)
<1>1. RotationTypeOK /\ UNCHANGED <<weight, live>> /\ live # {}
  BY DEF RotationInv, NextService
<1>2. /\ IsFiniteSet(live) /\ live \subseteq Positions
      /\ \A i \in live : weight[i] \in Nat /\ picks[i] \in Nat /\ current[i] \in Int
      /\ Total = SumOver(weight, live) /\ Total \in Int
      /\ Steps = SumOver(picks, live) /\ Steps \in Int
  BY <1>1, RotationSums
<1>3. /\ raised \in [Positions -> Int]
      /\ \A i \in live : raised[i] = current[i] + weight[i]
  BY <1>1, <1>2 DEF Raised, RotationTypeOK
<1>4. \A i \in live : raised[i] \in Int
  BY <1>2, <1>3
<1>5. PICK b : b = Best(raised, live)
  OBVIOUS
<1>6. /\ current' = [raised EXCEPT ![b] = @ - Total]
      /\ last' = b /\ Tally(b)
  BY <1>5 DEF NextService, Lowered
<1> HIDE DEF raised
<1>7. b \in live /\ \A j \in live : raised[j] <= raised[b]
  <2>1. \A i \in live : i \in Int
    BY <1>2, LengthAssumption DEF Positions
  <2>2. QED
    BY <1>1, <1>2, <1>4, <1>5, <2>1, BestFacts
<1>8. SumOver(raised, live) = Total
  <2>1. /\ \A i \in live : current[i] \in Int
        /\ \A i \in live : weight[i] \in Int
    BY <1>2
  <2>2. SumOver(raised, live) = SumOver(current, live) + SumOver(weight, live)
    BY <1>2, <1>3, <2>1, SumPlus
  <2>3. SumOver(current, live) = 0
    BY DEF RotationInv
  <2>4. QED
    BY <1>2, <2>2, <2>3
<1>9. /\ current' \in [Positions -> Int]
      /\ \A i \in live : /\ current'[i] \in Int
                         /\ i # b => current'[i] = raised[i]
      /\ current'[b] = raised[b] - Total
  BY <1>2, <1>3, <1>6, <1>7
<1>10. SumOver(current', live) = 0
  <2>1. PICK c : c = current'
    OBVIOUS
  <2>2. /\ \A i \in live : c[i] \in Int
        /\ \A i \in live : i # b => c[i] = raised[i]
    BY <1>9, <2>1
  <2>3. SumOver(c, live) = SumOver(raised, live) - raised[b] + c[b]
    BY <1>2, <1>4, <1>7, <2>2, SumExcept
  <2>4. c[b] = raised[b] - Total /\ raised[b] \in Int
    BY <1>4, <1>7, <1>9, <2>1
  <2>5. SumOver(c, live) = 0
    BY <1>2, <1>8, <2>3, <2>4
  <2>6. QED
    BY <2>1, <2>5
<1>11. Total > 0 => raised[b] > 0
  <2> SUFFICES ASSUME Total > 0, raised[b] <= 0 PROVE FALSE
    BY <1>4, <1>7
  <2>1. \A i \in live : raised[i] \in Int /\ raised[i] <= 0
    BY <1>4, <1>7
  <2>2. SumOver(raised, live) <= 0
    BY <1>2, <2>1, SumNotPositive
  <2>3. QED
    BY <1>2, <1>8, <2>2
<1>12. Total' = Total /\ Positions' = Positions
  BY <1>1 DEF Total, Positions
<1>13. ASSUME Total > 0, NEW i \in live PROVE current'[i] > -Total
  <2>1. current[i] > -Total
    BY <1>13 DEF RotationInv
  <2>2. CASE i = b
    BY <1>2, <1>4, <1>7, <1>9, <1>11, <1>13, <2>2
  <2>3. CASE i # b
    BY <1>2, <1>3, <1>9, <2>1, <2>3
  <2>4. QED
    BY <2>2, <2>3
\* The tally, and with it the ledger.
<1>14. /\ picks' \in [Positions -> Nat]
       /\ Steps < Total =>
            \A i \in live : picks'[i] = IF i = b THEN picks[i] + 1 ELSE picks[i]
       /\ ~(Steps < Total) => \A i \in live : picks'[i] = IF i = b THEN 1 ELSE 0
  BY <1>1, <1>2, <1>6, <1>7 DEF Tally, RotationTypeOK
<1>15. ASSUME NEW p, \A i \in live : p[i] \in Int,
              \A i \in live : picks'[i] = IF i = b THEN p[i] + 1 ELSE p[i]
       PROVE  Steps' = SumOver(p, live) + 1 /\ SumOver(p, live) \in Int
  <2>1. PICK q : q = picks'
    OBVIOUS
  <2>2. /\ \A i \in live : q[i] \in Int
        /\ \A i \in live : i # b => q[i] = p[i]
        /\ q[b] = p[b] + 1
    BY <1>7, <1>15, <2>1
  <2>3. SumOver(q, live) = SumOver(p, live) - p[b] + q[b]
    BY <1>2, <1>7, <1>15, <2>2, SumExcept
  <2>4. SumOver(p, live) \in Int /\ p[b] \in Int
    BY <1>2, <1>7, <1>15, SumStep
  <2>5. Steps' = SumOver(q, live)
    BY <1>1, <2>1 DEF Steps, SumOver
  <2>6. QED
    BY <2>2, <2>3, <2>4, <2>5
<1>16. ASSUME Total > 0
       PROVE  /\ Steps' <= Total
              /\ \A i \in live : current'[i] = Steps' * weight[i] - Total * picks'[i]
  <2>1. CASE Steps < Total
    <3>1. \A i \in live : picks[i] \in Int
      BY <1>2
    <3>2. Steps' = Steps + 1
      BY <1>2, <1>14, <1>15, <2>1, <3>1
    <3>3. ASSUME NEW i \in live
          PROVE  current'[i] = Steps' * weight[i] - Total * picks'[i]
      <4>1. current[i] = Steps * weight[i] - Total * picks[i]
        BY <1>16 DEF RotationInv, Ledger
      <4>2. /\ (Steps + 1) * weight[i] = Steps * weight[i] + weight[i]
            /\ Total * (picks[i] + 1) = Total * picks[i] + Total
        <5>1. weight[i] \in Int /\ picks[i] \in Int /\ Total \in Int /\ Steps \in Int
          BY <1>2
        <5>2. QED
          BY <5>1, Products, Zenon
      <4>3. raised[i] = current[i] + weight[i]
        BY <1>3
      <4>4. CASE i = b
        <5>1. current'[i] = raised[i] - Total /\ picks'[i] = picks[i] + 1
          BY <1>9, <1>14, <2>1, <4>4
        <5>2. QED
          BY <1>2, <3>2, <4>1, <4>2, <4>3, <5>1
      <4>5. CASE i # b
        <5>1. current'[i] = raised[i] /\ picks'[i] = picks[i]
          BY <1>9, <1>14, <2>1, <4>5
        <5>2. QED
          BY <1>2, <3>2, <4>1, <4>2, <4>3, <5>1
      <4>6. QED
        BY <4>4, <4>5
    <3>4. QED
      BY <1>2, <2>1, <3>2, <3>3
  <2>2. CASE ~(Steps < Total)
    <3> DEFINE zero == [i \in live |-> 0]
    <3>1. Steps = Total
      BY <1>2, <1>16, <2>2 DEF RotationInv
    <3>2. \A i \in live : zero[i] \in Int /\ zero[i] <= 0
      OBVIOUS
    <3>3. \A i \in live : picks'[i] = IF i = b THEN zero[i] + 1 ELSE zero[i]
      BY <1>14, <2>2
    <3>4. \A i \in live : zero[i] = zero[i] + zero[i]
      OBVIOUS
    <3> HIDE DEF zero
    <3>5. Steps' = SumOver(zero, live) + 1 /\ SumOver(zero, live) \in Int
      BY <1>15, <3>2, <3>3
    <3>6. SumOver(zero, live) = SumOver(zero, live) + SumOver(zero, live)
      BY <1>2, <3>2, <3>4, SumPlus
    <3>7. \A n \in Int : n = n + n => n = 0
      OBVIOUS
    <3>8. SumOver(zero, live) = 0
      BY <3>5, <3>6, <3>7, Zenon
    <3>9. Steps' = 1
      BY <3>5, <3>8
    <3>10. ASSUME NEW i \in live
           PROVE  current'[i] = Steps' * weight[i] - Total * picks'[i]
      <4>1. current[i] = Steps * weight[i] - Total * picks[i]
        BY <1>16 DEF RotationInv, Ledger
      <4>2. picks[i] = weight[i]
        BY <1>16, <3>1, FullCircle
      <4>3. current[i] = 0
        BY <1>2, <3>1, <4>1, <4>2
      <4>4. raised[i] = weight[i]
        BY <1>2, <1>3, <4>3
      <4>5. 1 * weight[i] = weight[i] /\ Total * 0 = 0 /\ Total * 1 = Total
        BY <1>2
      <4>6. CASE i = b
        <5>1. current'[i] = raised[i] - Total /\ picks'[i] = 1
          BY <1>9, <1>14, <2>2, <4>6
        <5>2. QED
          BY <1>2, <3>9, <4>4, <4>5, <5>1
      <4>7. CASE i # b
        <5>1. current'[i] = raised[i] /\ picks'[i] = 0
          BY <1>9, <1>14, <2>2, <4>7
        <5>2. QED
          BY <1>2, <3>9, <4>4, <4>5, <5>1
      <4>8. QED
        BY <4>6, <4>7
    <3>11. QED
      BY <1>2, <1>16, <3>9, <3>10
  <2>3. QED
    BY <2>1, <2>2
<1>17. RotationTypeOK'
  BY <1>1, <1>6, <1>7, <1>9, <1>12, <1>14 DEF RotationTypeOK
<1>18. SumOver(current, live)' = 0
  BY <1>1, <1>10 DEF SumOver
<1>19. QED
  BY <1>1, <1>12, <1>13, <1>16, <1>17, <1>18 DEF RotationInv, Ledger

\* The invariant is inductive.
LEMMA RotationStep ==
  ASSUME RotationInv, [RotationNext]_rotationVars
  PROVE  RotationInv'
<1>1. CASE UNCHANGED rotationVars
  BY <1>1 DEF rotationVars, RotationInv, RotationTypeOK, Ledger, Total, Steps,
     SumOver, Positions
<1>2. CASE NextService
  BY <1>2, NextServiceStep
<1>3. CASE NextNone
  <2>1. UNCHANGED <<weight, live, current, picks>> /\ last' = NilServiceErr
    BY <1>3 DEF NextNone
  <2>2. Total' = Total /\ Steps' = Steps /\ Positions' = Positions
    BY <2>1 DEF Total, Steps, Positions
  <2>3. QED
    BY <2>1, <2>2 DEF RotationInv, RotationTypeOK, Ledger, SumOver
<1>4. QED
  BY <1>1, <1>2, <1>3 DEF RotationNext

\* Since nobody falls to -Total, nobody is a pick ahead.
LEMMA RotationKeepsWeights ==
  ASSUME RotationInv
  PROVE  WeightsAreKept
<1>1. ASSUME NEW i \in live, Total > 0
      PROVE  Total * picks[i] < Steps * weight[i] + Total
  <2>1. current[i] > -Total /\ current[i] = Steps * weight[i] - Total * picks[i]
    BY <1>1 DEF RotationInv, Ledger
  <2>2. PICK a, c : a = Total * picks[i] /\ c = Steps * weight[i]
    OBVIOUS
  <2>3. /\ Total \in Int /\ Steps \in Int
        /\ weight[i] \in Int /\ picks[i] \in Int /\ current[i] \in Int
    BY RotationSums DEF RotationInv
  <2>4. a \in Int /\ c \in Int
    BY <2>2, <2>3
  <2>5. a < c + Total
    BY <2>1, <2>2, <2>3, <2>4
  <2>6. QED
    BY <2>2, <2>5
<1>2. QED
  BY <1>1, FullCircle DEF WeightsAreKept

-----------------------------------------------------------------------------
(* The round robin.                                                        *)

\* The remainder, by what it leaves.
LEMMA ModFacts ==
  ASSUME NEW n \in Nat, n > 0, NEW a \in Int
  PROVE  /\ a % n \in 0..(n - 1)
         /\ \E q \in Int : a = n * q + (a % n)
         /\ \A q \in Int, r \in 0..(n - 1) : a = n * q + r => a % n = r
<1>1. a % n \in 0..(n - 1) /\ \E q \in Int : a = n * q + (a % n)
  <2>1. a % n \in 0..(n - 1)
    OBVIOUS
  <2>2. a = n * (a \div n) + (a % n) /\ a \div n \in Int
    OBVIOUS
  <2>3. QED
    BY <2>1, <2>2
<1>2. ASSUME NEW q \in Int, NEW r \in 0..(n - 1), a = n * q + r
      PROVE  a % n = r
  <2>1. PICK p \in Int : a = n * p + (a % n)
    BY <1>1
  <2>2. PICK s \in 0..(n - 1) : s = a % n
    BY <1>1
  <2>3. n * p + s = n * q + r
    BY <1>2, <2>1, <2>2
  <2>4. p = q
    <3>1. CASE p < q
      <4>1. PICK d \in Nat : q = p + 1 + d
        <5>1. q - p - 1 \in Nat /\ q = p + 1 + (q - p - 1)
          BY <3>1
        <5>2. QED
          BY <5>1
      <4>2. n * q = n * p + n + n * d /\ n * d >= 0
        BY <4>1
      <4>3. QED
        BY <2>3, <4>2
    <3>2. CASE q < p
      <4>1. PICK d \in Nat : p = q + 1 + d
        <5>1. p - q - 1 \in Nat /\ p = q + 1 + (p - q - 1)
          BY <3>2
        <5>2. QED
          BY <5>1
      <4>2. n * p = n * q + n + n * d /\ n * d >= 0
        BY <4>1
      <4>3. QED
        BY <2>3, <4>2
    <3>3. QED
      BY <3>1, <3>2
  <2>5. QED
    BY <2>2, <2>3, <2>4
<1>3. QED
  BY <1>1, <1>2

\* The remainder of the next number.
LEMMA ModNext ==
  ASSUME NEW n \in Nat, n > 0, NEW a \in Int
  PROVE  (a + 1) % n = IF a % n = n - 1 THEN 0 ELSE (a % n) + 1
<1>1. PICK q \in Int, c \in 0..(n - 1) : a = n * q + c /\ c = a % n
  BY ModFacts
<1>2. PICK b \in Int : b = a + 1
  OBVIOUS
<1>3. CASE c = n - 1
  <2>1. PICK p \in Int, z \in 0..(n - 1) : p = q + 1 /\ z = 0
    OBVIOUS
  <2>2. b = n * p + z
    BY <1>1, <1>2, <1>3, <2>1
  <2>3. b % n = z
    BY <2>2, ModFacts
  <2>4. QED
    BY <1>1, <1>2, <1>3, <2>1, <2>3
<1>4. CASE c # n - 1
  <2>1. PICK z \in 0..(n - 1) : z = c + 1
    BY <1>4
  <2>2. b = n * q + z
    <3>1. PICK m \in Int : m = n * q
      OBVIOUS
    <3>2. a = m + c
      BY <1>1, <3>1
    <3>3. b = m + z
      BY <1>2, <2>1, <3>2
    <3>4. QED
      BY <3>1, <3>3
  <2>3. b % n = z
    BY <2>2, ModFacts
  <2>4. QED
    BY <1>1, <1>2, <1>4, <2>1, <2>3
<1>5. QED
  BY <1>3, <1>4

\* The counter, as an int, goes on by one but for its largest and its last
\* value.
LEMMA CounterFacts ==
  ASSUME NEW u \in 0..(2 * Half - 1)
  PROVE  /\ AddOne(u) \in 0..(2 * Half - 1)
         /\ ToInt(u) \in Int /\ ToInt(AddOne(u)) \in Int
         /\ \/ ToInt(AddOne(u)) = ToInt(u) + 1
            \/ ToInt(u) = Half - 1 /\ ToInt(AddOne(u)) = -Half
<1>1. Half \in Nat /\ Half > 0
  BY HalfAssumption
<1>2. PICK m \in Nat : m = 2 * Half /\ m > 0
  BY <1>1
<1>3. AddOne(u) = IF u = m - 1 THEN 0 ELSE u + 1
  <2>1. u \in Int /\ u + 1 \in Int
    OBVIOUS
  <2>2. CASE u = m - 1
    <3>1. u + 1 = m * 1 + 0 /\ 0 \in 0..(m - 1)
      BY <1>2, <2>2
    <3>2. (u + 1) % m = 0
      BY <1>2, <2>1, <3>1, ModFacts
    <3>3. QED
      BY <1>2, <2>2, <3>2 DEF AddOne
  <2>3. CASE u # m - 1
    <3>1. u + 1 = m * 0 + (u + 1) /\ u + 1 \in 0..(m - 1)
      BY <1>2, <2>3
    <3>2. (u + 1) % m = u + 1
      BY <1>2, <2>1, <3>1, ModFacts
    <3>3. QED
      BY <1>2, <2>3, <3>2 DEF AddOne
  <2>4. QED
    BY <2>2, <2>3
<1>4. QED
  BY <1>1, <1>2, <1>3 DEF ToInt

\* The index a pick computes, when it is one of the list, is the counter
\* modulo the length; and the next pick takes the next index.
LEMMA IndexFacts ==
  ASSUME NEW u \in 0..(2 * Half - 1), NEW n \in Nat, n > 0
  PROVE  /\ ToInt(AddOne(u)) >= 0 => RoundRobinIndex(AddOne(u), n) \in 0..(n - 1)
         /\ RoundRobinIndex(AddOne(u), n) \in 0..(n - 1) =>
              /\ RoundRobinIndex(AddOne(u), n) = ToInt(AddOne(u)) % n
              /\ ToInt(AddOne(u)) % n =
                   IF ToInt(u) % n = n - 1 THEN 0 ELSE (ToInt(u) % n) + 1
<1>1. PICK a \in Int, b \in Int : a = ToInt(u) /\ b = ToInt(AddOne(u))
  BY CounterFacts
<1>2. b = a + 1 \/ (a = Half - 1 /\ b = -Half)
  BY <1>1, CounterFacts
<1>3. b % n \in 0..(n - 1) /\ a % n \in 0..(n - 1)
  BY ModFacts
<1>4. RoundRobinIndex(AddOne(u), n) = IF b >= 0 THEN b % n ELSE -((-b) % n)
  BY <1>1 DEF RoundRobinIndex, Remainder
<1>5. ASSUME RoundRobinIndex(AddOne(u), n) \in 0..(n - 1), b < 0
      PROVE  \E q \in Int : b = n * q /\ b % n = 0 /\ (-b) % n = 0
  <2>1. PICK d \in Int : d = -b
    OBVIOUS
  <2>2. PICK q \in Int, c \in 0..(n - 1) : d = n * q + c /\ c = d % n
    BY ModFacts
  <2>3. RoundRobinIndex(AddOne(u), n) = -c
    BY <1>4, <1>5, <2>1, <2>2
  <2>4. c = 0
    BY <1>5, <2>3
  <2>5. d = n * q
    BY <2>2, <2>4
  <2>6. n * (-q) = -(n * q) /\ n * q \in Int
    OBVIOUS
  <2>7. b = n * (-q) + 0 /\ -q \in Int /\ 0 \in 0..(n - 1)
    BY <2>1, <2>5, <2>6
  <2>8. b % n = 0
    BY <2>7, ModFacts
  <2>9. QED
    BY <2>1, <2>2, <2>4, <2>7, <2>8
<1>6. ASSUME RoundRobinIndex(AddOne(u), n) \in 0..(n - 1)
      PROVE  /\ RoundRobinIndex(AddOne(u), n) = b % n
             /\ b % n = IF a % n = n - 1 THEN 0 ELSE (a % n) + 1
  <2>1. RoundRobinIndex(AddOne(u), n) = b % n
    BY <1>4, <1>5, <1>6
  <2>2. CASE b = a + 1
    BY <2>1, <2>2, ModNext
  <2>3. CASE a = Half - 1 /\ b = -Half
    <3>1. Half \in Nat /\ Half > 0
      BY HalfAssumption
    <3>2. PICK q \in Int : b = n * q /\ b % n = 0
      BY <1>5, <1>6, <2>3, <3>1
    <3>3. a = n * (-q - 1) + (n - 1) /\ -q - 1 \in Int /\ n - 1 \in 0..(n - 1)
      BY <2>3, <3>1, <3>2
    <3>4. a % n = n - 1
      BY <3>3, ModFacts
    <3>5. QED
      BY <2>1, <3>2, <3>4
  <2>4. QED
    BY <1>2, <2>2, <2>3
<1>7. b >= 0 => RoundRobinIndex(AddOne(u), n) \in 0..(n - 1)
  BY <1>3, <1>4
<1>8. QED
  BY <1>1, <1>6, <1>7

-----------------------------------------------------------------------------
(* What GetService lists.                                                  *)

\* The order of the keys gives each service a number of its own.
LEMMA KeyNrFacts ==
  /\ IsFiniteSet(Services)
  /\ \A s \in Services : KeyNr(s) \in Nat
  /\ \A s, t \in Services : KeyNr(s) = KeyNr(t) => s = t
<1>1. \A s \in Services : KeyNr(s) \in DOMAIN KeyOrder /\ KeyOrder[KeyNr(s)] = s
  BY KeyOrderAssumption DEF KeyNr
<1>2. DOMAIN KeyOrder = 1..Len(KeyOrder) /\ Len(KeyOrder) \in Nat
  BY KeyOrderAssumption
<1>3. \A s \in Services : KeyNr(s) \in 1..Len(KeyOrder)
  BY <1>1, <1>2
<1>4. IsFiniteSet(Services)
  <2> DEFINE nr == [s \in Services |-> KeyNr(s)]
  <2>1. nr \in Injection(Services, 1..Len(KeyOrder))
    BY <1>1, <1>3 DEF Injection, IsInjective
  <2>2. IsFiniteSet(1..Len(KeyOrder))
    BY <1>2, FS_Interval
  <2>3. QED
    BY <2>1, <2>2, FS_Injection
<1>5. QED
  BY <1>1, <1>2, <1>3, <1>4

\* Each name is listed once.
LEMMA InKeyOrderFacts ==
  ASSUME NEW S \in SUBSET Services
  PROVE  /\ Cardinality(S) \in Nat
         /\ InKeyOrder(S) \in [1..Cardinality(S) -> S]
         /\ \A k, l \in 1..Cardinality(S) : k # l => InKeyOrder(S)[k] # InKeyOrder(S)[l]
<1> DEFINE nr == [s \in S |-> KeyNr(s)]
           upTo == [s \in S |-> {t \in S : nr[t] <= nr[s]}]
<1>1. IsFiniteSet(S) /\ nr \in [S -> Int] /\ \A s, t \in S : nr[s] = nr[t] => s = t
  BY KeyNrFacts, FS_Subset
<1>2. IsUpTo(upTo, S)
  <2> HIDE DEF nr
  <2>1. QED
    BY <1>1, UpToOfNumbers
<1>3. InKeyOrder(S) = Arrange(upTo)
  BY DEF InKeyOrder
<1> HIDE DEF upTo
<1>4. PICK a : a = Arrange(upTo)
  OBVIOUS
<1>5. /\ Cardinality(S) \in Nat /\ a \in [1..Cardinality(S) -> S]
      /\ \A k, l \in 1..Cardinality(S) : k < l => a[k] \in upTo[a[l]] \ {a[l]}
  BY <1>2, <1>4, ArrangeFacts
<1>6. ASSUME NEW k \in 1..Cardinality(S), NEW l \in 1..Cardinality(S), k # l
      PROVE  a[k] # a[l]
  <2>1. k < l \/ l < k
    BY <1>5, <1>6
  <2>2. QED
    BY <1>5, <2>1
<1>7. QED
  BY <1>3, <1>4, <1>5, <1>6

\* A list from etcd has one entry for each service.
LEMMA DecodedFacts ==
  ASSUME store \in [Services -> Values \cup {Absent, Garbled}]
  PROVE  /\ Decoded \in Seq(Entry)
         /\ \A i, j \in DOMAIN Decoded : Decoded[i].name = Decoded[j].name => i = j
<1>1. PICK S \in SUBSET Services : S = {s \in Services : store[s] \in Values}
  OBVIOUS
<1>2. PICK g : g = InKeyOrder(S)
  OBVIOUS
<1>3. PICK n \in Nat : /\ n = Cardinality(S)
                       /\ g \in [1..n -> S]
                       /\ \A k, l \in 1..n : k # l => g[k] # g[l]
  BY <1>2, InKeyOrderFacts
<1>4. DOMAIN g = 1..n
  BY <1>3
<1>5. Decoded = [i \in 1..n |-> [name |-> g[i], value |-> store[g[i]]]]
  BY <1>1, <1>2, <1>4 DEF Decoded
<1>6. \A i \in 1..n : [name |-> g[i], value |-> store[g[i]]] \in Entry
  BY <1>1, <1>3 DEF Entry
<1>7. Decoded \in [1..n -> Entry] /\ DOMAIN Decoded = 1..n
  BY <1>5, <1>6
<1>8. \A i \in 1..n : Decoded[i].name = g[i]
  BY <1>5
<1>9. \A i, j \in 1..n : Decoded[i].name = Decoded[j].name => i = j
  BY <1>3, <1>8
<1>10. QED
  BY <1>7, <1>9

-----------------------------------------------------------------------------
(* The requests.                                                           *)

\* How many picks ago position i of n was the one to pick, if c is now.
Age(c, n, i) == IF i - 1 <= c THEN c - (i - 1) ELSE c - (i - 1) + n

\* Those picked more recently are ahead of the others, by no more than one.
InTurn(l) ==
  LET age(i) == Age(ToInt(count) % Len(l), Len(l), i)
  IN  \A i, j \in DOMAIN l : age(i) <= age(j) =>
        /\ Turns(l[j].name) <= Turns(l[i].name)
        /\ Turns(l[i].name) <= Turns(l[j].name) + 1

NoPanic == \A r \in Requests : result[r] # "panic"

Balanced ==
  scheme = "round_robin" /\ SameList /\ NoPanic => \A r \in Served : InTurn(list[r])

OneOfEach(l) == \A i, j \in DOMAIN l : l[i].name = l[j].name => i = j

Calm ==
  /\ NextTargetTypeOK
  /\ \A r \in Requests : OneOfEach(list[r])
  /\ \A r \in Requests : stage[r] # "done" => picked[r] = None /\ result[r] = "none"

NextTargetInv == Calm /\ IsFiniteSet(Served) /\ Balanced

\* The invariant at the start, whatever the counter.
LEMMA NextTargetStarts ==
  ASSUME NextTargetInit
  PROVE  NextTargetInv
<1>1. TypeOK
  <2> USE DEF NextTargetInit, DiscoveryInit
  <2>1. /\ store \in [Services -> Values \cup {Absent, Garbled}]
        /\ cache \in [Services -> Values \cup {Absent}]
    OBVIOUS
  <2>2. events \in Seq(Event) /\ todo \in Seq(Event)
    OBVIOUS
  <2>3. /\ stage \in [Requests -> {"start", "putting", "listed", "failed", "done"}]
        /\ list \in [Requests -> Seq(Entry)]
    OBVIOUS
  <2>4. \A r \in Requests : left[r] \subseteq DOMAIN list[r]
    OBVIOUS
  <2>5. changes \in 0..MaxChanges
    BY MaxChangesAssumption
  <2>6. up = TRUE /\ closing = FALSE /\ wch = "unmade" /\ loop = "start"
    OBVIOUS
  <2>7. QED
    BY <2>1, <2>2, <2>3, <2>4, <2>5, <2>6 DEF TypeOK
<1>2. Calm
  <2>1. /\ scheme \in Schemes
        /\ picked = [r \in Requests |-> None] /\ result = [r \in Requests |-> "none"]
        /\ list = [r \in Requests |-> <<>>]
    BY DEF NextTargetInit, DiscoveryInit
  <2>2. count \in 0..(2 * Half - 1)
    BY FirstCountsAssumption DEF NextTargetInit
  <2>3. NextTargetTypeOK
    BY <1>1, <2>1, <2>2 DEF NextTargetTypeOK, Results
  <2>4. \A r \in Requests : OneOfEach(list[r])
    BY <2>1 DEF OneOfEach
  <2>5. QED
    BY <2>1, <2>3, <2>4 DEF Calm
<1>3. Served = {}
  BY DEF NextTargetInit, Served
<1>4. IsFiniteSet(Served)
  BY <1>3, FS_EmptySet
<1>5. Balanced
  BY <1>3 DEF Balanced
<1>6. QED
  BY <1>2, <1>4, <1>5 DEF NextTargetInv

-----------------------------------------------------------------------------
(* Their steps: what they do to the types ...                              *)

\* Listing the services keeps the invariant, and the lists of those served.
LEMMA GetServiceStep ==
  ASSUME Calm, UNCHANGED balanceVars,
         NEW r \in Requests, GetService(r)
  PROVE  Calm' /\ \A q \in Requests : stage[q] = "done" => list'[q] = list[q]
<1>1. TypeOK /\ OneOfEach(list[r])
  BY DEF Calm, NextTargetTypeOK
<1> USE DEF etcdVars, loopVars, balanceVars
<1>2. ASSUME TypeOK', stage'[r] # "done", stage[r] # "done",
             \A q \in Requests : q # r => stage'[q] = stage[q] /\ list'[q] = list[q],
             OneOfEach(list'[r])
      PROVE  Calm'
  <2>1. \A q \in Requests : OneOfEach(list'[q])
    BY <1>2 DEF Calm
  <2>2. \A q \in Requests : stage'[q] # "done" => picked[q] = None /\ result[q] = "none"
    BY <1>2 DEF Calm
  <2>3. \A q \in Requests : picked[q] \in {None} \cup DOMAIN list'[q]
    BY <1>2 DEF Calm, NextTargetTypeOK
  <2>4. NextTargetTypeOK'
    BY <1>2, <2>3 DEF Calm, NextTargetTypeOK
  <2>5. QED
    BY <2>1, <2>2, <2>4 DEF Calm, OneOfEach
<1>3. CASE Fetch(r)
  <2>1. PICK d : d = Decoded
    OBVIOUS
  <2>2. d \in Seq(Entry) /\ OneOfEach(d)
    BY <1>1, <2>1, DecodedFacts DEF TypeOK, OneOfEach
  <2>3. /\ stage[r] = "start" /\ list' = [list EXCEPT ![r] = d]
        /\ left' = [left EXCEPT ![r] = DOMAIN d]
        /\ stage' = [stage EXCEPT ![r] = "putting"]
        /\ UNCHANGED <<etcdVars, loopVars>>
    BY <1>3, <2>1 DEF Fetch
  <2>4. TypeOK'
    <3>1. list' \in [Requests -> Seq(Entry)]
      BY <1>1, <2>2, <2>3 DEF TypeOK
    <3>2. ASSUME NEW q \in Requests PROVE left'[q] \subseteq DOMAIN list'[q]
      <4>1. left[q] \subseteq DOMAIN list[q] /\ list \in [Requests -> Seq(Entry)]
        BY <1>1 DEF TypeOK
      <4>2. CASE q = r
        <5>1. list'[q] = d
          BY <2>3, <4>1, <4>2
        <5>2. left'[q] = DOMAIN d
          BY <1>1, <2>3, <4>2 DEF TypeOK
        <5>3. QED
          BY <5>1, <5>2
      <4>3. CASE q # r
        BY <2>3, <4>1, <4>3
      <4>4. QED
        BY <4>2, <4>3
    <3>3. left' \in [Requests -> SUBSET Nat]
      <4>1. DOMAIN d \in SUBSET Nat
        BY <2>2
      <4>2. QED
        BY <1>1, <2>3, <4>1 DEF TypeOK
    <3>4. QED
      BY <1>1, <2>3, <3>1, <3>2, <3>3 DEF TypeOK
  <2>5. /\ stage'[r] = "putting" /\ list'[r] = d
        /\ \A q \in Requests : q # r => stage'[q] = stage[q] /\ list'[q] = list[q]
    BY <1>1, <2>3 DEF TypeOK
  <2>6. QED
    BY <1>2, <2>2, <2>3, <2>4, <2>5
<1>4. CASE FetchFails(r)
  <2>1. /\ stage[r] = "start" /\ stage' = [stage EXCEPT ![r] = "failed"]
        /\ UNCHANGED <<etcdVars, loopVars, list, left>>
    BY <1>4 DEF FetchFails
  <2>2. TypeOK'
    BY <1>1, <2>1 DEF TypeOK
  <2>3. stage'[r] = "failed" /\ \A q \in Requests : q # r => stage'[q] = stage[q]
    BY <1>1, <2>1 DEF TypeOK
  <2>4. QED
    BY <1>1, <1>2, <2>1, <2>2, <2>3
<1>5. CASE PutFetched(r)
  <2>1. PICK i : i = CHOOSE j \in left[r] : \A k \in left[r] : j <= k
    OBVIOUS
  <2>2. /\ stage[r] = "putting" /\ left[r] # {}
        /\ PutServer(list[r][i].name, list[r][i].value)
        /\ left' = [left EXCEPT ![r] = @ \ {i}]
        /\ UNCHANGED <<etcdVars, loop, todo, closing, stage, list>>
    BY <1>5, <2>1 DEF PutFetched
  <2>3. i \in DOMAIN list[r]
    <3>1. left[r] \subseteq DOMAIN list[r] /\ list[r] \in Seq(Entry)
      BY <1>1 DEF TypeOK
    <3>2. left[r] \in SUBSET Nat
      BY <3>1
    <3>3. \E j \in left[r] : \A k \in left[r] : j <= k
      BY <2>2, <3>2, LeastNat
    <3>4. i \in left[r]
      BY <2>1, <3>3
    <3>5. QED
      BY <3>1, <3>4
  <2>4. PICK e \in Entry : e = list[r][i]
    BY <1>1, <2>3 DEF TypeOK
  <2>5. cache' \in [Services -> Values \cup {Absent}]
    BY <1>1, <2>2, <2>4 DEF PutServer, TypeOK, Entry
  <2>6. TypeOK'
    BY <1>1, <2>2, <2>5 DEF TypeOK
  <2>7. QED
    BY <1>1, <1>2, <2>2, <2>6
<1>6. CASE GotService(r)
  <2>1. /\ stage[r] = "putting" /\ stage' = [stage EXCEPT ![r] = "listed"]
        /\ UNCHANGED <<etcdVars, loopVars, list, left>>
    BY <1>6 DEF GotService
  <2>2. TypeOK'
    BY <1>1, <2>1 DEF TypeOK
  <2>3. stage'[r] = "listed" /\ \A q \in Requests : q # r => stage'[q] = stage[q]
    BY <1>1, <2>1 DEF TypeOK
  <2>4. QED
    BY <1>1, <1>2, <2>1, <2>2, <2>3
<1>7. Calm'
  BY <1>3, <1>4, <1>5, <1>6 DEF GetService
<1>8. \A q \in Requests : stage[q] = "done" => list'[q] = list[q]
  BY <1>1 DEF GetService, Fetch, FetchFails, PutFetched, GotService, TypeOK
<1>9. QED
  BY <1>7, <1>8

\* So does a change of etcd.
LEMMA EtcdStep ==
  ASSUME Calm, UNCHANGED balanceVars,
         \/ \E s \in Services, v \in Values \cup {Absent, Garbled} : StoreChanges(s, v)
         \/ EtcdComesAndGoes
  PROVE  Calm' /\ list' = list
<1>1. TypeOK
  BY DEF Calm, NextTargetTypeOK
<1>2. TypeOK' /\ UNCHANGED callVars
  <2>1. ASSUME NEW s \in Services, NEW v \in Values \cup {Absent, Garbled},
               StoreChanges(s, v)
        PROVE  TypeOK' /\ UNCHANGED callVars
    <3> DEFINE deleted == [type |-> "delete", name |-> s, value |-> Garbled]
               written == [type |-> "put", name |-> s, value |-> v]
    <3>1. /\ changes < MaxChanges /\ changes' = changes + 1
          /\ store' = [store EXCEPT ![s] = v]
          /\ UNCHANGED <<wch, up, loopVars, callVars>>
      BY <2>1 DEF StoreChanges
    <3>2. deleted \in Event /\ (v # Absent => written \in Event)
      BY DEF Event
    <3>3. \/ events' = events
          \/ events' = Append(events, deleted)
          \/ v # Absent /\ events' = Append(events, written)
      BY <2>1 DEF StoreChanges
    <3> HIDE DEF deleted, written
    <3>4. events' \in Seq(Event)
      <4>1. events \in Seq(Event)
        BY <1>1 DEF TypeOK
      <4>2. events' = events \/ \E e \in Event : events' = Append(events, e)
        BY <3>2, <3>3
      <4>3. QED
        BY <4>1, <4>2
    <3>5. changes' \in 0..MaxChanges
      BY <1>1, <3>1, MaxChangesAssumption DEF TypeOK
    <3>6. store' \in [Services -> Values \cup {Absent, Garbled}]
      BY <1>1, <3>1 DEF TypeOK
    <3>7. QED
      BY <1>1, <3>1, <3>4, <3>5, <3>6 DEF TypeOK, loopVars, callVars
  <2>2. CASE EtcdComesAndGoes
    BY <1>1, <2>2 DEF EtcdComesAndGoes, TypeOK, loopVars, callVars
  <2>3. QED
    BY <2>1, <2>2
<1>3. NextTargetTypeOK'
  BY <1>2 DEF Calm, NextTargetTypeOK, callVars, balanceVars
<1>4. QED
  BY <1>2, <1>3 DEF Calm, callVars, balanceVars

\* A request that ends.
LEMMA EndStep ==
  ASSUME Calm, NEW r \in Requests, NEW what \in Results,
         stage' = [stage EXCEPT ![r] = "done"],
         result' = [result EXCEPT ![r] = what],
         UNCHANGED <<etcdVars, loopVars, list, left, scheme>>,
         count' \in 0..(2 * Half - 1),
         \/ picked' = picked
         \/ \E i \in DOMAIN list[r] : picked' = [picked EXCEPT ![r] = i]
  PROVE  Calm'
<1> USE DEF etcdVars, loopVars
<1>1. NextTargetTypeOK /\ TypeOK
  BY DEF Calm, NextTargetTypeOK
<1>2. TypeOK'
  BY <1>1 DEF TypeOK
<1>3. /\ stage'[r] = "done"
      /\ \A q \in Requests : q # r => /\ stage'[q] = stage[q]
                                      /\ picked'[q] = picked[q]
                                      /\ result'[q] = result[q]
  BY <1>1 DEF TypeOK, NextTargetTypeOK
<1>4. DOMAIN list[r] \subseteq Nat
  BY <1>1 DEF TypeOK
<1>5. /\ picked' \in [Requests -> Nat \cup {None}]
      /\ picked'[r] \in {None} \cup DOMAIN list[r]
  BY <1>1, <1>4 DEF NextTargetTypeOK
<1>6. ASSUME NEW q \in Requests PROVE picked'[q] \in {None} \cup DOMAIN list'[q]
  <2>1. CASE q = r
    BY <1>5, <2>1
  <2>2. CASE q # r
    BY <1>1, <1>3, <2>2 DEF NextTargetTypeOK
  <2>3. QED
    BY <2>1, <2>2
<1>7. NextTargetTypeOK'
  BY <1>1, <1>2, <1>5, <1>6 DEF NextTargetTypeOK
<1>8. \A q \in Requests : stage'[q] # "done" => picked'[q] = None /\ result'[q] = "none"
  BY <1>3 DEF Calm
<1>9. QED
  BY <1>7, <1>8 DEF Calm

\* Parsing an address does not panic.
LEMMA ParseFacts ==
  ASSUME NEW r \in Requests, NEW i, Parse(r, i)
  PROVE  \E what \in Results : what # "panic" /\ result' = [result EXCEPT ![r] = what]
BY DEF Parse, Returns, Results

\* What picks in turn.
LEMMA PickInTurnFacts ==
  ASSUME Calm, NEW r \in Requests, PickInTurn(r)
  PROVE  /\ stage[r] = "listed" /\ stage' = [stage EXCEPT ![r] = "done"]
         /\ UNCHANGED <<etcdVars, loopVars, list, left, scheme>>
         /\ scheme = "round_robin" /\ list[r] # <<>>
         /\ count' = AddOne(count) /\ count' \in 0..(2 * Half - 1)
         /\ Len(list[r]) \in Nat \ {0} /\ DOMAIN list[r] = 1..Len(list[r])
         /\ \/ /\ ToInt(count') < 0
               /\ result' = [result EXCEPT ![r] = "panic"]
               /\ UNCHANGED picked
            \/ \E c \in 0..(Len(list[r]) - 1), what \in Results \ {"panic"} :
                 /\ c = ToInt(count') % Len(list[r])
                 /\ c = IF ToInt(count) % Len(list[r]) = Len(list[r]) - 1 THEN 0
                        ELSE (ToInt(count) % Len(list[r])) + 1
                 /\ picked' = [picked EXCEPT ![r] = c + 1]
                 /\ result' = [result EXCEPT ![r] = what]
<1>1. /\ Ends(r) /\ scheme = "round_robin" /\ list[r] # <<>>
      /\ count' = AddOne(count)
  BY DEF PickInTurn
<1>2. PICK n : n = Len(list[r])
  OBVIOUS
<1>3. PICK x : x = RoundRobinIndex(AddOne(count), n)
  OBVIOUS
<1>4. \/ /\ x + 1 \in DOMAIN list[r]
         /\ picked' = [picked EXCEPT ![r] = x + 1]
         /\ Parse(r, x + 1)
      \/ /\ x + 1 \notin DOMAIN list[r]
         /\ UNCHANGED picked
         /\ result' = [result EXCEPT ![r] = "panic"]
  BY <1>2, <1>3 DEF PickInTurn, Returns
<1>5. list[r] \in Seq(Entry) /\ count \in 0..(2 * Half - 1)
  BY DEF Calm, NextTargetTypeOK, TypeOK
<1>6. n \in Nat /\ n > 0 /\ DOMAIN list[r] = 1..n
  BY <1>1, <1>2, <1>5
<1>7. count' \in 0..(2 * Half - 1) /\ ToInt(count') \in Int
  BY <1>1, <1>5, CounterFacts
<1>8. /\ ToInt(count') >= 0 => x \in 0..(n - 1)
      /\ x \in 0..(n - 1) =>
           /\ x = ToInt(count') % n
           /\ x = IF ToInt(count) % n = n - 1 THEN 0 ELSE (ToInt(count) % n) + 1
  BY <1>1, <1>3, <1>5, <1>6, IndexFacts
<1>9. CASE x \in 0..(n - 1)
  <2>1. x + 1 \in DOMAIN list[r]
    BY <1>6, <1>9
  <2>2. PICK what \in Results \ {"panic"} : result' = [result EXCEPT ![r] = what]
    BY <1>4, <2>1, ParseFacts
  <2>3. /\ picked' = [picked EXCEPT ![r] = x + 1]
        /\ x = ToInt(count') % n
        /\ x = IF ToInt(count) % n = n - 1 THEN 0 ELSE (ToInt(count) % n) + 1
    BY <1>4, <1>8, <1>9, <2>1
  <2>4. /\ stage[r] = "listed" /\ stage' = [stage EXCEPT ![r] = "done"]
        /\ UNCHANGED <<etcdVars, loopVars, list, left, scheme>>
    BY <1>1 DEF Ends
  <2>5. \E c \in 0..(n - 1), w \in Results \ {"panic"} :
          /\ c = ToInt(count') % n
          /\ c = IF ToInt(count) % n = n - 1 THEN 0 ELSE (ToInt(count) % n) + 1
          /\ picked' = [picked EXCEPT ![r] = c + 1]
          /\ result' = [result EXCEPT ![r] = w]
    BY <1>9, <2>2, <2>3
  <2>6. n \in Nat \ {0}
    BY <1>6
  <2>7. QED
    BY <1>1, <1>2, <1>6, <1>7, <2>4, <2>5, <2>6, Zenon
<1>10. CASE x \notin 0..(n - 1)
  <2>1. x \in Int
    <3>1. ToInt(AddOne(count)) \in Int
      BY <1>1, <1>7
    <3>2. PICK a \in Int : a = ToInt(AddOne(count))
      BY <3>1
    <3>3. a % n \in 0..(n - 1) /\ (-a) % n \in 0..(n - 1)
      BY <1>6, ModFacts
    <3>4. QED
      BY <1>3, <3>2, <3>3 DEF RoundRobinIndex, Remainder
  <2>2. x + 1 \notin DOMAIN list[r]
    BY <1>6, <1>10, <2>1
  <2>3. ToInt(count') < 0
    BY <1>7, <1>8, <1>10
  <2>4. QED
    BY <1>1, <1>2, <1>4, <1>6, <1>7, <2>2, <2>3 DEF Ends
<1>11. QED
  BY <1>9, <1>10

\* The other schemes, and every failure, keep the types.
LEMMA TargetStep ==
  ASSUME Calm, NEW r \in Requests, Target(r)
  PROVE  Calm' /\ UNCHANGED <<list, scheme>>
<1>1. ASSUME NEW from, NEW what \in Results, Leaves(r, from, what)
      PROVE  Calm' /\ UNCHANGED <<list, scheme>>
  <2>1. /\ stage' = [stage EXCEPT ![r] = "done"]
        /\ result' = [result EXCEPT ![r] = what]
        /\ UNCHANGED <<etcdVars, loopVars, list, left, scheme>>
        /\ count' = count /\ picked' = picked
    BY <1>1 DEF Leaves, Returns
  <2>2. count \in 0..(2 * Half - 1)
    BY DEF Calm, NextTargetTypeOK
  <2>3. QED
    BY <2>1, <2>2, EndStep
<1>2. CASE TakeHeader(r) \/ GetServiceFailed(r) \/ GetIPAddrFails(r)
  <2>1. {"header", "badheader", "geterror", "badclient"} \subseteq Results
    BY DEF Results
  <2>2. QED
    BY <1>1, <1>2, <2>1 DEF TakeHeader, GetServiceFailed, GetIPAddrFails
<1>3. CASE PickNone(r) \/ PickByHash(r)
  <2>1. /\ stage' = [stage EXCEPT ![r] = "done"]
        /\ result' = [result EXCEPT ![r] = "empty"]
        /\ UNCHANGED <<etcdVars, loopVars, list, left, scheme>>
        /\ count' = count /\ picked' = picked
    BY <1>3 DEF PickNone, PickByHash, Ends, Returns
  <2>2. count \in 0..(2 * Half - 1) /\ "empty" \in Results
    BY DEF Calm, NextTargetTypeOK, Results
  <2>3. QED
    BY <2>1, <2>2, EndStep
<1>4. CASE PickInTurn(r)
  <2>1. PICK what \in Results : result' = [result EXCEPT ![r] = what]
    <3>1. "panic" \in Results
      BY DEF Results
    <3>2. QED
      BY <1>4, <3>1, PickInTurnFacts
  <2>2. \/ picked' = picked
        \/ \E i \in DOMAIN list[r] : picked' = [picked EXCEPT ![r] = i]
    <3>1. /\ Len(list[r]) \in Nat \ {0} /\ DOMAIN list[r] = 1..Len(list[r])
          /\ \/ UNCHANGED picked
             \/ \E c \in 0..(Len(list[r]) - 1) : picked' = [picked EXCEPT ![r] = c + 1]
      BY <1>4, PickInTurnFacts
    <3>2. \A c \in 0..(Len(list[r]) - 1) : c + 1 \in DOMAIN list[r]
      BY <3>1
    <3>3. QED
      BY <3>1, <3>2
  <2>3. /\ stage' = [stage EXCEPT ![r] = "done"]
        /\ UNCHANGED <<etcdVars, loopVars, list, left, scheme>>
        /\ count' \in 0..(2 * Half - 1)
    BY <1>4, PickInTurnFacts
  <2>4. QED
    BY <2>1, <2>2, <2>3, EndStep
<1>5. CASE PickByWeight(r)
  <2> DEFINE S == DOMAIN list[r]
             weigh == [i \in S |-> WeightOf[list[r][i].value]]
             raised == Raised([i \in S |-> 0], weigh, S)
  <2>1. PICK b : b = Best(raised, S)
    OBVIOUS
  <2>2. /\ stage' = [stage EXCEPT ![r] = "done"] /\ list[r] # <<>>
        /\ UNCHANGED <<etcdVars, loopVars, list, left, scheme>>
        /\ picked' = [picked EXCEPT ![r] = b] /\ Parse(r, b)
        /\ count' = count
    BY <1>5, <2>1 DEF PickByWeight, Ends
  <2>3. /\ list[r] \in Seq(Entry) /\ count \in 0..(2 * Half - 1)
        /\ Len(list[r]) \in Nat /\ S = 1..Len(list[r])
    BY DEF Calm, NextTargetTypeOK, TypeOK
  <2>4. \A i \in S : i \in Int /\ list[r][i] \in Entry
    BY <2>3
  <2>5. \A i \in S : raised[i] \in Int
    BY <2>4, WeightOfAssumption DEF Raised, Entry
  <2>6. IsFiniteSet(S) /\ S # {}
    <3>1. Len(list[r]) # 0
      BY <2>2, <2>3
    <3>2. PICK n \in Nat : n = Len(list[r]) /\ S = 1..n /\ n # 0
      BY <2>3, <3>1
    <3>3. IsFiniteSet(1..n) /\ 1 \in 1..n
      BY <3>2, FS_Interval
    <3>4. QED
      BY <3>2, <3>3
  <2> HIDE DEF S, raised
  <2>7. b \in S
    BY <2>1, <2>4, <2>5, <2>6, BestFacts
  <2>8. PICK what \in Results : result' = [result EXCEPT ![r] = what]
    BY <2>2, ParseFacts
  <2>9. QED
    BY <2>2, <2>3, <2>7, <2>8, EndStep DEF S
<1>6. QED
  BY <1>2, <1>3, <1>4, <1>5 DEF Target

-----------------------------------------------------------------------------
(* ... and to the turns.                                                   *)

\* Without a turn taken, the shares stay balanced.
LEMMA QuietStep ==
  ASSUME NextTargetInv, UNCHANGED <<scheme, picked>>,
         count' = count \/ scheme # "round_robin",
         \A q \in Served : list'[q] = list[q],
         NoPanic' => NoPanic
  PROVE  IsFiniteSet(Served') /\ Balanced'
<1>1. Served' = Served
  BY DEF Served
<1>2. IsFiniteSet(Served')
  BY <1>1 DEF NextTargetInv
<1>3. ASSUME scheme = "round_robin", SameList', NoPanic', NEW r \in Served
      PROVE  InTurn(list[r])'
  <2>1. SameList
    BY <1>1, <1>3 DEF SameList
  <2>2. PICK l : l = list[r]
    OBVIOUS
  <2>3. InTurn(l)
    BY <1>3, <2>1, <2>2 DEF NextTargetInv, Balanced
  <2>4. \A s : Turns(s)' = Turns(s)
    <3> TAKE s
    <3>1. {q \in Served' : list'[q][picked'[q]].name = s}
            = {q \in Served : list[q][picked[q]].name = s}
      BY <1>1
    <3>2. QED
      BY <3>1 DEF Turns
  <2>5. ToInt(count)' = ToInt(count)
    BY <1>3 DEF ToInt
  <2>6. InTurn(l)'
    BY <2>3, <2>4, <2>5 DEF InTurn
  <2>7. list'[r] = l
    BY <2>2
  <2>8. QED
    BY <2>6, <2>7 DEF InTurn
<1>4. QED
  BY <1>1, <1>2, <1>3 DEF Balanced

\* A turn makes the one picked the youngest, and everyone else older by one.
LEMMA AgeFacts ==
  ASSUME NEW n \in Nat, n > 0, NEW c \in 0..(n - 1), NEW o \in 0..(n - 1),
         c = IF o = n - 1 THEN 0 ELSE o + 1
  PROVE  \A i \in 1..n : /\ Age(o, n, i) \in 0..(n - 1)
                         /\ i = c + 1 => Age(c, n, i) = 0 /\ Age(o, n, i) = n - 1
                         /\ i # c + 1 => Age(c, n, i) = Age(o, n, i) + 1
BY DEF Age

\* A turn goes to the one behind, and keeps the balance.
LEMMA PickStep ==
  ASSUME NextTargetInv, NEW r \in Requests, PickInTurn(r)
  PROVE  IsFiniteSet(Served') /\ Balanced'
<1>1. /\ stage[r] = "listed" /\ UNCHANGED <<list, scheme>>
      /\ picked[r] = None /\ result[r] = "none"
      /\ picked \in [Requests -> Nat \cup {None}] /\ result \in [Requests -> Results]
  <2>1. Calm /\ stage[r] = "listed" /\ UNCHANGED <<list, scheme>>
    BY PickInTurnFacts DEF NextTargetInv
  <2>2. QED
    BY <2>1 DEF Calm, NextTargetTypeOK
<1>2. PICK l, n : l = list[r] /\ n = Len(l)
  OBVIOUS
<1>3. n \in Nat /\ n > 0 /\ DOMAIN l = 1..n /\ OneOfEach(l)
  <2>1. Len(list[r]) \in Nat \ {0} /\ DOMAIN list[r] = 1..Len(list[r])
    BY PickInTurnFacts DEF NextTargetInv
  <2>2. QED
    BY <1>2, <2>1 DEF NextTargetInv, Calm
<1>4. CASE result' = [result EXCEPT ![r] = "panic"] /\ UNCHANGED picked
  <2>1. ~NoPanic'
    BY <1>1, <1>4 DEF NoPanic
  <2>2. Served' = Served
    BY <1>4 DEF Served
  <2>3. QED
    BY <2>1, <2>2 DEF NextTargetInv, Balanced
<1>5. ASSUME NEW c \in 0..(n - 1), NEW what \in Results \ {"panic"},
             c = ToInt(count') % n,
             c = IF ToInt(count) % n = n - 1 THEN 0 ELSE (ToInt(count) % n) + 1,
             picked' = [picked EXCEPT ![r] = c + 1],
             result' = [result EXCEPT ![r] = what]
      PROVE  IsFiniteSet(Served') /\ Balanced'
  <2>1. /\ c + 1 \in DOMAIN l /\ c + 1 # None
        /\ picked'[r] = c + 1
        /\ \A q \in Requests : q # r => picked'[q] = picked[q] /\ result'[q] = result[q]
    BY <1>1, <1>3, <1>5 DEF None
  <2>2. Served' = Served \cup {r} /\ r \notin Served
    BY <1>1, <2>1 DEF Served
  <2>3. IsFiniteSet(Served)
    BY DEF NextTargetInv
  <2>4. IsFiniteSet(Served')
    BY <2>2, <2>3, FS_AddElement
  <2> SUFFICES ASSUME scheme = "round_robin", SameList', NoPanic'
               PROVE  \A q \in Served' : InTurn(list[q])'
    BY <1>1, <2>4 DEF Balanced
  \* All the lists are l.
  <2>5. \A q \in Served' : list'[q] = l
    BY <1>1, <1>2, <2>2 DEF SameList
  <2>6. SameList /\ NoPanic
    <3>1. SameList
      BY <1>1, <2>2 DEF SameList
    <3>2. NoPanic
      BY <1>1, <2>1 DEF NoPanic
    <3>3. QED
      BY <3>1, <3>2
  \* The turns so far, and the new one.
  <2> DEFINE turned(s) == {q \in Served : list[q][picked[q]].name = s}
  <2>7. \A s : IsFiniteSet(turned(s)) /\ Turns(s) = Cardinality(turned(s)) /\ Turns(s) \in Nat
    BY <2>3, FS_Subset, FS_CardinalityType DEF Turns
  <2>8. ASSUME NEW i \in DOMAIN l
        PROVE  Turns(l[i].name)' =
                 IF i = c + 1 THEN Turns(l[i].name) + 1 ELSE Turns(l[i].name)
    <3> DEFINE s == l[i].name
    <3>1. Turns(s)' = Cardinality({q \in Served' : list'[q][picked'[q]].name = s})
      BY DEF Turns
    <3>2. {q \in Served' : list'[q][picked'[q]].name = s}
            = turned(s) \cup {q \in {r} : l[c + 1].name = s}
      <4>1. \A q \in Served : q # r /\ list'[q] = list[q] /\ picked'[q] = picked[q]
        BY <1>1, <2>1, <2>2 DEF Served
      <4>2. list'[r] = l /\ picked'[r] = c + 1
        BY <1>1, <1>2, <2>1
      <4>3. QED
        BY <2>2, <4>1, <4>2
    <3>3. l[c + 1].name = s <=> i = c + 1
      BY <1>3, <2>1 DEF OneOfEach
    <3>4. r \notin turned(s)
      BY <2>2
    <3> HIDE DEF turned, s
    <3>5. CASE i = c + 1
      <4>1. {q \in {r} : l[c + 1].name = s} = {r}
        BY <3>3, <3>5
      <4>2. Cardinality(turned(s) \cup {r}) = Cardinality(turned(s)) + 1
        BY <2>7, <3>4, FS_AddElement
      <4>3. QED
        BY <2>7, <3>1, <3>2, <3>5, <4>1, <4>2 DEF s
    <3>6. CASE i # c + 1
      <4>1. {q \in {r} : l[c + 1].name = s} = {}
        BY <3>3, <3>6
      <4>2. QED
        BY <2>7, <3>1, <3>2, <3>6, <4>1 DEF s
    <3>7. QED
      BY <3>5, <3>6
  <2> HIDE DEF turned
  \* The order before the pick ...
  <2>9. PICK o \in 0..(n - 1) : o = ToInt(count) % n
    <3>1. ToInt(count) \in Int
      BY CounterFacts DEF NextTargetInv, Calm, NextTargetTypeOK
    <3>2. QED
      BY <1>3, <3>1, ModFacts
  <2>10. ASSUME NEW i \in DOMAIN l, NEW j \in DOMAIN l, Age(o, n, i) <= Age(o, n, j)
         PROVE  /\ Turns(l[j].name) <= Turns(l[i].name)
                /\ Turns(l[i].name) <= Turns(l[j].name) + 1
    <3>1. CASE Served = {}
      <4>1. \A s : Turns(s) = Cardinality({})
        BY <3>1 DEF Turns
      <4>2. Cardinality({}) = 0
        BY FS_EmptySet
      <4>3. QED
        BY <4>1, <4>2
    <3>2. CASE Served # {}
      <4>1. PICK q \in Served : TRUE
        BY <3>2
      <4>2. list[q] = l
        BY <1>1, <2>2, <2>5
      <4>3. InTurn(list[q])
        BY <2>6 DEF NextTargetInv, Balanced
      <4>4. InTurn(l)
        BY <4>2, <4>3
      <4>5. QED
        BY <1>2, <2>9, <2>10, <4>4 DEF InTurn
    <3>3. QED
      BY <3>1, <3>2
  \* ... and after it.
  <2>11. \A i \in DOMAIN l : /\ Age(o, n, i) \in 0..(n - 1)
                             /\ i = c + 1 => Age(c, n, i) = 0 /\ Age(o, n, i) = n - 1
                             /\ i # c + 1 => Age(c, n, i) = Age(o, n, i) + 1
    <3>1. c = IF o = n - 1 THEN 0 ELSE o + 1
      BY <1>5, <2>9
    <3>2. PICK m \in Nat : m = n /\ m > 0
      BY <1>3
    <3>3. /\ c \in 0..(m - 1) /\ o \in 0..(m - 1)
          /\ c = IF o = m - 1 THEN 0 ELSE o + 1
      BY <3>1, <3>2
    <3>4. \A i \in 1..m : /\ Age(o, m, i) \in 0..(m - 1)
                          /\ i = c + 1 => Age(c, m, i) = 0 /\ Age(o, m, i) = m - 1
                          /\ i # c + 1 => Age(c, m, i) = Age(o, m, i) + 1
      BY <3>2, <3>3, AgeFacts
    <3>5. QED
      BY <1>3, <3>2, <3>4
  <2>12. ASSUME NEW i \in DOMAIN l, NEW j \in DOMAIN l, Age(c, n, i) <= Age(c, n, j)
         PROVE  /\ Turns(l[j].name)' <= Turns(l[i].name)'
                /\ Turns(l[i].name)' <= Turns(l[j].name)' + 1
    <3>1. PICK a \in Nat, b \in Nat : a = Turns(l[i].name) /\ b = Turns(l[j].name)
      BY <2>7
    <3>2. /\ Turns(l[i].name)' = IF i = c + 1 THEN a + 1 ELSE a
          /\ Turns(l[j].name)' = IF j = c + 1 THEN b + 1 ELSE b
      BY <2>8, <3>1
    <3>3. CASE i = c + 1
      <4>1. Age(o, n, j) <= Age(o, n, i)
        BY <1>3, <2>11, <3>3
      <4>2. a <= b /\ b <= a + 1
        BY <2>10, <3>1, <4>1
      <4>3. QED
        BY <3>1, <3>2, <3>3, <4>2
    <3>4. CASE i # c + 1
      <4>1. j # c + 1 /\ Age(o, n, i) <= Age(o, n, j)
        BY <2>11, <2>12, <3>4
      <4>2. b <= a /\ a <= b + 1
        BY <2>10, <3>1, <4>1
      <4>3. QED
        BY <3>1, <3>2, <3>4, <4>1, <4>2
    <3>5. QED
      BY <3>3, <3>4
  <2>13. InTurn(l)'
    <3>1. ToInt(count)' % n = c
      BY <1>5 DEF ToInt
    <3>2. QED
      BY <1>2, <2>12, <3>1 DEF InTurn
  <2>14. QED
    BY <2>5, <2>13 DEF InTurn
<1>6. QED
  <2>1. \/ result' = [result EXCEPT ![r] = "panic"] /\ UNCHANGED picked
        \/ \E c \in 0..(n - 1), what \in Results \ {"panic"} :
             /\ c = ToInt(count') % n
             /\ c = IF ToInt(count) % n = n - 1 THEN 0 ELSE (ToInt(count) % n) + 1
             /\ picked' = [picked EXCEPT ![r] = c + 1]
             /\ result' = [result EXCEPT ![r] = what]
    <3>1. Calm
      BY DEF NextTargetInv
    <3>2. \/ /\ ToInt(count') < 0
             /\ result' = [result EXCEPT ![r] = "panic"]
             /\ UNCHANGED picked
          \/ \E c \in 0..(Len(list[r]) - 1), what \in Results \ {"panic"} :
               /\ c = ToInt(count') % Len(list[r])
               /\ c = IF ToInt(count) % Len(list[r]) = Len(list[r]) - 1 THEN 0
                      ELSE (ToInt(count) % Len(list[r])) + 1
               /\ picked' = [picked EXCEPT ![r] = c + 1]
               /\ result' = [result EXCEPT ![r] = what]
      BY <3>1, PickInTurnFacts
    <3>3. Len(list[r]) = n
      BY <1>2
    <3>4. QED
      BY <3>2, <3>3, Zenon
  <2>2. QED
    BY <1>4, <1>5, <2>1

\* The invariant is inductive.
LEMMA NextTargetStep ==
  ASSUME NextTargetInv, [NextTargetNext]_nextTargetVars
  PROVE  NextTargetInv'
<1>1. Calm /\ \A q \in Served : stage[q] = "done"
  BY DEF NextTargetInv, Calm, Served
<1>2. ASSUME UNCHANGED balanceVars, \A q \in Served : list'[q] = list[q]
      PROVE  IsFiniteSet(Served') /\ Balanced'
  BY <1>2, QuietStep DEF balanceVars, NoPanic
<1>3. CASE UNCHANGED nextTargetVars
  <2>1. UNCHANGED <<discoveryVars, balanceVars>>
    BY <1>3 DEF nextTargetVars
  <2>2. Calm'
    BY <1>1, <2>1 DEF Calm, NextTargetTypeOK, TypeOK, discoveryVars, balanceVars
  <2>3. list' = list
    BY <2>1 DEF discoveryVars
  <2>4. QED
    BY <1>2, <2>1, <2>2, <2>3 DEF NextTargetInv
<1>4. ASSUME UNCHANGED balanceVars, NEW r \in Requests, GetService(r)
      PROVE  NextTargetInv'
  <2>1. Calm' /\ \A q \in Requests : stage[q] = "done" => list'[q] = list[q]
    BY <1>1, <1>4, GetServiceStep
  <2>2. QED
    BY <1>1, <1>2, <1>4, <2>1 DEF NextTargetInv, Served
<1>5. ASSUME UNCHANGED balanceVars,
             \/ \E s \in Services, v \in Values \cup {Absent, Garbled} :
                  StoreChanges(s, v)
             \/ EtcdComesAndGoes
      PROVE  NextTargetInv'
  <2>1. Calm' /\ list' = list
    BY <1>1, <1>5, EtcdStep
  <2>2. QED
    BY <1>2, <1>5, <2>1 DEF NextTargetInv
<1>6. ASSUME NEW r \in Requests, Target(r) PROVE NextTargetInv'
  <2>1. Calm' /\ UNCHANGED <<list, scheme>>
    BY <1>1, <1>6, TargetStep
  <2>2. CASE PickInTurn(r)
    BY <2>1, <2>2, PickStep DEF NextTargetInv
  <2>3. ASSUME UNCHANGED <<picked, count>>,
               NEW what \in Results, what # "panic",
               result' = [result EXCEPT ![r] = what], result[r] = "none"
        PROVE  NextTargetInv'
    <3>1. NoPanic' => NoPanic
      BY <1>1, <2>3 DEF NoPanic, Calm, NextTargetTypeOK
    <3>2. QED
      BY <2>1, <2>3, <3>1, QuietStep DEF NextTargetInv
  <2>4. ASSUME NEW from, NEW what \in Results, what # "panic", from # "done",
               Leaves(r, from, what)
        PROVE  NextTargetInv'
    <3>1. /\ stage[r] # "done" /\ UNCHANGED <<picked, count>>
          /\ result' = [result EXCEPT ![r] = what]
      BY <2>4 DEF Leaves, Returns
    <3>2. result[r] = "none"
      BY <1>1, <3>1 DEF Calm
    <3>3. QED
      BY <2>3, <2>4, <3>1, <3>2
  <2>5. CASE TakeHeader(r) \/ GetServiceFailed(r) \/ GetIPAddrFails(r)
    <3>1. {"header", "badheader", "geterror", "badclient"} \subseteq Results \ {"panic"}
      BY DEF Results
    <3>2. QED
      BY <2>4, <2>5, <3>1 DEF TakeHeader, GetServiceFailed, GetIPAddrFails
  <2>6. CASE PickNone(r) \/ PickByHash(r)
    <3>1. /\ stage[r] # "done" /\ UNCHANGED <<picked, count>>
          /\ result' = [result EXCEPT ![r] = "empty"]
      BY <2>6 DEF PickNone, PickByHash, Ends, Returns
    <3>2. result[r] = "none" /\ "empty" \in Results
      BY <1>1, <3>1 DEF Calm, Results
    <3>3. QED
      BY <2>3, <3>1, <3>2
  <2>7. CASE PickByWeight(r)
    <3>1. scheme # "round_robin" /\ scheme' # "round_robin"
      BY <2>1, <2>7 DEF PickByWeight
    <3>2. PICK b : picked' = [picked EXCEPT ![r] = b]
      BY <2>7 DEF PickByWeight
    <3>3. Served' \subseteq Served \cup {r} /\ IsFiniteSet(Served)
      BY <1>1, <3>2 DEF Served, Calm, NextTargetTypeOK, NextTargetInv
    <3>4. IsFiniteSet(Served \cup {r})
      BY <3>3, FS_AddElement
    <3>5. IsFiniteSet(Served')
      BY <3>3, <3>4, FS_Subset
    <3>6. QED
      BY <2>1, <3>1, <3>5 DEF NextTargetInv, Balanced
  <2>8. QED
    BY <1>6, <2>2, <2>5, <2>6, <2>7 DEF Target
<1>7. QED
  BY <1>3, <1>4, <1>5, <1>6 DEF NextTargetNext

\* Balanced shares differ by one at most.
LEMMA BalancedIsShared ==
  ASSUME NextTargetInv
  PROVE  SharedEvenly
<1> SUFFICES ASSUME scheme = "round_robin", SameList, NoPanic, NEW r \in Served,
                    NEW i \in DOMAIN list[r], NEW j \in DOMAIN list[r]
             PROVE  Turns(list[r][i].name) <= Turns(list[r][j].name) + 1
  BY DEF SharedEvenly, NoPanic
<1>1. PICK l : l = list[r]
  OBVIOUS
<1>2. InTurn(l)
  BY <1>1 DEF NextTargetInv, Balanced
<1>3. \A s : Turns(s) \in Nat
  <2> TAKE s
  <2>1. IsFiniteSet({q \in Served : list[q][picked[q]].name = s})
    BY FS_Subset DEF NextTargetInv
  <2>2. QED
    BY <2>1, FS_CardinalityType DEF Turns
<1>4. PICK n, o : n = Len(l) /\ o = ToInt(count) % n
  OBVIOUS
<1>5. /\ l \in Seq(Entry) /\ n \in Nat /\ i \in 1..n /\ j \in 1..n
      /\ count \in 0..(2 * Half - 1)
  BY <1>1, <1>4 DEF NextTargetInv, Calm, NextTargetTypeOK, TypeOK, Served
<1>6. o \in Int
  BY <1>4, <1>5, CounterFacts, ModFacts
<1>7. Age(o, n, i) \in Int /\ Age(o, n, j) \in Int
  BY <1>5, <1>6 DEF Age
<1>8. CASE Age(o, n, i) <= Age(o, n, j)
  BY <1>1, <1>2, <1>4, <1>8 DEF InTurn
<1>9. CASE Age(o, n, j) <= Age(o, n, i)
  <2>1. Turns(l[i].name) <= Turns(l[j].name)
    BY <1>1, <1>2, <1>4, <1>9 DEF InTurn
  <2>2. PICK a \in Nat, b \in Nat : a = Turns(l[i].name) /\ b = Turns(l[j].name)
    BY <1>3
  <2>3. a <= b + 1
    BY <2>1, <2>2
  <2>4. QED
    BY <1>1, <2>2, <2>3
<1>10. QED
  BY <1>7, <1>8, <1>9

\* A pick panics only on a list that is there, beyond the largest int.
LEMMA PanicStep ==
  ASSUME NextTargetInv, NextTargetNext, NEW r \in Requests,
         result[r] # "panic", result'[r] = "panic"
  PROVE  scheme = "round_robin" /\ list[r] # <<>> /\ ToInt(count') < 0
<1>1. Calm /\ result \in [Requests -> Results]
  BY DEF NextTargetInv, Calm, NextTargetTypeOK
<1>2. PICK q \in Requests : Target(q)
  BY DEF NextTargetNext, balanceVars
<1>3. ASSUME NEW what \in Results, what # "panic", result' = [result EXCEPT ![q] = what]
      PROVE  FALSE
  BY <1>1, <1>3
<1>4. ~PickNone(q) /\ ~PickByHash(q)
  BY <1>3 DEF PickNone, PickByHash, Returns, Results
<1>5. ~PickByWeight(q)
  BY <1>3, ParseFacts DEF PickByWeight
<1>6. ~(TakeHeader(q) \/ GetServiceFailed(q) \/ GetIPAddrFails(q))
  BY <1>3 DEF TakeHeader, GetServiceFailed, GetIPAddrFails, Leaves, Returns, Results
<1>7. PickInTurn(q)
  BY <1>2, <1>4, <1>5, <1>6 DEF Target
<1>8. scheme = "round_robin" /\ list[q] # <<>>
  BY <1>1, <1>7, PickInTurnFacts
<1>9. result' = [result EXCEPT ![q] = "panic"] /\ ToInt(count') < 0
  BY <1>1, <1>3, <1>7, PickInTurnFacts
<1>10. q = r
  BY <1>1, <1>9
<1>11. QED
  BY <1>8, <1>9, <1>10

-----------------------------------------------------------------------------
(* The ring.                                                               *)

IsSorted(s) == \A i, j \in DOMAIN s : i <= j => s[i] <= s[j]

\* Sorted sorts: the same places, in order.
LEMMA SortedFacts ==
  ASSUME NEW s \in Seq(Ring)
  PROVE  /\ Sorted(s) \in Seq(Ring) /\ IsSorted(Sorted(s))
         /\ Range(Sorted(s)) = Range(s)
<1> DEFINE upTo == [i \in DOMAIN s |->
                      {j \in DOMAIN s : s[j] < s[i] \/ (s[j] = s[i] /\ j <= i)}]
<1>1. PICK n \in Nat : n = Len(s) /\ DOMAIN s = 1..n
  OBVIOUS
<1>2. \A i \in 1..n : s[i] \in Ring /\ s[i] \in Int
  BY <1>1, HashRingAssumption DEF Ring
<1>3. IsFiniteSet(1..n) /\ Cardinality(1..n) = n
  BY FS_Interval
<1>4. IsUpTo(upTo, 1..n)
  <2>1. \A i, j \in 1..n : i # j => \/ s[i] < s[j] \/ s[j] < s[i]
                                    \/ s[i] = s[j] /\ i < j
                                    \/ s[i] = s[j] /\ j < i
    BY <1>2
  <2>2. ASSUME NEW i \in 1..n, NEW j \in 1..n,
               s[i] < s[j] \/ (s[i] = s[j] /\ i < j)
        PROVE  upTo[i] \subseteq upTo[j] \ {j}
    BY <1>1, <1>2, <2>2
  <2>3. upTo \in [1..n -> SUBSET (1..n)] /\ \A i \in 1..n : i \in upTo[i]
    BY <1>1, <1>2
  <2> HIDE DEF upTo
  <2>4. QED
    BY <1>3, <2>1, <2>2, <2>3 DEF IsUpTo
<1>5. PICK at : at = Arrange(upTo)
  OBVIOUS
<1>6. Sorted(s) = [k \in DOMAIN at |-> s[at[k]]]
  BY <1>5 DEF Sorted
<1>7. \A i, j \in 1..n : i \in upTo[j] => s[i] <= s[j]
  BY <1>1, <1>2
<1> HIDE DEF upTo
<1>8. /\ at \in [1..n -> 1..n]
      /\ \A i \in 1..n : \E k \in 1..n : at[k] = i
      /\ \A k, l \in 1..n : k < l => at[k] \in upTo[at[l]] \ {at[l]}
  <2>1. PICK D : D = 1..n
    OBVIOUS
  <2>2. IsUpTo(upTo, D) /\ Cardinality(D) = n
    BY <1>3, <1>4, <2>1
  <2>3. PICK u : u = upTo
    OBVIOUS
  <2>4. IsUpTo(u, D) /\ at = Arrange(u)
    BY <1>5, <2>2, <2>3
  <2>5. /\ Arrange(u) \in [1..Cardinality(D) -> D]
        /\ \A i \in D : \E k \in 1..Cardinality(D) : Arrange(u)[k] = i
        /\ \A k, l \in 1..Cardinality(D) :
             k < l => Arrange(u)[k] \in u[Arrange(u)[l]] \ {Arrange(u)[l]}
    BY <2>4, ArrangeFacts, Zenon
  <2>6. QED
    BY <2>1, <2>2, <2>3, <2>4, <2>5
<1>9. PICK t : t = Sorted(s)
  OBVIOUS
<1>10. t = [k \in 1..n |-> s[at[k]]]
  BY <1>6, <1>8, <1>9
<1>11. t \in [1..n -> Ring]
  BY <1>2, <1>8, <1>10
<1>12. t \in Seq(Ring) /\ DOMAIN t = 1..n
  BY <1>11
<1>13. ASSUME NEW k \in 1..n, NEW l \in 1..n, k <= l PROVE t[k] <= t[l]
  <2>1. CASE k = l
    <3>1. PICK r \in Ring : r = t[k]
      BY <1>11
    <3>2. r <= r
      BY HashRingAssumption DEF Ring
    <3>3. QED
      BY <2>1, <3>1, <3>2
  <2>2. CASE k < l
    <3>1. PICK a \in 1..n, b \in 1..n : a = at[k] /\ b = at[l]
      BY <1>8
    <3>2. a \in upTo[b]
      BY <1>8, <2>2, <3>1
    <3>3. s[a] <= s[b]
      BY <1>7, <3>2
    <3>4. t[k] = s[at[k]] /\ t[l] = s[at[l]]
      BY <1>10
    <3>5. QED
      BY <3>1, <3>3, <3>4
  <2>3. QED
    BY <1>13, <2>1, <2>2
<1>14. Range(t) = Range(s)
  <2>1. Range(t) = {s[at[k]] : k \in 1..n} /\ Range(s) = {s[i] : i \in 1..n}
    BY <1>1, <1>10 DEF Range
  <2>2. ASSUME NEW k \in 1..n PROVE \E i \in 1..n : s[at[k]] = s[i]
    BY <1>8
  <2>3. ASSUME NEW i \in 1..n PROVE \E k \in 1..n : s[at[k]] = s[i]
    BY <1>8
  <2>4. Range(t) \subseteq Range(s)
    BY <2>1, <2>2
  <2>5. Range(s) \subseteq Range(t)
    BY <2>1, <2>3
  <2>6. QED
    BY <2>4, <2>5
<1>15. QED
  BY <1>9, <1>12, <1>13, <1>14 DEF IsSorted

\* The way clockwise, gone around or not.
LEMMA DistanceFacts ==
  ASSUME NEW h \in Ring, NEW p \in Ring
  PROVE  Distance(h, p) = IF h <= p THEN p - h ELSE p - h + Places
<1>1. Places \in Nat /\ Places > 0 /\ h \in 0..(Places - 1) /\ p \in 0..(Places - 1)
  BY HashRingAssumption DEF Ring
<1>2. PICK d \in Int : d = p - h
  BY <1>1
<1>3. CASE h <= p
  <2>1. d = Places * 0 + d /\ d \in 0..(Places - 1)
    BY <1>1, <1>2, <1>3
  <2>2. d % Places = d
    BY <1>1, <2>1, ModFacts
  <2>3. QED
    BY <1>2, <1>3, <2>2 DEF Distance
<1>4. CASE ~(h <= p)
  <2>1. PICK e \in 0..(Places - 1) : e = d + Places
    BY <1>1, <1>2, <1>4
  <2>2. PICK m \in Int : m = -1 /\ d = Places * m + e
    <3>1. d = Places * (-1) + e
      BY <1>1, <2>1
    <3>2. QED
      BY <3>1
  <2>3. d % Places = e
    BY <1>1, <2>2, ModFacts
  <2>4. QED
    BY <1>2, <1>4, <2>1, <2>3 DEF Distance
<1>5. QED
  BY <1>3, <1>4

\* p is the next place clockwise from h.
Nearest(ks, h, p) ==
  p \in Range(ks) /\ \A q \in Range(ks) : Distance(h, p) <= Distance(h, q)

\* The position sort.Search finds, gone around.
Place(ks, h) ==
  LET found == {i \in DOMAIN ks : ks[i] >= h}
      first == IF found = {} THEN Len(ks) + 1
               ELSE CHOOSE i \in found : \A j \in found : i <= j
  IN  ks[((first - 1) % Len(ks)) + 1]

\* The search for a place finds the nearest clockwise, and no other is as near.
LEMMA PlaceIsNearest ==
  ASSUME NEW ks \in Seq(Ring), ks # <<>>, IsSorted(ks), NEW h \in Ring
  PROVE  /\ Nearest(ks, h, Place(ks, h))
         /\ \A p : Nearest(ks, h, p) => p = Place(ks, h)
<1>1. PICK n \in Nat : n = Len(ks) /\ DOMAIN ks = 1..n /\ n > 0
  OBVIOUS
<1>2. Range(ks) = {ks[i] : i \in 1..n} /\ \A i \in 1..n : ks[i] \in Ring
  BY <1>1 DEF Range
<1>3. /\ Places \in Nat /\ Places > 0
      /\ \A p \in Ring : p \in Int /\ 0 <= p /\ p < Places
  BY HashRingAssumption DEF Ring
<1> DEFINE found == {i \in DOMAIN ks : ks[i] >= h}
           first == IF found = {} THEN n + 1
                    ELSE CHOOSE i \in found : \A j \in found : i <= j
<1>4. PICK f : f = first
  OBVIOUS
<1>5. Place(ks, h) = ks[((f - 1) % n) + 1]
  BY <1>1, <1>4 DEF Place
<1>6. PICK i \in 1..n :
        /\ Place(ks, h) = ks[i]
        /\ \/ i = 1 /\ \A j \in 1..n : ks[j] < h
           \/ ks[i] >= h /\ \A j \in 1..n : ks[j] >= h => i <= j
  <2>1. CASE found = {}
    <3>1. f - 1 = n
      BY <1>1, <1>4, <2>1
    <3>2. n % n = 0
      <4>1. n = n * 1 + 0 /\ 0 \in 0..(n - 1) /\ 1 \in Int /\ n \in Int
        BY <1>1
      <4>2. QED
        BY <1>1, <4>1, ModFacts
    <3>3. Place(ks, h) = ks[1]
      BY <1>5, <3>1, <3>2
    <3>4. \A j \in 1..n : ks[j] < h
      BY <1>1, <1>2, <1>3, <2>1
    <3>5. QED
      BY <1>1, <3>3, <3>4
  <2>2. CASE found # {}
    <3>1. found \in SUBSET Nat
      BY <1>1
    <3>2. \E j \in found : \A k \in found : j <= k
      BY <2>2, <3>1, LeastNat
    <3>3. f \in found /\ \A k \in found : f <= k
      BY <1>4, <2>2, <3>2
    <3>4. f \in 1..n /\ ks[f] >= h
      BY <1>1, <3>3
    <3>5. PICK g \in Int : g = f - 1 /\ g \in 0..(n - 1) /\ g = n * 0 + g
      BY <1>1, <3>4
    <3>6. g % n = g
      BY <1>1, <3>5, ModFacts
    <3>7. Place(ks, h) = ks[f]
      BY <1>5, <3>4, <3>5, <3>6
    <3>8. \A j \in 1..n : ks[j] >= h => f <= j
      BY <1>1, <3>3
    <3>9. QED
      BY <3>4, <3>7, <3>8
  <2>3. QED
    BY <2>1, <2>2
<1>7. ASSUME NEW j \in 1..n PROVE Distance(h, ks[i]) <= Distance(h, ks[j])
  <2>1. PICK a \in Ring, b \in Ring : a = ks[i] /\ b = ks[j]
    BY <1>2
  <2>2. /\ Distance(h, a) = IF h <= a THEN a - h ELSE a - h + Places
        /\ Distance(h, b) = IF h <= b THEN b - h ELSE b - h + Places
    BY DistanceFacts
  <2>3. i <= j => a <= b
    BY <1>1, <2>1 DEF IsSorted
  <2>4. \/ i <= j /\ a < h /\ b < h
        \/ a >= h /\ (b >= h => i <= j)
    BY <1>1, <1>6, <2>1
  <2>5. Distance(h, a) <= Distance(h, b)
    BY <1>3, <2>2, <2>3, <2>4
  <2>6. QED
    BY <2>1, <2>5
<1>8. Nearest(ks, h, ks[i])
  BY <1>2, <1>7 DEF Nearest
<1>9. ASSUME NEW p, Nearest(ks, h, p) PROVE p = ks[i]
  <2>1. p \in Ring /\ ks[i] \in Ring
    BY <1>2, <1>9 DEF Nearest
  <2>2. PICK a \in Ring : a = ks[i]
    BY <2>1
  <2>3. Distance(h, p) <= Distance(h, a) /\ Distance(h, a) <= Distance(h, p)
    BY <1>2, <1>8, <1>9, <2>2 DEF Nearest
  <2>4. /\ Distance(h, a) = IF h <= a THEN a - h ELSE a - h + Places
        /\ Distance(h, p) = IF h <= p THEN p - h ELSE p - h + Places
    BY <2>1, DistanceFacts
  <2>5. p = a
    BY <1>3, <2>1, <2>3, <2>4
  <2>6. QED
    BY <2>2, <2>5
<1>10. QED
  BY <1>6, <1>8, <1>9

\* A service whose places are its own and that is a member owns them.
RingInv ==
  /\ RingTypeOK
  /\ \A a \in members : Alone(a) => \A h \in Points(a) : hashMap[h] = a

\* Pick, before and after a step, by the place it finds.
LEMMA PickFacts ==
  ASSUME NEW h \in Ring
  PROVE  /\ Pick(h) = IF keys = <<>> THEN EmptyServiceErr ELSE hashMap[Place(keys, h)]
         /\ Pick(h)' = IF keys' = <<>> THEN EmptyServiceErr ELSE hashMap'[Place(keys', h)]
BY DEF Pick, Search, Place

\* The empty ring.
LEMMA RingStarts ==
  ASSUME RingInit
  PROVE  RingInv
<1>1. RingTypeOK
  BY HashRingAssumption DEF RingInit, RingTypeOK
<1>2. QED
  BY <1>1 DEF RingInit, RingInv

\* The hash function stays, and with it who is alone.
LEMMA HashStays ==
  ASSUME hash' = hash
  PROVE  /\ \A a \in Addrs : Points(a)' = Points(a)
         /\ \A a \in Addrs : Alone(a)' <=> Alone(a)
<1>1. ASSUME NEW a PROVE Points(a)' = Points(a)
  BY DEF Points
<1>2. ASSUME NEW a PROVE Alone(a)' <=> Alone(a)
  <2>1. Alone(a)' <=> \A b \in Addrs \ {a} : Points(a)' \cap Points(b)' = {}
    BY DEF Alone
  <2>2. QED
    BY <1>1, <2>1 DEF Alone
<1>3. QED
  BY <1>1, <1>2

\* Add keeps the invariant, and takes keys only for the one it adds.
LEMMA AddStep ==
  ASSUME RingInv, NEW a \in Addrs, Add(a)
  PROVE  /\ RingInv'
         /\ members' = members \cup {a}
         /\ \A h \in Ring : Pick(h)' \in {Pick(h), a}
<1>1. /\ adds < MaxAdds /\ adds' = adds + 1 /\ members' = members \cup {a} /\ hash' = hash
      /\ keys' = Sorted(keys \o hash[a]) /\ hashMap' = Owned(a)
  BY DEF Add, Added
<1>2. /\ keys \in Seq(Ring) /\ IsSorted(keys) /\ hash \in [Addrs -> [1..Replicas -> Ring]]
      /\ hashMap \in [Ring -> Addrs \cup {NoAddr}] /\ members \subseteq Addrs
      /\ adds \in 0..MaxAdds
  BY DEF RingInv, RingTypeOK, IsSorted
<1>3. Replicas \in Nat /\ MaxAdds \in Nat
  BY HashRingAssumption
<1>4. PICK t : t = hash[a]
  OBVIOUS
<1>5. t \in [1..Replicas -> Ring]
  BY <1>2, <1>4
<1>6. t \in Seq(Ring) /\ DOMAIN t = 1..Replicas /\ Len(t) = Replicas
  BY <1>3, <1>5
<1>7. PICK u : u = keys \o t
  OBVIOUS
<1>8. /\ u \in Seq(Ring) /\ Len(u) = Len(keys) + Len(t)
      /\ \A i \in 1..Len(u) : u[i] = IF i <= Len(keys) THEN keys[i] ELSE t[i - Len(keys)]
  BY <1>2, <1>6, <1>7
<1>9. Range(u) = Range(keys) \cup Points(a)
  <2>1. DOMAIN u = 1..Len(u) /\ DOMAIN keys = 1..Len(keys) /\ Len(keys) \in Nat
    BY <1>2, <1>8
  <2>2. Points(a) = {t[i] : i \in 1..Replicas}
    BY <1>4 DEF Points
  <2>3. ASSUME NEW p \in Range(u) PROVE p \in Range(keys) \cup Points(a)
    <3>1. PICK i \in 1..Len(u) : p = u[i]
      BY <2>1, <2>3 DEF Range
    <3>2. CASE i <= Len(keys)
      BY <1>8, <2>1, <3>1, <3>2 DEF Range
    <3>3. CASE ~(i <= Len(keys))
      <4>1. i - Len(keys) \in 1..Replicas /\ p = t[i - Len(keys)]
        BY <1>3, <1>6, <1>8, <2>1, <3>1, <3>3
      <4>2. QED
        BY <2>2, <4>1
    <3>4. QED
      BY <3>2, <3>3
  <2>4. ASSUME NEW i \in 1..Len(keys) PROVE keys[i] \in Range(u)
    <3>1. i \in 1..Len(u) /\ u[i] = keys[i]
      BY <1>3, <1>6, <1>8, <2>1
    <3>2. QED
      BY <2>1, <3>1 DEF Range
  <2>5. ASSUME NEW i \in 1..Replicas PROVE t[i] \in Range(u)
    <3>1. PICK k \in 1..Len(u) : k = Len(keys) + i
      BY <1>3, <1>6, <1>8, <2>1
    <3>2. u[k] = t[i]
      BY <1>8, <2>1, <3>1
    <3>3. QED
      BY <2>1, <3>2 DEF Range
  <2>6. Range(keys) = {keys[i] : i \in 1..Len(keys)}
    BY <2>1 DEF Range
  <2>7. QED
    BY <2>2, <2>3, <2>4, <2>5, <2>6
<1>10. keys' \in Seq(Ring) /\ IsSorted(keys') /\ Range(keys') = Range(keys) \cup Points(a)
  BY <1>1, <1>4, <1>7, <1>8, <1>9, SortedFacts
<1>11. hashMap' \in [Ring -> Addrs \cup {NoAddr}]
       /\ \A h \in Ring : hashMap'[h] = IF h \in Points(a) THEN a ELSE hashMap[h]
  BY <1>1, <1>2 DEF Owned
<1>12. RingTypeOK'
  BY <1>1, <1>2, <1>3, <1>10, <1>11 DEF RingTypeOK, IsSorted
<1>13. Points(a) \subseteq Ring /\ \A b \in Addrs : Alone(b)' <=> Alone(b)
  <2>1. Points(a) \subseteq Ring
    BY <1>4, <1>5 DEF Points
  <2>2. QED
    BY <1>1, <2>1, HashStays
<1>14. ASSUME NEW b \in members', Alone(b), NEW h \in Points(b)
       PROVE  b \in Addrs /\ hashMap'[h] = b
  <2>1. h \in Ring
    BY <1>1, <1>2, <1>3, <1>14 DEF Points
  <2>2. CASE b = a
    BY <1>11, <1>14, <2>1, <2>2
  <2>3. CASE b # a
    <3>1. b \in members /\ h \notin Points(a)
      BY <1>1, <1>14, <2>3 DEF Alone
    <3>2. hashMap[h] = b
      BY <1>14, <3>1 DEF RingInv
    <3>3. b \in Addrs /\ hashMap'[h] = hashMap[h]
      BY <1>2, <1>11, <2>1, <3>1
    <3>4. QED
      BY <3>2, <3>3
  <2>4. QED
    BY <2>2, <2>3
<1>15. RingInv'
  <2>1. ASSUME NEW b \in members', Alone(b)', NEW h \in Points(b)'
        PROVE  hashMap'[h] = b
    <3>1. b \in Addrs
      BY <1>1, <1>2, <2>1
    <3>2. Alone(b) /\ h \in Points(b)
      BY <1>1, <1>13, <2>1, <3>1, HashStays
    <3>3. QED
      BY <1>14, <2>1, <3>2
  <2>2. QED
    BY <1>12, <2>1 DEF RingInv
<1>16. ASSUME NEW h \in Ring PROVE Pick(h)' \in {Pick(h), a}
  <2>1. keys' # <<>>
    <3>1. Replicas > 0 /\ 1 \in 1..Replicas
      BY HashRingAssumption
    <3>2. t[1] \in Points(a)
      BY <1>4, <3>1 DEF Points
    <3>3. QED
      BY <1>10, <3>2 DEF Range
  <2>2. PICK p : p = Place(keys', h)
    OBVIOUS
  <2>3. PICK ks \in Seq(Ring) : ks = keys'
    BY <1>10
  <2>4. Nearest(ks, h, p)
    BY <1>10, <2>1, <2>2, <2>3, PlaceIsNearest
  <2>5. p \in Range(keys) \cup Points(a)
    BY <1>10, <2>3, <2>4 DEF Nearest
  <2>6. Pick(h)' = hashMap'[p]
    BY <2>1, <2>2, PickFacts
  <2>7. CASE p \in Points(a)
    BY <1>11, <1>13, <2>6, <2>7
  <2>8. CASE p \notin Points(a)
    <3>1. Nearest(keys, h, p)
      BY <1>10, <2>3, <2>4, <2>5, <2>8 DEF Nearest
    <3>2. keys # <<>>
      BY <2>5, <2>8 DEF Range
    <3>3. p = Place(keys, h)
      BY <1>2, <3>1, <3>2, PlaceIsNearest
    <3>4. p \in Ring
      BY <1>2, <2>5, <2>8 DEF Range
    <3>5. Pick(h) = hashMap[p]
      BY <3>2, <3>3, PickFacts
    <3>6. QED
      BY <1>11, <2>6, <2>8, <3>4, <3>5
  <2>9. QED
    BY <2>7, <2>8
<1>17. QED
  BY <1>1, <1>15, <1>16

\* Remove keeps the invariant, and takes only the keys of the one it removes.
LEMMA RemoveStep ==
  ASSUME RingInv, NEW a \in Addrs, Remove(a)
  PROVE  /\ RingInv'
         /\ members' = members \ {a}
         /\ a \in members /\ Alone(a) =>
              \A h \in Ring : Pick(h)' = Pick(h) \/ Pick(h) = a
<1>1. /\ members' = members \ {a} /\ hash' = hash /\ keys' = keys /\ adds' = adds
      /\ hashMap' = [h \in Ring |-> IF h \in Points(a) THEN NoAddr ELSE hashMap[h]]
  BY DEF Remove
<1>2. /\ keys \in Seq(Ring) /\ IsSorted(keys)
      /\ hashMap \in [Ring -> Addrs \cup {NoAddr}] /\ members \subseteq Addrs
      /\ hash \in [Addrs -> [1..Replicas -> Ring]]
  BY DEF RingInv, RingTypeOK, IsSorted
<1>3. /\ hashMap' \in [Ring -> Addrs \cup {NoAddr}]
      /\ \A h \in Ring : hashMap'[h] = IF h \in Points(a) THEN NoAddr ELSE hashMap[h]
  BY <1>1, <1>2
<1>4. RingTypeOK'
  BY <1>1, <1>2, <1>3 DEF RingInv, RingTypeOK
<1>5. ASSUME NEW b \in members', Alone(b)', NEW h \in Points(b)'
      PROVE  hashMap'[h] = b
  <2>1. b \in members /\ b \in Addrs /\ b # a
    BY <1>1, <1>2, <1>5
  <2>2. Alone(b) /\ h \in Points(b)
    BY <1>1, <1>5, <2>1, HashStays
  <2>3. hashMap[h] = b
    BY <2>1, <2>2 DEF RingInv
  <2>4. h \in Ring
    BY <1>2, <2>1, <2>2 DEF Points
  <2>5. h \notin Points(a)
    BY <2>1, <2>2 DEF Alone
  <2>6. QED
    BY <1>3, <2>3, <2>4, <2>5
<1>6. RingInv'
  BY <1>4, <1>5 DEF RingInv
<1>7. ASSUME a \in members, Alone(a), NEW h \in Ring
      PROVE  Pick(h)' = Pick(h) \/ Pick(h) = a
  <2>1. CASE keys = <<>>
    BY <1>1, <2>1, PickFacts
  <2>2. CASE keys # <<>>
    <3>1. PICK p : p = Place(keys, h)
      OBVIOUS
    <3>2. p \in Range(keys)
      BY <1>2, <2>2, <3>1, PlaceIsNearest DEF Nearest
    <3>3. p \in Ring
      BY <1>2, <3>2 DEF Range
    <3>4. Pick(h) = hashMap[p] /\ Pick(h)' = hashMap'[p]
      BY <1>1, <2>2, <3>1, PickFacts
    <3>5. p \in Points(a) => hashMap[p] = a
      BY <1>7 DEF RingInv
    <3>6. QED
      BY <1>3, <3>3, <3>4, <3>5
  <2>3. QED
    BY <2>1, <2>2
<1>8. QED
  BY <1>1, <1>6, <1>7

\* What one step of the ring leaves to the others.
OthersStayStep ==
  \A a \in Addrs, h \in Ring :
    /\ a \in members' \ members => Pick(h)' \in {Pick(h), a}
    /\ a \in members \ members' /\ Alone(a) =>
         Pick(h)' = Pick(h) \/ Pick(h) = a

\* Every step of the ring keeps the invariant, and the others where they are.
LEMMA RingStep ==
  ASSUME RingInv, [RingNext]_ringVars
  PROVE  RingInv' /\ (OthersStayStep \/ UNCHANGED ringVars)
<1>1. ASSUME NEW a \in Addrs, Add(a) PROVE RingInv' /\ OthersStayStep
  BY <1>1, AddStep DEF OthersStayStep
<1>2. ASSUME NEW a \in Addrs, Remove(a) PROVE RingInv' /\ OthersStayStep
  BY <1>2, RemoveStep DEF OthersStayStep
<1>3. CASE UNCHANGED ringVars
  <2>1. RingTypeOK'
    BY <1>3 DEF RingInv, RingTypeOK, ringVars
  <2>2. ASSUME NEW b \in members', Alone(b)', NEW h \in Points(b)'
        PROVE  hashMap'[h] = b
    <3>1. hash' = hash /\ hashMap' = hashMap /\ b \in members /\ b \in Addrs
      BY <1>3, <2>2 DEF RingInv, RingTypeOK, ringVars
    <3>2. Alone(b) /\ h \in Points(b)
      BY <2>2, <3>1, HashStays
    <3>3. QED
      BY <3>1, <3>2 DEF RingInv
  <2>3. QED
    BY <1>3, <2>1, <2>2 DEF RingInv
<1>4. QED
  BY <1>1, <1>2, <1>3 DEF RingNext

\* On sorted keys, Pick is the successor.
LEMMA SuccessorOfInv ==
  ASSUME RingInv
  PROVE  PickIsSuccessor
<1>1. keys \in Seq(Ring) /\ IsSorted(keys)
  BY DEF RingInv, RingTypeOK, IsSorted
<1>2. ASSUME NEW h \in Ring, NEW p \in Range(keys),
             \A q \in Range(keys) : Distance(h, p) <= Distance(h, q)
      PROVE  Pick(h) = hashMap[p]
  <2>1. keys # <<>>
    BY DEF Range
  <2>2. Nearest(keys, h, p)
    BY <1>2 DEF Nearest
  <2>3. p = Place(keys, h)
    BY <1>1, <2>1, <2>2, PlaceIsNearest
  <2>4. QED
    BY <2>1, <2>3, PickFacts
<1>3. QED
  BY <1>2 DEF PickIsSuccessor

-----------------------------------------------------------------------------
(* The rules of the Director.                                              *)

Occurrences(s, x) == {i \in DOMAIN s : s[i] = x}

\* How often a sequence has an element.
LEMMA OccurrencesFacts ==
  ASSUME NEW T, NEW s \in Seq(T), NEW x
  PROVE  /\ IsFiniteSet(Occurrences(s, x))
         /\ Cardinality(Occurrences(s, x)) \in 0..Len(s)
         /\ (Cardinality(Occurrences(s, x)) = 0 <=> Occurrences(s, x) = {})
<1>1. PICK n \in Nat : n = Len(s) /\ DOMAIN s = 1..n
  OBVIOUS
<1>2. PICK I : I = 1..n
  OBVIOUS
<1>3. IsFiniteSet(I) /\ Cardinality(I) = n
  BY <1>2, FS_Interval
<1>4. PICK P : P = Occurrences(s, x)
  OBVIOUS
<1>5. P \in SUBSET I
  BY <1>1, <1>2, <1>4 DEF Occurrences
<1>6. IsFiniteSet(P) /\ Cardinality(P) <= Cardinality(I)
  BY <1>3, <1>5, FS_Subset
<1>7. Cardinality(P) \in Nat /\ (Cardinality(P) = 0 <=> P = {})
  BY <1>6, FS_CardinalityType, FS_EmptySet
<1>8. QED
  BY <1>1, <1>3, <1>4, <1>6, <1>7

\* Append adds one occurrence.
LEMMA AppendCounts ==
  ASSUME NEW T, NEW s \in Seq(T), NEW y \in T, NEW x
  PROVE  Cardinality(Occurrences(Append(s, y), x)) =
           Cardinality(Occurrences(s, x)) + (IF x = y THEN 1 ELSE 0)
<1>1. PICK n \in Nat : n = Len(s) /\ DOMAIN s = 1..n
  OBVIOUS
<1>2. PICK t : t = Append(s, y)
  OBVIOUS
<1>3. DOMAIN t = 1..(n + 1) /\ t[n + 1] = y /\ \A i \in 1..n : t[i] = s[i]
  BY <1>1, <1>2
<1>4. PICK P : P = Occurrences(s, x)
  OBVIOUS
<1>5. IsFiniteSet(P) /\ Cardinality(P) \in Int
  BY <1>4, OccurrencesFacts
<1>6. PICK m : m = n + 1
  OBVIOUS
<1>7. Occurrences(t, x) = IF x = y THEN P \cup {m} ELSE P
  BY <1>1, <1>3, <1>4, <1>6 DEF Occurrences
<1>8. m \notin P
  BY <1>1, <1>4, <1>6 DEF Occurrences
<1>9. Cardinality(P \cup {m}) = Cardinality(P) + 1
  BY <1>5, <1>8, FS_AddElement
<1>10. QED
  BY <1>2, <1>4, <1>5, <1>7, <1>9

\* s without its i-th element.
Without(s, i) == SubSeq(s, 1, i - 1) \o SubSeq(s, i + 1, Len(s))

\* What is left of a sequence without its i-th element.
LEMMA WithoutFacts ==
  ASSUME NEW T, NEW s \in Seq(T), NEW i \in DOMAIN s
  PROVE  /\ Without(s, i) \in Seq(T) /\ Len(Without(s, i)) = Len(s) - 1
         /\ \A k \in 1..(Len(s) - 1) :
              Without(s, i)[k] = IF k < i THEN s[k] ELSE s[k + 1]
<1>1. PICK n \in Nat : n = Len(s) /\ DOMAIN s = 1..n /\ i \in 1..n
  OBVIOUS
<1>2. PICK a, b : a = SubSeq(s, 1, i - 1) /\ b = SubSeq(s, i + 1, n)
  OBVIOUS
<1>3. a \in Seq(T) /\ Len(a) = i - 1 /\ \A k \in 1..(i - 1) : a[k] = s[k]
  BY <1>1, <1>2
<1>4. b \in Seq(T) /\ Len(b) = n - i /\ \A k \in 1..(n - i) : b[k] = s[i + k]
  BY <1>1, <1>2
<1>5. PICK t : t = Without(s, i)
  OBVIOUS
<1>6. t = a \o b
  BY <1>1, <1>2, <1>5 DEF Without
<1>7. t \in Seq(T) /\ Len(t) = n - 1
  BY <1>1, <1>3, <1>4, <1>6
<1>8. ASSUME NEW k \in 1..(n - 1)
      PROVE  t[k] = IF k < i THEN s[k] ELSE s[k + 1]
  <2>1. CASE k < i
    BY <1>1, <1>3, <1>4, <1>6, <1>8, <2>1
  <2>2. CASE ~(k < i)
    <3>1. PICK c \in Nat : c = Len(a) /\ c = i - 1
      BY <1>1, <1>3
    <3>2. PICK l \in Int : l = k - c
      BY <3>1
    <3>3. l \in 1..(n - i) /\ i + l = k + 1
      BY <1>1, <2>2, <3>1, <3>2
    <3>4. k \in (c + 1)..(c + Len(b)) /\ Len(b) \in Nat
      BY <1>1, <1>4, <2>2, <3>1
    <3>5. (a \o b)[k] = b[k - c]
      <4>1. \A j \in 1..(Len(a) + Len(b)) :
              (a \o b)[j] = IF j <= Len(a) THEN a[j] ELSE b[j - Len(a)]
        BY <1>3, <1>4
      <4>2. k \in 1..(Len(a) + Len(b)) /\ ~(k <= Len(a))
        BY <3>1, <3>4
      <4>3. QED
        BY <3>1, <4>1, <4>2
    <3>6. b[l] = s[i + l]
      BY <1>4, <3>3
    <3>7. QED
      BY <1>6, <2>2, <3>2, <3>3, <3>5, <3>6
  <2>3. QED
    BY <2>1, <2>2
<1>9. QED
  BY <1>1, <1>5, <1>7, <1>8

\* There is one occurrence less.
LEMMA WithoutCounts ==
  ASSUME NEW T, NEW s \in Seq(T), NEW i \in DOMAIN s, NEW x
  PROVE  Cardinality(Occurrences(Without(s, i), x)) =
           Cardinality(Occurrences(s, x)) - (IF s[i] = x THEN 1 ELSE 0)
<1>1. PICK n \in Nat : n = Len(s) /\ DOMAIN s = 1..n /\ i \in 1..n
  OBVIOUS
<1>2. PICK t : t = Without(s, i)
  OBVIOUS
<1>3. /\ t \in Seq(T) /\ DOMAIN t = 1..(n - 1)
      /\ \A k \in 1..(n - 1) : t[k] = IF k < i THEN s[k] ELSE s[k + 1]
  <2>1. /\ Without(s, i) \in Seq(T) /\ Len(Without(s, i)) = Len(s) - 1
        /\ \A k \in 1..(Len(s) - 1) :
             Without(s, i)[k] = IF k < i THEN s[k] ELSE s[k + 1]
    BY WithoutFacts
  <2>2. /\ t \in Seq(T) /\ Len(t) = n - 1
        /\ \A k \in 1..(n - 1) : t[k] = IF k < i THEN s[k] ELSE s[k + 1]
    BY <1>1, <1>2, <2>1
  <2>3. QED
    BY <2>2
<1>4. PICK P, Q : P = Occurrences(s, x) /\ Q = Occurrences(t, x)
  OBVIOUS
<1>5. /\ IsFiniteSet(P) /\ Cardinality(P) \in Int
      /\ IsFiniteSet(Q) /\ Cardinality(Q) \in Int
  BY <1>3, <1>4, OccurrencesFacts
<1>6. /\ P = {j \in 1..n : s[j] = x}
      /\ Q = {k \in 1..(n - 1) : t[k] = x}
  BY <1>1, <1>3, <1>4 DEF Occurrences
<1> DEFINE at == [k \in Q |-> IF k < i THEN k ELSE k + 1]
<1>7. at \in [Q -> P \ {i}]
  BY <1>1, <1>3, <1>6
<1>8. ASSUME NEW k \in Q, NEW l \in Q, at[k] = at[l] PROVE k = l
  <2>1. k \in Int /\ l \in Int
    BY <1>6
  <2>2. QED
    BY <1>1, <1>8, <2>1
<1>9. ASSUME NEW j \in P \ {i} PROVE \E k \in Q : at[k] = j
  <2>1. j \in 1..n /\ s[j] = x /\ j # i
    BY <1>6
  <2>2. CASE j < i
    <3>1. j \in Q
      BY <1>1, <1>3, <1>6, <2>1, <2>2
    <3>2. QED
      BY <2>2, <3>1
  <2>3. CASE ~(j < i)
    <3>1. PICK k \in 1..(n - 1) : k = j - 1 /\ ~(k < i) /\ k + 1 = j
      BY <1>1, <2>1, <2>3
    <3>2. t[k] = x
      BY <1>3, <2>1, <3>1
    <3>3. k \in Q
      BY <1>6, <3>2
    <3>4. QED
      BY <3>1, <3>3
  <2>4. QED
    BY <2>2, <2>3
<1> HIDE DEF at
<1>10. PICK R : R = P \ {i}
  OBVIOUS
<1>11. at \in Bijection(Q, R)
  BY <1>7, <1>8, <1>9, <1>10, Fun_IsBij
<1>12. ExistsBijection(Q, R)
  BY <1>11 DEF ExistsBijection
<1>13. Cardinality(R) = Cardinality(Q)
  BY <1>5, <1>12, FS_Bijection
<1>14. Cardinality(R) = IF i \in P THEN Cardinality(P) - 1 ELSE Cardinality(P)
  BY <1>5, <1>10, FS_RemoveElement
<1>15. i \in P <=> s[i] = x
  BY <1>1, <1>6
<1>16. QED
  BY <1>2, <1>4, <1>5, <1>13, <1>14, <1>15

\* First is one of the positions.
LEMMA FirstFacts ==
  ASSUME NEW positions \in SUBSET Nat, positions # {}
  PROVE  First(positions) \in positions
BY LeastNat DEF First

\* A rule is in the list as often as it is wanted.
ForwardingInv ==
  /\ ForwardingTypeOK
  /\ \A rule \in Rules : wanted[rule] = Cardinality(Occurrences(rules, rule))

\* The empty list, of which nothing is wanted.
LEMMA ForwardingStarts ==
  ASSUME ForwardingInit
  PROVE  ForwardingInv
<1>1. ForwardingTypeOK
  BY RulesAssumption DEF ForwardingInit, ForwardingTypeOK
<1>2. ASSUME NEW rule \in Rules
      PROVE  wanted[rule] = Cardinality(Occurrences(rules, rule))
  <2>1. Occurrences(rules, rule) = {}
    BY DEF ForwardingInit, Occurrences
  <2>2. QED
    BY <2>1, FS_EmptySet DEF ForwardingInit
<1>3. QED
  BY <1>1, <1>2 DEF ForwardingInv

\* The invariant is inductive.
LEMMA ForwardingStep ==
  ASSUME ForwardingInv, [ForwardingNext]_forwardingVars
  PROVE  ForwardingInv'
<1>1. /\ rules \in Seq(Rules \cup {NilRule}) /\ Len(rules) <= MaxRules
      /\ wanted \in [Rules -> 0..MaxRules] /\ MaxRules \in Nat /\ Len(rules) \in Nat
      /\ \A rule \in Rules : wanted[rule] = Cardinality(Occurrences(rules, rule))
      /\ NilRule \notin Rules
  BY RulesAssumption DEF ForwardingInv, ForwardingTypeOK
<1>2. ASSUME /\ rules' \in Seq(Rules \cup {NilRule}) /\ Len(rules') <= MaxRules
             /\ DOMAIN wanted' = Rules /\ wanted' = [rule \in Rules |-> wanted'[rule]]
             /\ \A rule \in Rules : wanted'[rule] = Cardinality(Occurrences(rules', rule))
             /\ config' = config /\ got' = got
      PROVE  ForwardingInv'
  <2>1. PICK s \in Seq(Rules \cup {NilRule}) : s = rules'
    BY <1>2
  <2>2. ASSUME NEW rule \in Rules PROVE wanted'[rule] \in 0..MaxRules
    <3>1. Cardinality(Occurrences(s, rule)) \in 0..Len(s)
      BY OccurrencesFacts
    <3>2. Len(s) <= MaxRules /\ Len(s) \in Nat
      BY <1>2, <2>1
    <3>3. QED
      BY <1>1, <1>2, <2>1, <3>1, <3>2
  <2>3. wanted' \in [Rules -> 0..MaxRules]
    BY <1>2, <2>2
  <2>4. ForwardingTypeOK'
    BY <1>2, <2>3 DEF ForwardingInv, ForwardingTypeOK
  <2>5. QED
    BY <1>2, <2>4 DEF ForwardingInv
<1>3. ASSUME NEW rule \in Rules, AddRule(rule) PROVE ForwardingInv'
  <2>1. /\ Len(rules) < MaxRules /\ rules' = Append(rules, rule)
        /\ wanted' = [wanted EXCEPT ![rule] = @ + 1] /\ config' = config /\ got' = got
    BY <1>3 DEF AddRule, requestVars
  <2>2. rules' \in Seq(Rules \cup {NilRule}) /\ Len(rules') <= MaxRules
    BY <1>1, <2>1
  <2>3. ASSUME NEW x \in Rules
        PROVE  wanted'[x] = Cardinality(Occurrences(rules', x))
    <3>1. Cardinality(Occurrences(Append(rules, rule), x)) =
            Cardinality(Occurrences(rules, x)) + (IF x = rule THEN 1 ELSE 0)
      BY <1>1, AppendCounts
    <3>2. wanted[x] \in Int /\ wanted[x] = Cardinality(Occurrences(rules, x))
      BY <1>1
    <3>3. wanted'[x] = wanted[x] + (IF x = rule THEN 1 ELSE 0)
      BY <1>1, <2>1, <3>2
    <3>4. QED
      BY <2>1, <3>1, <3>2, <3>3
  <2>4. DOMAIN wanted' = Rules /\ wanted' = [x \in Rules |-> wanted'[x]]
    BY <1>1, <2>1
  <2>5. QED
    BY <1>2, <2>1, <2>2, <2>3, <2>4
<1>4. CASE AddNil
  <2>1. /\ Len(rules) < MaxRules /\ rules' = Append(rules, NilRule)
        /\ wanted' = wanted /\ config' = config /\ got' = got
    BY <1>4 DEF AddNil, requestVars
  <2>2. rules' \in Seq(Rules \cup {NilRule}) /\ Len(rules') <= MaxRules
    BY <1>1, <2>1
  <2>3. ASSUME NEW x \in Rules
        PROVE  wanted'[x] = Cardinality(Occurrences(rules', x))
    <3>1. Cardinality(Occurrences(Append(rules, NilRule), x)) =
            Cardinality(Occurrences(rules, x)) + (IF x = NilRule THEN 1 ELSE 0)
      BY <1>1, AppendCounts
    <3>2. x # NilRule /\ wanted[x] \in Int /\ wanted[x] = Cardinality(Occurrences(rules, x))
      BY <1>1
    <3>3. QED
      BY <2>1, <3>1, <3>2
  <2>4. DOMAIN wanted' = Rules /\ wanted' = [x \in Rules |-> wanted'[x]]
    BY <1>1, <2>1
  <2>5. QED
    BY <1>2, <2>1, <2>2, <2>3, <2>4
<1>5. ASSUME NEW rule \in Rules, RemoveRule(rule) PROVE ForwardingInv'
  <2>1. PICK i : i = First(Stops(rule))
    OBVIOUS
  <2>2. /\ Stops(rule) # {} /\ rules[i] = rule /\ rules' = Without(rules, i)
        /\ wanted' = [wanted EXCEPT ![rule] = @ - 1] /\ config' = config /\ got' = got
    BY <1>5, <2>1 DEF RemoveRule, requestVars, Without
  <2>3. i \in DOMAIN rules
    <3>1. Stops(rule) \in SUBSET Nat
      BY <1>1 DEF Stops
    <3>2. i \in Stops(rule)
      BY <2>1, <2>2, <3>1, FirstFacts
    <3>3. QED
      BY <3>2 DEF Stops
  <2>4. PICK s \in Seq(Rules \cup {NilRule}) : s = rules
    BY <1>1
  <2>5. Without(s, i) \in Seq(Rules \cup {NilRule}) /\ Len(Without(s, i)) = Len(s) - 1
    BY <2>3, <2>4, WithoutFacts
  <2>6. rules' \in Seq(Rules \cup {NilRule}) /\ Len(rules') <= MaxRules
    BY <1>1, <2>2, <2>4, <2>5
  <2>7. ASSUME NEW x \in Rules
        PROVE  wanted'[x] = Cardinality(Occurrences(rules', x))
    <3>1. Cardinality(Occurrences(Without(s, i), x)) =
            Cardinality(Occurrences(s, x)) - (IF s[i] = x THEN 1 ELSE 0)
      BY <2>3, <2>4, WithoutCounts
    <3>2. wanted[x] \in Int /\ wanted[x] = Cardinality(Occurrences(s, x))
      BY <1>1, <2>4
    <3>3. wanted'[x] = wanted[x] - (IF rule = x THEN 1 ELSE 0)
      BY <1>1, <2>2, <3>2
    <3>4. QED
      BY <2>2, <2>4, <3>1, <3>2, <3>3
  <2>8. DOMAIN wanted' = Rules /\ wanted' = [x \in Rules |-> wanted'[x]]
    BY <1>1, <2>2
  <2>9. QED
    BY <1>2, <2>2, <2>6, <2>7, <2>8
<1>6. ASSUME UNCHANGED <<config, rules, wanted>>,
             got' \in {"nothing", "relayed", "waiting", "aborted", "panic", "502",
                       "empty", "whole"}
      PROVE  ForwardingInv'
  BY <1>6 DEF ForwardingInv, ForwardingTypeOK
<1>7. ASSUME NEW q \in Asks, DirectByRule(q) PROVE ForwardingInv'
  BY <1>6, <1>7 DEF DirectByRule, Asked, Sent
<1>8. ASSUME NEW q \in Asks, DirectNowhere(q) PROVE ForwardingInv'
  BY <1>6, <1>8 DEF DirectNowhere, Asked, Sent
<1>9. ASSUME NEW q \in Asks, NEW target, DirectToTarget(q, target) PROVE ForwardingInv'
  BY <1>6, <1>9 DEF DirectToTarget, Asked, Sent
<1>10. ASSUME NEW q \in Asks, NEW target, Transform(q, target) PROVE ForwardingInv'
  BY <1>6, <1>10 DEF Transform, Asked
<1>11. ASSUME NEW ok, NEW json, NEW body, Answer(ok, json, body) PROVE ForwardingInv'
  BY <1>6, <1>11 DEF Answer
<1>12. CASE UNCHANGED forwardingVars
  BY <1>6, <1>12 DEF forwardingVars, ForwardingInv, ForwardingTypeOK
<1>13. QED
  BY <1>3, <1>4, <1>5, <1>7, <1>8, <1>9, <1>10, <1>11, <1>12 DEF ForwardingNext

\* Where a step sends a request that is rewritten.
RulesDecideStep ==
  \A q \in Asks : DirectByRule(q) =>
    \/ got' = "panic" /\ (Matching(q.path) = {} \/ \E i \in DOMAIN rules : rules[i] = NilRule)
    \/ \E rule \in Matching(q.path) :
         IF rule.to = Unparsable THEN Sent(Unchanged(q))
         ELSE Sent(Rewritten(q, rule.to))

\* The rules in the list are those that are wanted.
LEMMA InListIsWanted ==
  ASSUME ForwardingInv, NEW rule \in Rules
  PROVE  wanted[rule] > 0 <=> \E i \in DOMAIN rules : rules[i] = rule
<1>1. PICK s \in Seq(Rules \cup {NilRule}) : s = rules
  BY DEF ForwardingInv, ForwardingTypeOK
<1>2. wanted[rule] = Cardinality(Occurrences(s, rule))
  BY <1>1 DEF ForwardingInv
<1>3. /\ Cardinality(Occurrences(s, rule)) \in 0..Len(s)
      /\ Cardinality(Occurrences(s, rule)) = 0 <=> Occurrences(s, rule) = {}
  BY OccurrencesFacts
<1>4. wanted[rule] > 0 <=> Occurrences(s, rule) # {}
  BY <1>2, <1>3
<1>5. QED
  BY <1>1, <1>4 DEF Occurrences

\* A step of the Director in a state of the invariant.
LEMMA RulesDecideHere ==
  ASSUME ForwardingInv
  PROVE  RulesDecideStep
<1>1. rules \in Seq(Rules \cup {NilRule})
  BY DEF ForwardingInv, ForwardingTypeOK
<1> SUFFICES ASSUME NEW q \in Asks, DirectByRule(q)
             PROVE  \/ /\ got' = "panic"
                       /\ \/ Matching(q.path) = {}
                          \/ \E i \in DOMAIN rules : rules[i] = NilRule
                    \/ \E rule \in Matching(q.path) :
                         IF rule.to = Unparsable THEN Sent(Unchanged(q))
                         ELSE Sent(Rewritten(q, rule.to))
  BY DEF RulesDecideStep
<1>2. PICK rule : rule = Match(q.path)
  OBVIOUS
<1>3. \/ rule = NilRule /\ got' = "panic" /\ sent' = Unsent
      \/ rule # NilRule /\ rule.to = Unparsable /\ Sent(Unchanged(q))
      \/ rule # NilRule /\ rule.to # Unparsable /\ Sent(Rewritten(q, rule.to))
  BY <1>2 DEF DirectByRule
<1>4. PICK stops : stops = {i \in DOMAIN rules : rules[i] = NilRule \/ q.path \in rules[i].matches}
  OBVIOUS
<1>5. rule = IF stops = {} THEN NilRule ELSE rules[First(stops)]
  BY <1>2, <1>4 DEF Match
<1>6. stops # {} => First(stops) \in stops
  <2>1. stops \in SUBSET Nat
    BY <1>1, <1>4
  <2>2. QED
    BY <2>1, FirstFacts
<1>7. CASE stops = {}
  <2>1. Matching(q.path) = {}
    <3>1. ASSUME NEW r \in Matching(q.path) PROVE FALSE
      <4>1. r \in Rules /\ wanted[r] > 0 /\ q.path \in r.matches
        BY <3>1 DEF Matching
      <4>2. PICK i \in DOMAIN rules : rules[i] = r
        BY <4>1, InListIsWanted
      <4>3. i \in stops
        BY <1>4, <4>1, <4>2
      <4>4. QED
        BY <1>7, <4>3
    <3>2. QED
      BY <3>1
  <2>2. QED
    BY <1>3, <1>5, <1>7, <2>1
<1>8. CASE stops # {}
  <2>1. PICK i \in DOMAIN rules :
          rule = rules[i] /\ (rules[i] = NilRule \/ q.path \in rules[i].matches)
    BY <1>4, <1>5, <1>6, <1>8
  <2>2. CASE rule = NilRule
    BY <1>3, <2>1, <2>2
  <2>3. CASE rule # NilRule
    <3>1. rule \in Rules /\ q.path \in rule.matches
      BY <1>1, <2>1, <2>3
    <3>2. wanted[rule] > 0
      BY <2>1, <3>1, InListIsWanted
    <3>3. rule \in Matching(q.path)
      BY <3>1, <3>2 DEF Matching
    <3>4. QED
      BY <1>3, <2>3, <3>3
  <2>4. QED
    BY <2>2, <2>3
<1>9. QED
  BY <1>7, <1>8

-----------------------------------------------------------------------------
(* All of them: each user starts and steps as its own specification says.  *)

TargetsInv == /\ user \in {"gateway", "rotation", "ring", "director"}
              /\ NextTargetInv /\ RotationInv /\ RingInv /\ ForwardingInv

\* Each user starts and steps as its own specification says.
LEMMA Users ==
  /\ TargetsInit => /\ user \in {"gateway", "rotation", "ring", "director"}
                    /\ NextTargetInit /\ RotationInit /\ RingInit /\ ForwardingInit
  /\ [TargetsNext]_targetsVars =>
       /\ user' = user
       /\ [NextTargetNext]_nextTargetVars /\ [RotationNext]_rotationVars
       /\ [RingNext]_ringVars /\ [ForwardingNext]_forwardingVars
<1>1. ASSUME TargetsInit
      PROVE  /\ user \in {"gateway", "rotation", "ring", "director"}
             /\ NextTargetInit /\ RotationInit /\ RingInit /\ ForwardingInit
  BY <1>1 DEF TargetsInit, NoGateway, NoRotation, NoRing, NoForwarding
<1>2. ASSUME [TargetsNext]_targetsVars
      PROVE  /\ user' = user
             /\ [NextTargetNext]_nextTargetVars /\ [RotationNext]_rotationVars
             /\ [RingNext]_ringVars /\ [ForwardingNext]_forwardingVars
  BY <1>2 DEF TargetsNext, targetsVars, Turn
<1>3. QED
  BY <1>1, <1>2

\* The invariants of all users, in every reachable state.
THEOREM TargetsSafe == TargetsSpec => []TargetsInv
<1>1. TargetsInit => TargetsInv
  BY Users, NextTargetStarts, RotationStarts, RingStarts, ForwardingStarts DEF TargetsInv
<1>2. TargetsInv /\ [TargetsNext]_targetsVars => TargetsInv'
  BY Users, NextTargetStep, RotationStep, RingStep, ForwardingStep DEF TargetsInv
<1>3. QED
  BY <1>1, <1>2, PTL DEF TargetsSpec

\* Every variable of the gateway's choice of a target, of the balancers and
\* of the Director's rules keeps its type: the list of keys of the ring stays
\* sorted, and the counter an unsigned int.
THEOREM TypeCorrect == TargetsSpec => []TargetsTypeOK
<1>1. TargetsInv => TargetsTypeOK
  BY DEF TargetsInv, TargetsTypeOK, NextTargetInv, Calm, RotationInv, RingInv, ForwardingInv
<1>2. QED
  BY <1>1, TargetsSafe, PTL

\* Requests that saw the same services share them evenly in turn, at any
\* number of services and of requests and at any count the balancer is at,
\* as long as no request panics.
THEOREM Shared == TargetsSpec => []SharedEvenly
<1>1. TargetsInv => SharedEvenly
  BY BalancedIsShared DEF TargetsInv
<1>2. QED
  BY <1>1, TargetsSafe, PTL

\* A request panics only when the count has been raised beyond the largest
\* int, and not on the empty list.
THEOREM PanicOnlyOnOverflow == TargetsSpec => PanicIsOverflow
<1>1. TargetsInv /\ [TargetsNext]_targetsVars =>
        [\A r \in Requests :
           result[r] # "panic" /\ result'[r] = "panic" =>
             /\ scheme = "round_robin" /\ list[r] # <<>>
             /\ ToInt(count') < 0]_nextTargetVars
  <2> SUFFICES ASSUME NextTargetInv, [NextTargetNext]_nextTargetVars,
                      NEW r \in Requests, result[r] # "panic", result'[r] = "panic"
               PROVE  \/ scheme = "round_robin" /\ list[r] # <<>> /\ ToInt(count') < 0
                      \/ UNCHANGED nextTargetVars
    BY Users DEF TargetsInv
  <2>1. QED
    BY PanicStep
<1>2. QED
  BY <1>1, TargetsSafe, PTL DEF TargetsSpec, PanicIsOverflow

\* The CurrentWeights of the weighted rotation account for every pick, for
\* any list of services and any weights.
THEOREM RotationLedger == TargetsSpec => []Ledger
<1>1. TargetsInv => Ledger
  BY DEF TargetsInv, RotationInv
<1>2. QED
  BY <1>1, TargetsSafe, PTL

\* The weighted rotation gives nobody a pick too many, and after as many picks
\* as the weights add up to, everyone exactly as many as its weight.
THEOREM RotationFair == TargetsSpec => []WeightsAreKept
<1>1. TargetsInv => WeightsAreKept
  BY RotationKeepsWeights DEF TargetsInv
<1>2. QED
  BY <1>1, TargetsSafe, PTL

\* Pick of the consistent hashing scheme goes to the next place clockwise,
\* for any hash function and any number of replicas.
THEOREM RingSuccessor == TargetsSpec => []PickIsSuccessor
<1>1. TargetsInv => PickIsSuccessor
  BY SuccessorOfInv DEF TargetsInv
<1>2. QED
  BY <1>1, TargetsSafe, PTL

\* A service that joins the ring or leaves it moves no key between others.
THEOREM RingOthersStay == TargetsSpec => OthersStay
<1>1. TargetsInv /\ [TargetsNext]_targetsVars => [OthersStayStep]_ringVars
  BY Users, RingStep DEF TargetsInv
<1>2. QED
  BY <1>1, TargetsSafe, PTL DEF TargetsSpec, OthersStay, OthersStayStep

\* A request that the Director rewrites goes where a rule still wanted for its
\* path leads, however rules were added, twice among them, and removed.
THEOREM RulesAreKept == TargetsSpec => RulesDecide
<1>1. TargetsInv /\ [TargetsNext]_targetsVars => [RulesDecideStep]_forwardingVars
  BY RulesDecideHere DEF TargetsInv
<1>2. QED
  BY <1>1, TargetsSafe, PTL DEF TargetsSpec, RulesDecide, RulesDecideStep

=============================================================================
