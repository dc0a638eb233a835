------------------------------ MODULE RateProofs ----------------------------
(***************************************************************************)
(* Proof of the bound that the rate limit promises: for any rate and       *)
(* burst, any clients, and any number of requests that reserve, pass, are  *)
(* refused and cancel in whatever order. And a refused request has cost    *)
(* its client nothing.                                                     *)
(***************************************************************************)
EXTENDS GatewayProofs, SetLemmas

\* The reservations of a client that count: those that let their request
\* pass, and the latest of each request that may still be cancelled.
Passed(c) == {p \in passed : client[p[1]] = c}
Live(c) ==
  Passed(c)
    \cup {Reservation(r) : r \in {q \in Requests : client[q] = c /\ held[q] # <<>>}}

\* The reservations a request holds, the latest first.
Held(r, i) == <<r, held[r][i], Len(held[r]) - i + 1>>

\* When a bucket would hold as much as it owes. A bucket that is full at
\* time t has no smaller one than t - Cap.
Zero(b) == b.updated - b.tokens

\* A bucket knows of every reservation that counts: of those after time m it
\* has lent all but what a full bucket holds ...
Covers(b, S) ==
  \A s \in SUBSET S : IsFiniteSet(s) /\ s # {} =>
    \A m \in Nat : (\A p \in s : m <= p[2]) =>
      m - Cap + Period * Cardinality(s) <= Zero(b)

\* ... so between two times there are no more than the rate allows.
Spread(S) ==
  \A s \in SUBSET S : IsFiniteSet(s) /\ s # {} =>
    \A m, z \in Nat : (\A p \in s : m <= p[2] /\ p[2] <= z) =>
      Period * Cardinality(s) - Cap <= z - m

\* Those that have to wait are a period apart, the last one at lastEvent, and
\* the bucket is empty until then.
Queued(b, S, t) ==
  /\ \A p, q \in S : p # q /\ p[2] > t /\ q[2] > t =>
       p[2] + Period <= q[2] \/ q[2] + Period <= p[2]
  /\ \A p \in S : p[2] > t => p[2] <= b.lastEvent /\ p[2] <= Zero(b)

Sound(b, S, t) == Covers(b, S) /\ Spread(S) /\ Queued(b, S, t)

\* The inductive invariant of the rate limit.
RateInv ==
  /\ IsFiniteSet(passed)
  /\ \A p \in passed : p[2] <= clock /\ stage[p[1]] # "idle"
  /\ \A r \in Requests : \A i \in DOMAIN held[r] :
       i > 1 \/ stage[r] \notin {"reserved", "return"} => Held(r, i) \in passed
  /\ \A c \in Clients : Sound(buckets[c], Live(c), clock)

-----------------------------------------------------------------------------
(* The least and the greatest time of a set.                               *)

\* Min of the community modules is the least.
LEMMA MinFacts ==
  ASSUME NEW T \in SUBSET Nat, T # {}
  PROVE  Min(T) \in T /\ \A y \in T : Min(T) <= y
<1>1. \E x \in T : \A y \in T : x <= y
  BY LeastNat
<1>2. QED
  BY <1>1 DEF Min

\* Max of the community modules is the greatest.
LEMMA MaxFacts ==
  ASSUME NEW T \in SUBSET Nat, T # {}, NEW k \in Nat, \A y \in T : y <= k
  PROVE  Max(T) \in T /\ \A y \in T : Max(T) >= y
<1> DEFINE bounds == {n \in Nat : \A y \in T : y <= n}
<1>1. PICK x \in bounds : \A n \in bounds : x <= n
  <2>1. bounds \in SUBSET Nat /\ bounds # {}
    OBVIOUS
  <2>2. QED
    BY <2>1, LeastNat
<1>2. x \in T
  <2> SUFFICES ASSUME x \notin T PROVE FALSE
    OBVIOUS
  <2>0. x \in Nat /\ \A y \in T : y \in Nat /\ y <= x /\ y # x
    BY <1>1
  <2>a. PICK y \in T : y \in Nat /\ y <= x /\ y # x
    BY <2>0
  <2>b. x > 0
    BY <2>0, <2>a
  <2>1. x - 1 \in Nat /\ \A n \in T : n <= x - 1
    BY <2>0, <2>b
  <2>2. x - 1 \in bounds
    BY <2>1
  <2>3. QED
    BY <1>1, <2>2
<1>3. \E z \in T : \A y \in T : z >= y
  BY <1>1, <1>2
<1>4. QED
  BY <1>3 DEF Max

-----------------------------------------------------------------------------
(* What the calls of a limiter do to a bucket that is sound.               *)

Promises == Requests \X Nat \X Nat

\* The level of a bucket by the moment at which it was empty.
LEMMA ZeroFacts ==
  ASSUME NEW b \in Bucket, NEW t \in Nat
  PROVE  /\ Zero(b) \in Int
         /\ Level(b, t) = IF t - Zero(b) <= Cap THEN t - Zero(b) ELSE Cap
  BY CapFacts DEF Zero, Bucket, Level, AtMost

\* Reserve pays a period more, and promises the time when it is paid.
LEMMA ReservedZero ==
  ASSUME NEW b \in Bucket, NEW t \in Nat, NEW z, z = Zero(Reserved(b, t).bucket),
         NEW act, act = Reserved(b, t).act
  PROVE  /\ Zero(b) \in Int /\ z \in Int /\ act \in Nat
         /\ z >= Zero(b) + Period /\ z >= t - Cap + Period
         /\ z = Zero(b) + Period \/ z = t - Cap + Period
         /\ act >= t /\ act >= z /\ (act = t \/ act = z)
         /\ Reserved(b, t).bucket.lastEvent = act
<1>0. Reserved(b, t).bucket = [tokens |-> Level(b, t) - Period, updated |-> t,
                               lastEvent |-> Reserved(b, t).act]
  BY ReservedFacts
<1>a. /\ Reserved(b, t).bucket.tokens = Level(b, t) - Period
      /\ Reserved(b, t).bucket.updated = t
      /\ Reserved(b, t).bucket.lastEvent = act
  BY <1>0
<1>1. /\ act \in Nat
      /\ act = IF Level(b, t) >= Period THEN t ELSE t + Period - Level(b, t)
  BY ReservedFacts
<1>2. z = t - (Level(b, t) - Period)
  BY <1>a DEF Zero
<1>3. /\ Zero(b) \in Int /\ Level(b, t) \in Int
      /\ Level(b, t) = IF t - Zero(b) <= Cap THEN t - Zero(b) ELSE Cap
  BY ZeroFacts, LevelFacts
<1>4. QED
  BY <1>a, <1>1, <1>2, <1>3, CapFacts

\* Taking one out of a finite set.
LEMMA CountOne ==
  ASSUME NEW s, NEW p \in s, IsFiniteSet(s)
  PROVE  /\ IsFiniteSet(s \ {p}) /\ Cardinality(s) \in Nat
         /\ Cardinality(s \ {p}) \in Nat
         /\ Period * Cardinality(s) = Period * Cardinality(s \ {p}) + Period
         /\ s \ {p} = {} => Period * Cardinality(s) = Period
<1>1. /\ IsFiniteSet(s \ {p}) /\ Cardinality(s) \in Nat
      /\ Cardinality(s \ {p}) = Cardinality(s) - 1 /\ Cardinality(s \ {p}) \in Nat
  BY FS_RemoveElement, FS_CardinalityType
<1>2. \A k, n \in Nat : n = k - 1 => Period * k = Period * n + Period
  BY CapFacts
<1>3. s \ {p} = {} => Cardinality(s \ {p}) = 0
  BY FS_EmptySet
<1>4. QED
  BY <1>1, <1>2, <1>3, CapFacts

\* A reservation is covered by the bucket it leaves.
LEMMA ReserveCovers ==
  ASSUME NEW b \in Bucket, NEW t \in Nat, NEW S \in SUBSET Promises, Sound(b, S, t),
         NEW p \in Promises, p[2] = Reserved(b, t).act
  PROVE  Covers(Reserved(b, t).bucket, S \cup {p})
<1> DEFINE z == Zero(Reserved(b, t).bucket)
<1>1. /\ Zero(b) \in Int /\ z \in Int /\ p[2] \in Nat
      /\ z >= Zero(b) + Period /\ z >= t - Cap + Period
      /\ p[2] = t \/ p[2] = z
  BY ReservedZero
<1> SUFFICES ASSUME NEW s \in SUBSET (S \cup {p}), IsFiniteSet(s), s # {},
                    NEW m \in Nat, \A q \in s : m <= q[2]
             PROVE  m - Cap + Period * Cardinality(s) <= z
  BY DEF Covers
<1> HIDE DEF z
<1>2. CASE p \notin s
  <2>1. m - Cap + Period * Cardinality(s) <= Zero(b)
    BY <1>2 DEF Sound, Covers
  <2>2. Cardinality(s) \in Nat /\ Period * Cardinality(s) \in Nat
    BY FS_CardinalityType, CapFacts
  <2>3. QED
    BY <1>1, <2>1, <2>2, CapFacts
<1>3. CASE p \in s /\ s \ {p} = {}
  <2>1. Period * Cardinality(s) = Period /\ m <= p[2]
    BY <1>3, CountOne
  <2>2. QED
    BY <1>1, <2>1, CapFacts
<1>4. CASE p \in s /\ s \ {p} # {}
  <2>1. /\ IsFiniteSet(s \ {p}) /\ Cardinality(s \ {p}) \in Nat
        /\ Period * Cardinality(s) = Period * Cardinality(s \ {p}) + Period
    BY <1>4, CountOne
  <2>2. s \ {p} \in SUBSET S
    OBVIOUS
  <2>3. m - Cap + Period * Cardinality(s \ {p}) <= Zero(b)
    BY <1>4, <2>1, <2>2 DEF Sound, Covers
  <2>4. Period * Cardinality(s \ {p}) \in Nat
    BY <2>1, CapFacts
  <2>5. QED
    BY <1>1, <2>1, <2>3, <2>4, CapFacts
<1>5. QED
  BY <1>2, <1>3, <1>4

\* Reserve keeps a bucket sound.
LEMMA ReserveSound ==
  ASSUME NEW b \in Bucket, NEW t \in Nat, NEW S \in SUBSET Promises, Sound(b, S, t),
         NEW p \in Promises, p[2] = Reserved(b, t).act
  PROVE  Sound(Reserved(b, t).bucket, S \cup {p}, t)
<1> DEFINE after == Reserved(b, t).bucket
<1>1. /\ Zero(b) \in Int /\ Zero(after) \in Int /\ p[2] \in Nat
      /\ Zero(after) >= Zero(b) + Period
      /\ p[2] >= Zero(after) /\ (p[2] = t \/ p[2] = Zero(after))
      /\ after.lastEvent = p[2]
  BY ReservedZero
<1>2. Covers(after, S \cup {p})
  BY ReserveCovers
<1> HIDE DEF after
<1>3. Spread(S \cup {p})
  <2> SUFFICES ASSUME NEW s \in SUBSET (S \cup {p}), IsFiniteSet(s), s # {},
                      NEW m \in Nat, NEW n \in Nat,
                      \A q \in s : m <= q[2] /\ q[2] <= n
               PROVE  Period * Cardinality(s) - Cap <= n - m
    BY DEF Spread
  <2>1. CASE p \notin s
    BY <2>1 DEF Sound, Spread
  <2>2. CASE p \in s
    <3>1. m - Cap + Period * Cardinality(s) <= Zero(after)
      BY <1>2 DEF Covers
    <3>2. p[2] <= n /\ Zero(after) <= p[2]
      BY <1>1, <2>2
    <3>3. Period * Cardinality(s) \in Nat
      BY FS_CardinalityType, CapFacts
    <3>4. QED
      BY <1>1, <3>1, <3>2, <3>3, CapFacts
  <2>3. QED
    BY <2>1, <2>2
<1>4. Queued(after, S \cup {p}, t)
  <2>1. \A q \in S : q[2] \in Nat
    BY DEF Promises
  <2>2. \A q \in S : q[2] > t => q[2] + Period <= Zero(after) /\ q[2] + Period <= p[2]
    BY <1>1, <2>1, CapFacts DEF Sound, Queued
  <2>3. p[2] > t => p[2] = Zero(after)
    BY <1>1
  <2>4. \A q \in S \cup {p} : q[2] > t => q[2] <= after.lastEvent /\ q[2] <= Zero(after)
    BY <1>1, <2>1, <2>2, <2>3, CapFacts
  <2>5. ASSUME NEW q \in S \cup {p}, NEW u \in S \cup {p}, q # u, q[2] > t, u[2] > t
        PROVE  q[2] + Period <= u[2] \/ u[2] + Period <= q[2]
    BY <2>2, <2>5 DEF Sound, Queued
  <2>6. QED
    BY <2>4, <2>5 DEF Queued
<1>5. QED
  BY <1>2, <1>3, <1>4 DEF Sound, after

\* A bucket is sound for fewer reservations, and at a later time.
LEMMA LessIsSound ==
  ASSUME NEW b \in Bucket, NEW t \in Nat, NEW u \in Nat, t <= u,
         NEW S \in SUBSET Promises, NEW T \in SUBSET S, Sound(b, S, t)
  PROVE  Sound(b, T, u)
<1>1. Covers(b, T) /\ Spread(T)
  BY DEF Sound, Covers, Spread
<1>2. \A q \in T : q \in S /\ q[2] \in Nat /\ (q[2] > u => q[2] > t)
  BY DEF Promises
<1>3. Queued(b, T, u)
  BY <1>2 DEF Sound, Queued
<1>4. QED
  BY <1>1, <1>3 DEF Sound

\* Cancel either leaves the bucket alone or takes the zero back, by a period
\* less what later reservations were promised.
LEMMA CancelledZero ==
  ASSUME NEW b \in Bucket, NEW act \in Nat, NEW t \in Nat, act > t,
         act <= b.lastEvent
  PROVE  \/ Cancelled(b, act, t) = b
         \/ LET a == Cancelled(b, act, t) IN
            /\ b.lastEvent < act + Period
            /\ Zero(b) \in Int /\ Zero(a) \in Int
            /\ Zero(a) >= Zero(b) - (Period - (b.lastEvent - act))
            /\ a.lastEvent \in Int /\ a.lastEvent >= act - Period
            /\ act = b.lastEvent \/ a.lastEvent = b.lastEvent
<1> DEFINE restored == Period - (b.lastEvent - act)
           level == Level(b, t)
           sum == AtMost(Cap, level + restored)
<1>1. b.lastEvent \in Nat /\ restored \in Int
  BY CapFacts DEF Bucket
<1>2. CASE restored <= 0
  BY <1>2 DEF Cancelled
<1>3. CASE restored > 0
  <2>1. ~(act <= t \/ restored <= 0)
    BY <1>1, <1>3
  <2>2. Cancelled(b, act, t)
          = [tokens |-> sum, updated |-> t,
             lastEvent |-> IF act = b.lastEvent /\ act - Period >= t
                           THEN act - Period ELSE b.lastEvent]
    BY <2>1 DEF Cancelled
  <2>3. /\ Zero(Cancelled(b, act, t)) = t - sum
        /\ Cancelled(b, act, t).lastEvent
             = IF act = b.lastEvent /\ act - Period >= t
               THEN act - Period ELSE b.lastEvent
    BY <2>2 DEF Zero
  <2>4. /\ level \in Int /\ Zero(b) \in Int /\ level <= t - Zero(b)
    BY ZeroFacts, LevelFacts
  <2>5. sum \in Int /\ sum <= level + restored
    BY <1>1, <2>4, CapFacts DEF AtMost
  <2> HIDE DEF level, sum
  <2>6. QED
    BY <1>1, <1>3, <2>3, <2>4, <2>5, CapFacts
<1>4. QED
  BY <1>1, <1>2, <1>3

\* Cancel keeps a bucket sound for the reservations that are left.
LEMMA CancelSound ==
  ASSUME NEW b \in Bucket, NEW t \in Nat, NEW S \in SUBSET Promises, Sound(b, S, t),
         NEW p \in S, p[2] > t
  PROVE  Sound(Cancelled(b, p[2], t), S \ {p}, t)
<1> DEFINE after == Cancelled(b, p[2], t)
           T == S \ {p}
<1>a. /\ Zero(b) \in Int /\ b.lastEvent \in Nat
      /\ \A q \in S : q \in Promises /\ q[2] \in Nat
      /\ \A q \in S : q[2] > t => q[2] <= b.lastEvent /\ q[2] <= Zero(b)
  BY ZeroFacts DEF Bucket, Promises, Sound, Queued
<1>b. p[2] \in Nat /\ p[2] <= b.lastEvent /\ p[2] <= Zero(b)
  BY <1>a
<1>1. CASE after = b
  BY <1>1, LessIsSound
<1>2. CASE after # b
  <2>1. /\ b.lastEvent < p[2] + Period
        /\ Zero(after) \in Int
        /\ Zero(after) >= Zero(b) - (Period - (b.lastEvent - p[2]))
        /\ after.lastEvent \in Int /\ after.lastEvent >= p[2] - Period
        /\ p[2] = b.lastEvent \/ after.lastEvent = b.lastEvent
    BY <1>b, <1>2, CancelledZero
  <2> HIDE DEF after
  \* Those that wait and are left come before what is cancelled.
  <2>2. \A q \in T : q[2] > t => q[2] + Period <= p[2]
    <3> SUFFICES ASSUME NEW q \in T, q[2] > t PROVE q[2] + Period <= p[2]
      OBVIOUS
    <3>1. p[2] + Period <= q[2] \/ q[2] + Period <= p[2]
      BY DEF Sound, Queued
    <3>2. QED
      BY <1>a, <1>b, <2>1, <3>1, CapFacts
  <2>3. Spread(T)
    BY LessIsSound DEF Sound
  <2>4. Queued(after, T, t)
    <3>1. \A q, u \in T : q # u /\ q[2] > t /\ u[2] > t =>
            q[2] + Period <= u[2] \/ u[2] + Period <= q[2]
      BY DEF Sound, Queued
    <3>2. ASSUME NEW q \in T, q[2] > t
          PROVE  q[2] <= after.lastEvent /\ q[2] <= Zero(after)
      <4>1. q[2] + Period <= p[2] /\ q[2] \in Nat /\ q[2] <= b.lastEvent
        BY <1>a, <2>2, <3>2
      <4>2. QED
        BY <1>a, <1>b, <2>1, <4>1, CapFacts
    <3>3. QED
      BY <3>1, <3>2 DEF Queued
  <2>5. Covers(after, T)
    <3> SUFFICES ASSUME NEW s \in SUBSET T, IsFiniteSet(s), s # {},
                        NEW m \in Nat, \A q \in s : m <= q[2]
                 PROVE  m - Cap + Period * Cardinality(s) <= Zero(after)
      BY DEF Covers
    <3>1. m <= p[2]
      <4>1. PICK q \in s : m <= q[2]
        OBVIOUS
      <4>2. q \in T /\ q[2] \in Nat
        BY <1>a
      <4>3. CASE q[2] <= t
        BY <1>b, <4>1, <4>2, <4>3
      <4>4. CASE q[2] > t
        BY <1>b, <2>2, <4>1, <4>2, <4>4, CapFacts
      <4>5. QED
        BY <4>2, <4>3, <4>4
    <3>2. /\ IsFiniteSet(s \cup {p}) /\ Cardinality(s) \in Nat
          /\ Cardinality(s \cup {p}) = Cardinality(s) + 1
      BY FS_AddElement, FS_CardinalityType
    <3>3. Period * Cardinality(s \cup {p}) = Period * Cardinality(s) + Period
      <4>1. \A k \in Nat : Period * (k + 1) = Period * k + Period
        BY CapFacts
      <4>2. QED
        BY <3>2, <4>1
    <3>4. s \cup {p} \in SUBSET S /\ \A q \in s \cup {p} : m <= q[2]
      BY <3>1
    <3>5. m - Cap + Period * Cardinality(s \cup {p}) <= Zero(b)
      BY <3>2, <3>4 DEF Sound, Covers
    <3>6. Period * Cardinality(s) \in Nat
      BY <3>2, CapFacts
    <3>7. QED
      BY <1>a, <1>b, <2>1, <3>3, <3>5, <3>6, CapFacts
  <2>6. QED
    BY <2>3, <2>4, <2>5 DEF Sound, after
<1>3. QED
  BY <1>1, <1>2

-----------------------------------------------------------------------------
(* The steps of the requests.                                              *)

\* The reservations a request holds, first and rest.
LEMMA HeldFacts ==
  ASSUME FiltersTypeOK, NEW r \in Requests, held[r] # <<>>
  PROVE  /\ Head(held[r]) = held[r][1] /\ Head(held[r]) \in Nat
         /\ 1 \in DOMAIN held[r] /\ Len(held[r]) \in Nat /\ Len(held[r]) >= 1
         /\ Tail(held[r]) \in Seq(Nat) /\ Len(Tail(held[r])) = Len(held[r]) - 1
         /\ \A i \in DOMAIN Tail(held[r]) :
              i \in Nat /\ i >= 1 /\ i + 1 \in DOMAIN held[r]
                /\ Tail(held[r])[i] = held[r][i + 1]
         /\ Tail(held[r]) # <<>> => 1 \in DOMAIN Tail(held[r])
                                    /\ Head(Tail(held[r])) = Tail(held[r])[1]
<1>1. held[r] \in Seq(Nat)
  BY DEF FiltersTypeOK
<1>2. QED
  BY <1>1

\* The first of them as a promise.
LEMMA ReservationFacts ==
  ASSUME FiltersTypeOK, NEW r \in Requests, held[r] # <<>>
  PROVE  /\ Reservation(r) = Held(r, 1)
         /\ Reservation(r) \in Promises
         /\ Reservation(r)[1] = r /\ Reservation(r)[2] = Head(held[r])
         /\ Reservation(r)[3] = Len(held[r])
<1>1. /\ Head(held[r]) = held[r][1] /\ Head(held[r]) \in Nat
      /\ Len(held[r]) \in Nat /\ Len(held[r]) - 1 + 1 = Len(held[r])
  BY HeldFacts
<1>2. QED
  BY <1>1 DEF Reservation, Held, Promises

\* A sequence with one put in front.
LEMMA PrefixFacts ==
  ASSUME NEW s \in Seq(Nat), NEW e \in Nat
  PROVE  /\ <<e>> \o s # <<>> /\ Head(<<e>> \o s) = e
         /\ Len(s) \in Nat /\ Len(<<e>> \o s) = Len(s) + 1
         /\ \A i \in DOMAIN (<<e>> \o s) :
              i > 1 => i \in Nat /\ i - 1 \in DOMAIN s /\ (<<e>> \o s)[i] = s[i - 1]
  OBVIOUS

\* Who is in Passed and Live.
LEMMA LiveMembers ==
  ASSUME NEW c, NEW x
  PROVE  /\ x \in Passed(c) <=> x \in passed /\ client[x[1]] = c
         /\ x \in Live(c) <=>
              \/ x \in passed /\ client[x[1]] = c
              \/ \E q \in Requests : client[q] = c /\ held[q] # <<>> /\ x = Reservation(q)
  BY DEF Live, Passed

\* Passed and Live are promises.
LEMMA LiveType ==
  ASSUME FiltersTypeOK, NEW c \in Clients
  PROVE  Live(c) \in SUBSET Promises /\ Passed(c) \in SUBSET Promises
         /\ Passed(c) \subseteq Live(c)
<1>1. Passed(c) \in SUBSET Promises
  BY DEF Passed, FiltersTypeOK, Promises
<1>2. \A q \in Requests : held[q] # <<>> => Reservation(q) \in Promises
  BY ReservationFacts
<1>3. QED
  BY <1>1, <1>2 DEF Live

\* A bucket is no later than the clock.
LEMMA BucketFacts ==
  ASSUME FiltersTypeOK, NEW c \in Clients
  PROVE  /\ buckets[c] \in Bucket /\ buckets[c].tokens <= Cap
         /\ buckets[c].updated <= clock /\ clock \in Nat
  BY InstanceFacts DEF FiltersTypeOK, Bucket

\* Sound of what is primed, by its values.
LEMMA SoundFor ==
  ASSUME NEW b, NEW S, NEW t, Sound(b, S, t),
         NEW c \in Clients, buckets'[c] = b, Live(c)' = S, clock' = t
  PROVE  Sound(buckets[c], Live(c), clock)'
  BY DEF Sound, Covers, Spread, Queued, Zero

\* Reserve keeps every promise covered.
LEMMA ReserveRate ==
  ASSUME FiltersTypeOK, RateInv, NEW r \in Requests, Reserve(r)
  PROVE  RateInv'
<1>0. PICK c \in Clients : c = client[r]
  BY DEF Reserve, FiltersTypeOK
<1> DEFINE act == Reserved(buckets[c], clock).act
           after == Reserved(buckets[c], clock).bucket
           p == <<r, act, Len(held[r]) + 1>>
<1>1. /\ stage[r] = "ratelimit" /\ stage'[r] = "reserved"
      /\ \A q \in Requests \ {r} : stage'[q] = stage[q] /\ held'[q] = held[q]
      /\ held'[r] = <<act>> \o held[r] /\ held[r] \in Seq(Nat)
      /\ buckets'[c] = after /\ \A d \in Clients \ {c} : buckets'[d] = buckets[d]
      /\ UNCHANGED <<clock, passed, client>>
  BY <1>0 DEF Reserve, Goes, FiltersTypeOK
<1>2. act \in Nat
  BY <1>1, BucketFacts, ReservedFacts
<1>3. /\ held'[r] # <<>> /\ Head(held'[r]) = act /\ Len(held[r]) \in Nat
      /\ Len(held'[r]) = Len(held[r]) + 1
      /\ \A i \in DOMAIN held'[r] : i > 1 => /\ i \in Nat /\ i - 1 \in DOMAIN held[r]
                                             /\ held'[r][i] = held[r][i - 1]
  BY <1>1, <1>2, PrefixFacts
<1>a. Reservation(r)' = p
  BY <1>3 DEF Reservation
<1>b. p \in Promises /\ p[2] = act
  BY <1>2, <1>3 DEF Promises
<1>c. \A q \in Requests \ {r} : Reservation(q)' = Reservation(q)
  BY <1>1 DEF Reservation
<1> HIDE DEF act, after, p
<1>4. held[r] # <<>> => Reservation(r) \in passed
  <2> SUFFICES ASSUME held[r] # <<>> PROVE Held(r, 1) \in passed
    BY ReservationFacts
  <2>1. 1 \in DOMAIN held[r]
    BY HeldFacts
  <2>2. QED
    BY <1>1, <2>1 DEF RateInv
<1>5. Live(c)' = Live(c) \cup {p}
  <2>1. ASSUME NEW x PROVE x \in Live(c)' <=> x \in Live(c) \/ x = p
    <3>1. x \in Live(c)' <=>
            \/ x \in passed /\ client[x[1]] = c
            \/ \E q \in Requests : client[q] = c /\ held'[q] # <<>> /\ x = Reservation(q)'
      BY <1>1 DEF Live, Passed
    <3>2. p \in Live(c)'
      BY <1>0, <1>1, <1>3, <1>a DEF Live, Passed
    <3>3. ASSUME x \in Live(c) PROVE x \in Live(c)'
      <4>1. CASE x \in passed /\ client[x[1]] = c
        BY <3>1, <4>1
      <4>2. ASSUME NEW q \in Requests, client[q] = c, held[q] # <<>>, x = Reservation(q)
            PROVE  x \in Live(c)'
        <5>1. CASE q = r
          BY <1>4, <3>1, <4>2, <5>1, ReservationFacts
        <5>2. CASE q # r
          BY <1>1, <1>c, <3>1, <4>2, <5>2
        <5>3. QED
          BY <5>1, <5>2
      <4>3. QED
        BY <3>3, <4>1, <4>2, LiveMembers
    <3>4. ASSUME x \in Live(c)', x # p PROVE x \in Live(c)
      <4>1. CASE x \in passed /\ client[x[1]] = c
        BY <4>1, LiveMembers
      <4>2. ASSUME NEW q \in Requests, client[q] = c, held'[q] # <<>>, x = Reservation(q)'
            PROVE  x \in Live(c)
        <5>1. q # r
          BY <1>a, <3>4, <4>2
        <5>2. QED
          BY <1>1, <1>c, <4>2, <5>1, LiveMembers
      <4>3. QED
        BY <3>1, <3>4, <4>1, <4>2
    <3>5. QED
      BY <3>2, <3>3, <3>4
  <2>2. QED
    BY <2>1
<1>6. ASSUME NEW d \in Clients \ {c} PROVE Live(d)' = Live(d)
  <2>1. ASSUME NEW x PROVE x \in Live(d)' <=> x \in Live(d)
    <3>1. x \in Live(d)' <=>
            \/ x \in passed /\ client[x[1]] = d
            \/ \E q \in Requests : client[q] = d /\ held'[q] # <<>> /\ x = Reservation(q)'
      BY <1>1 DEF Live, Passed
    <3>2. QED
      BY <1>0, <1>1, <1>c, <3>1, LiveMembers
  <2>2. QED
    BY <2>1
<1>7. \A d \in Clients : Sound(buckets[d], Live(d), clock)'
  <2>1. Sound(after, Live(c) \cup {p}, clock)
    BY <1>b, LiveType, BucketFacts, ReserveSound DEF RateInv, act, after
  <2>2. Sound(buckets[c], Live(c), clock)'
    BY <1>1, <1>5, <2>1, SoundFor
  <2>3. ASSUME NEW d \in Clients \ {c} PROVE Sound(buckets[d], Live(d), clock)'
    BY <1>1, <1>6, SoundFor DEF RateInv
  <2>4. QED
    BY <2>2, <2>3
<1>8. \A q \in Requests : \A i \in DOMAIN held'[q] :
        i > 1 \/ stage'[q] \notin {"reserved", "return"} => Held(q, i)' \in passed'
  <2>1. ASSUME NEW i \in DOMAIN held'[r], i > 1 PROVE Held(r, i)' \in passed'
    <3>1. /\ i \in Nat /\ i - 1 \in DOMAIN held[r]
          /\ held'[r][i] = held[r][i - 1]
      BY <1>3, <2>1
    <3>2. Len(held'[r]) - i + 1 = Len(held[r]) - (i - 1) + 1
      BY <1>3, <3>1
    <3>3. Held(r, i)' = Held(r, i - 1)
      BY <3>1, <3>2 DEF Held
    <3>4. CASE i - 1 > 1 \/ stage[r] \notin {"reserved", "return"}
      BY <1>1, <3>1, <3>3, <3>4 DEF RateInv
    <3>5. QED
      BY <1>1, <3>4
  <2>2. ASSUME NEW q \in Requests \ {r}, NEW i \in DOMAIN held'[q],
               i > 1 \/ stage'[q] \notin {"reserved", "return"}
        PROVE  Held(q, i)' \in passed'
    <3>1. Held(q, i)' = Held(q, i) /\ i \in DOMAIN held[q]
      BY <1>1, <2>2 DEF Held
    <3>2. QED
      BY <1>1, <2>2, <3>1 DEF RateInv
  <2>3. QED
    BY <1>1, <2>1, <2>2
<1>9. \A x \in passed' : x[2] <= clock' /\ stage'[x[1]] # "idle"
  <2>1. \A q \in Requests : stage[q] # "idle" => stage'[q] # "idle"
    BY <1>1
  <2>2. \A x \in passed : x[1] \in Requests
    BY DEF FiltersTypeOK
  <2>3. QED
    BY <1>1, <2>1, <2>2 DEF RateInv
<1>10. QED
  BY <1>1, <1>7, <1>8, <1>9 DEF RateInv

\* Delay counts a reservation as passed, or leaves it to be cancelled.
LEMMA JudgeRate ==
  ASSUME FiltersTypeOK, Equipped, RateInv, NEW r \in Requests, Judge(r)
  PROVE  RateInv'
<1>1. /\ stage[r] = "reserved" /\ held[r] # <<>>
      /\ \A q \in Requests \ {r} : stage'[q] = stage[q]
      /\ UNCHANGED <<clock, buckets, held, client>>
      /\ \/ stage'[r] = "return" /\ passed' = passed
         \/ /\ stage'[r] = "dispatch" /\ passed' = passed \cup {Reservation(r)}
            /\ Head(held[r]) <= clock
  BY DEF Judge, Goes, FiltersTypeOK, Equipped
<1>a. /\ Reservation(r)[1] = r /\ Reservation(r)[2] = Head(held[r])
      /\ Reservation(r) = Held(r, 1)
  BY <1>1, ReservationFacts
<1>b. \A q \in Requests : Reservation(q)' = Reservation(q)
  BY <1>1 DEF Reservation
<1>2. ASSUME NEW c \in Clients PROVE Live(c)' = Live(c)
  <2>1. ASSUME NEW x PROVE x \in Live(c)' <=> x \in Live(c)
    <3>1. x \in Live(c)' <=>
            \/ x \in passed' /\ client[x[1]] = c
            \/ \E q \in Requests : client[q] = c /\ held[q] # <<>> /\ x = Reservation(q)
      BY <1>1, <1>b DEF Live, Passed
    <3>2. QED
      BY <1>1, <1>a, <3>1, LiveMembers
  <2>2. QED
    BY <2>1
<1>3. \A c \in Clients : Sound(buckets[c], Live(c), clock)'
  BY <1>1, <1>2, SoundFor DEF RateInv
<1>4. IsFiniteSet(passed')
  BY <1>1, FS_AddElement DEF RateInv
<1>5. \A x \in passed' : x[2] <= clock' /\ stage'[x[1]] # "idle"
  <2>1. \A q \in Requests : stage[q] # "idle" => stage'[q] # "idle"
    BY <1>1
  <2>2. \A x \in passed : x[1] \in Requests
    BY DEF FiltersTypeOK
  <2>3. QED
    BY <1>1, <1>a, <2>1, <2>2 DEF RateInv
<1>6. \A q \in Requests : \A i \in DOMAIN held'[q] :
        i > 1 \/ stage'[q] \notin {"reserved", "return"} => Held(q, i)' \in passed'
  <2>a. ASSUME NEW q \in Requests, NEW i PROVE Held(q, i)' = Held(q, i)
    BY <1>1 DEF Held
  <2>1. ASSUME NEW i \in DOMAIN held[r],
               i > 1 \/ stage'[r] \notin {"reserved", "return"}
        PROVE  Held(r, i) \in passed'
    <3>1. held[r] \in Seq(Nat) /\ i \in Nat /\ i >= 1
      BY DEF FiltersTypeOK
    <3>2. CASE i > 1
      BY <1>1, <3>2 DEF RateInv
    <3>3. CASE i = 1 /\ stage'[r] # "return"
      BY <1>1, <1>a, <3>3
    <3>4. QED
      BY <2>1, <3>1, <3>2, <3>3
  <2>2. QED
    BY <1>1, <2>a, <2>1 DEF RateInv
<1>7. QED
  BY <1>3, <1>4, <1>5, <1>6 DEF RateInv

\* Cancel forgets the latest reservation of a request.
LEMMA CancelRate ==
  ASSUME FiltersTypeOK, Equipped, RateInv, NEW r \in Requests, Cancel(r)
  PROVE  RateInv'
<1>0. PICK c \in Clients : c = client[r]
  BY DEF Cancel, Equipped
<1> DEFINE act == Head(held[r])
           p == Reservation(r)
           after == Cancelled(buckets[c], act, clock)
<1>1. /\ held[r] # <<>> /\ stage[r] = "return" /\ UNCHANGED <<clock, passed, client>>
      /\ \A q \in Requests : stage'[q] = stage[q]
      /\ \A q \in Requests \ {r} : held'[q] = held[q]
      /\ held'[r] = Tail(held[r])
      /\ buckets'[c] = after /\ \A d \in Clients \ {c} : buckets'[d] = buckets[d]
  BY <1>0 DEF Cancel, Goes, FiltersTypeOK
<1>2. act \in Nat /\ p \in Live(c) /\ p[2] = act
  BY <1>0, <1>1, HeldFacts, ReservationFacts, LiveMembers
<1>a. \A q \in Requests \ {r} : Reservation(q)' = Reservation(q)
  BY <1>1 DEF Reservation
<1>3. ASSUME NEW i \in DOMAIN held'[r] PROVE Held(r, i)' \in passed
  <2>1. /\ i \in Nat /\ i >= 1 /\ i + 1 \in DOMAIN held[r]
        /\ held'[r][i] = held[r][i + 1]
        /\ Len(held[r]) \in Nat /\ Len(held'[r]) = Len(held[r]) - 1
    BY <1>1, <1>3, HeldFacts
  <2>2. Held(r, i)' = Held(r, i + 1)
    BY <2>1 DEF Held
  <2>3. QED
    BY <2>1, <2>2 DEF RateInv
<1>4. held'[r] # <<>> => Reservation(r)' \in passed
  <2> SUFFICES ASSUME held'[r] # <<>> PROVE Reservation(r)' \in passed
    OBVIOUS
  <2>1. 1 \in DOMAIN held'[r] /\ Head(held'[r]) = held'[r][1] /\ Len(held'[r]) \in Nat
    BY <1>1, HeldFacts
  <2>2. Len(held'[r]) - 1 + 1 = Len(held'[r])
    BY <2>1
  <2>3. Reservation(r)' = Held(r, 1)'
    BY <2>1, <2>2 DEF Reservation, Held
  <2>4. QED
    BY <1>3, <2>1, <2>3
<1>5. ASSUME NEW d \in Clients \ {c} PROVE Live(d)' = Live(d)
  <2>1. ASSUME NEW x PROVE x \in Live(d)' <=> x \in Live(d)
    <3>1. x \in Live(d)' <=>
            \/ x \in passed /\ client[x[1]] = d
            \/ \E q \in Requests : client[q] = d /\ held'[q] # <<>> /\ x = Reservation(q)'
      BY <1>1 DEF Live, Passed
    <3>2. QED
      BY <1>0, <1>1, <1>a, <3>1, LiveMembers
  <2>2. QED
    BY <2>1
<1>b. ~(p \in passed) => Reservation(r)' # p \/ held'[r] = <<>>
  BY <1>4
<1>c. \A q \in Requests \ {r} : held[q] # <<>> => Reservation(q) # p
  BY <1>1, ReservationFacts
<1>6. Live(c)' \subseteq Live(c) /\ (p \in Live(c)' => p \in passed)
  <2>1. ASSUME NEW x \in Live(c)'
        PROVE  x \in Live(c) /\ (x = p => p \in passed)
    <3>1. \/ x \in passed /\ client[x[1]] = c
          \/ \E q \in Requests : client[q] = c /\ held'[q] # <<>> /\ x = Reservation(q)'
      BY <1>1, <2>1 DEF Live, Passed
    <3>2. CASE x \in passed /\ client[x[1]] = c
      BY <3>2, LiveMembers
    <3>3. ASSUME NEW q \in Requests, client[q] = c, held'[q] # <<>>, x = Reservation(q)'
          PROVE  x \in Live(c) /\ (x = p => p \in passed)
      <4>1. CASE q = r
        <5>1. x \in passed
          BY <1>4, <3>3, <4>1
        <5>2. x[1] = r
          BY <3>3, <4>1 DEF Reservation
        <5>3. QED
          BY <1>0, <5>1, <5>2, LiveMembers
      <4>2. CASE q # r
        <5>1. x = Reservation(q) /\ held[q] # <<>>
          BY <1>1, <1>a, <3>3, <4>2
        <5>2. QED
          BY <1>c, <3>3, <4>2, <5>1, LiveMembers
      <4>3. QED
        BY <4>1, <4>2
    <3>4. QED
      BY <3>1, <3>2, <3>3
  <2>2. QED
    BY <2>1
<1> HIDE DEF act, p, after
<1>7. Sound(after, Live(c)', clock)
  <2>1. Sound(buckets[c], Live(c), clock) /\ Live(c) \in SUBSET Promises
    BY LiveType DEF RateInv
  <2>2. CASE act <= clock
    <3>1. after = buckets[c]
      BY <2>2 DEF Cancelled, after
    <3>2. QED
      BY <1>6, <2>1, <3>1, BucketFacts, LessIsSound
  <2>3. CASE act > clock
    <3>1. p \notin passed
      BY <1>2, <2>3, BucketFacts DEF RateInv
    <3>2. Live(c)' \in SUBSET (Live(c) \ {p})
      BY <1>6, <3>1
    <3>3. Sound(Cancelled(buckets[c], p[2], clock), Live(c) \ {p}, clock)
      BY <1>2, <2>1, <2>3, BucketFacts, CancelSound
    <3>4. Cancelled(buckets[c], p[2], clock) = after /\ after \in Bucket
      BY <1>2, BucketFacts, CancelledFacts DEF after
    <3>5. QED
      BY <2>1, <3>2, <3>3, <3>4, BucketFacts, LessIsSound
  <2>4. QED
    BY <1>2, <2>2, <2>3, BucketFacts
<1>8. \A d \in Clients : Sound(buckets[d], Live(d), clock)'
  <2>1. Sound(buckets[c], Live(c), clock)'
    BY <1>1, <1>7, SoundFor
  <2>2. ASSUME NEW d \in Clients \ {c} PROVE Sound(buckets[d], Live(d), clock)'
    BY <1>1, <1>5, SoundFor DEF RateInv
  <2>3. QED
    BY <2>1, <2>2
<1>9. \A x \in passed' : x[2] <= clock' /\ stage'[x[1]] # "idle"
  <2>1. \A x \in passed : x[1] \in Requests
    BY DEF FiltersTypeOK
  <2>2. QED
    BY <1>1, <2>1 DEF RateInv
<1>10. \A q \in Requests : \A i \in DOMAIN held'[q] :
        i > 1 \/ stage'[q] \notin {"reserved", "return"} => Held(q, i)' \in passed'
  <2>1. \A i \in DOMAIN held'[r] : Held(r, i)' \in passed'
    BY <1>1, <1>3
  <2>2. ASSUME NEW q \in Requests \ {r}, NEW i \in DOMAIN held'[q],
               i > 1 \/ stage'[q] \notin {"reserved", "return"}
        PROVE  Held(q, i)' \in passed'
    <3>1. Held(q, i)' = Held(q, i) /\ i \in DOMAIN held[q]
      BY <1>1, <2>2 DEF Held
    <3>2. QED
      BY <1>1, <2>2, <3>1 DEF RateInv
  <2>3. QED
    BY <2>1, <2>2
<1>11. QED
  BY <1>1, <1>8, <1>9, <1>10 DEF RateInv

\* The other steps leave the reservations alone.
LEMMA IdleRate ==
  ASSUME FiltersTypeOK, Equipped, RateInv, NEW r \in Requests,
         Arrive(r) \/ Compare(r) \/ Load(r) \/ Store(r) \/ Dispatch(r)
           \/ RunCors(r) \/ NoIPAddr(r) \/ Proxied(r) \/ Done(r)
  PROVE  RateInv'
<1>1. UNCHANGED limitVars
  BY DispatchesTo DEF Arrive, Compare, Load, Store, RunCors, NoIPAddr,
     Proxied, Done, servedVars
<1>2. Arrive(r) \/ Serve(r)
  BY DEF Serve
<1>3. \A q \in Requests \ {r} : stage'[q] = stage[q] /\ client'[q] = client[q]
  BY <1>2, OthersRest
<1>4. /\ stage'[r] # "idle"
      /\ stage[r] # "idle" => client'[r] = client[r]
      /\ stage[r] = "idle" => held[r] = <<>> /\ \A p \in passed : p[1] # r
  <2>1. stage'[r] # "idle"
    BY <1>2, StageFacts
  <2>2. stage[r] # "idle" => UNCHANGED client
    BY StageFacts, DispatchesTo
       DEF Compare, Load, Store, RunCors, NoIPAddr, Proxied, Done, Arrive, servedVars
  <2>3. QED
    BY <2>1, <2>2 DEF Equipped, RateInv
<1>5. stage'[r] \notin {"reserved", "return"} =>
        stage[r] \notin {"reserved", "return"} \/ held[r] = <<>>
  <2>1. stage[r] \in {"reserved", "return"} => Done(r)
    BY StageFacts DEF Arrive, Compare, Load, Store, RunCors, NoIPAddr, Proxied,
       Dispatch, Goes
  <2>2. QED
    BY <2>1 DEF Done
<1>6. ASSUME NEW c \in Clients PROVE Live(c)' = Live(c)
  <2>1. /\ \A q \in Requests : held[q] # <<>> => client'[q] = client[q]
        /\ \A p \in passed : p[1] \in Requests /\ client'[p[1]] = client[p[1]]
    BY <1>3, <1>4 DEF FiltersTypeOK
  <2>a. \A q \in Requests : Reservation(q)' = Reservation(q)
    BY <1>1 DEF Reservation, limitVars
  <2>2. ASSUME NEW x PROVE x \in Live(c)' <=> x \in Live(c)
    <3>1. x \in Live(c)' <=>
            \/ x \in passed /\ client'[x[1]] = c
            \/ \E q \in Requests : client'[q] = c /\ held[q] # <<>> /\ x = Reservation(q)
      BY <1>1, <2>a DEF Live, Passed, limitVars
    <3>2. QED
      BY <2>1, <3>1, LiveMembers
  <2>3. QED
    BY <2>2
<1>7. \A c \in Clients : Sound(buckets[c], Live(c), clock)'
  BY <1>1, <1>6, SoundFor DEF RateInv, limitVars
<1>8. \A x \in passed' : x[2] <= clock' /\ stage'[x[1]] # "idle"
  BY <1>1, <1>3, <1>4 DEF RateInv, limitVars, FiltersTypeOK
<1>9. \A q \in Requests : \A i \in DOMAIN held'[q] :
        i > 1 \/ stage'[q] \notin {"reserved", "return"} => Held(q, i)' \in passed'
  <2> SUFFICES ASSUME NEW q \in Requests, NEW i,
                      i \in DOMAIN held'[q],
                      i > 1 \/ stage'[q] \notin {"reserved", "return"}
               PROVE  Held(q, i)' \in passed'
    BY Zenon
  <2>1. /\ Held(q, i)' = Held(q, i) /\ passed' = passed
        /\ held'[q] = held[q] /\ held[q] # <<>>
    BY <1>1 DEF Held, limitVars
  <2>2. i > 1 \/ stage[q] \notin {"reserved", "return"}
    BY <1>3, <1>5, <2>1
  <2>3. QED
    BY <2>1, <2>2 DEF RateInv
<1>10. QED
  BY <1>1, <1>7, <1>8, <1>9 DEF RateInv, limitVars

\* The invariant of the rate is inductive.
LEMMA RateStep ==
  FilterInv /\ RateInv /\ [FiltersNext]_filterVars => RateInv'
<1> SUFFICES ASSUME FilterInv, RateInv, [FiltersNext]_filterVars PROVE RateInv'
  OBVIOUS
<1>a. FiltersTypeOK /\ Equipped
  BY DEF FilterInv
<1>1. CASE UNCHANGED filterVars
  <2>1. UNCHANGED <<passed, clock, held, stage, client, buckets>>
    BY <1>1 DEF filterVars, servedVars, limitVars
  <2>2. \A c \in Clients : Live(c)' = Live(c)
    BY <2>1 DEF Live, Passed, Reservation
  <2>3. \A c \in Clients : Sound(buckets[c], Live(c), clock)'
    BY <2>1, <2>2, SoundFor DEF RateInv
  <2>4. QED
    BY <2>1, <2>3 DEF RateInv, Held
<1>2. CASE Tick
  <2>1. clock' = clock + 1 /\ UNCHANGED <<passed, held, stage, client, buckets>>
    BY <1>2 DEF Tick
  <2>2. ASSUME NEW c \in Clients PROVE Sound(buckets[c], Live(c), clock)'
    <3>1. /\ buckets[c] \in Bucket /\ clock \in Nat /\ Live(c) \in SUBSET Promises
          /\ Sound(buckets[c], Live(c), clock)
      BY <1>a, LiveType, BucketFacts DEF RateInv
    <3>2. Live(c)' = Live(c)
      BY <2>1 DEF Live, Passed, Reservation
    <3>3. Sound(buckets[c], Live(c), clock + 1)
      BY <3>1, LessIsSound
    <3>4. QED
      BY <2>1, <3>2, <3>3, SoundFor
  <2>3. \A p \in passed : p[2] <= clock'
    BY <1>a, <2>1, InstanceFacts DEF RateInv, FiltersTypeOK
  <2>4. QED
    BY <2>1, <2>2, <2>3 DEF RateInv, Held
<1>3. ASSUME NEW r \in Requests, Arrive(r) \/ Serve(r) PROVE RateInv'
  BY <1>a, <1>3, ReserveRate, JudgeRate, CancelRate, IdleRate DEF Serve
<1>4. QED
  BY <1>1, <1>2, <1>3 DEF FiltersNext

\* The invariant of the rate at the start.
LEMMA RateInit == FiltersInit => RateInv
<1> SUFFICES ASSUME FiltersInit PROVE RateInv
  OBVIOUS
<1>1. passed = {} /\ \A r \in Requests : held[r] = <<>>
  BY DEF FiltersInit
<1>2. \A c \in Clients : Live(c) = {}
  BY <1>1 DEF Live, Passed
<1>3. \A c \in Clients : Sound(buckets[c], Live(c), clock)
  BY <1>2 DEF Sound, Covers, Spread, Queued
<1>4. IsFiniteSet(passed)
  BY <1>1, FS_EmptySet
<1>5. QED
  BY <1>1, <1>3, <1>4 DEF RateInv

-----------------------------------------------------------------------------
\* Every bucket covers what it has promised, in every reachable state.
THEOREM RateSafe == FiltersSpec => [](FilterInv /\ RateInv)
<1>1. FiltersInit => FilterInv /\ RateInv
  BY FilterInvInit, RateInit
<1>2. FilterInv /\ RateInv /\ [FiltersNext]_filterVars => (FilterInv /\ RateInv)'
  BY FilterInvStep, RateStep
<1>3. QED
  BY <1>1, <1>2, PTL DEF FiltersSpec

\* In any stretch of time no more requests of a client pass than the burst
\* and a token for every period, whatever is refused and cancelled between.
THEOREM RateBounded == Spec => []RateBound
<1>1. FilterInv /\ RateInv => RateBound
  <2> SUFFICES ASSUME FilterInv, RateInv, NEW c \in Clients,
                      NEW s \in SUBSET {p \in passed : client[p[1]] = c}, s # {}
               PROVE  Period * (Cardinality(s) - Burst)
                        <= Max({p[2] : p \in s}) - Min({p[2] : p \in s})
    BY DEF RateBound
  <2> DEFINE times == {p[2] : p \in s}
  <2>0. FiltersTypeOK
    BY DEF FilterInv
  <2>1. FiltersTypeOK /\ clock \in Nat
    BY <2>0, BucketFacts
  <2>2. times \in SUBSET Nat /\ times # {} /\ \A y \in times : y <= clock
    BY <2>1 DEF RateInv, FiltersTypeOK
  <2>3. /\ Max(times) \in times /\ \A y \in times : Max(times) >= y
        /\ Min(times) \in times /\ \A y \in times : Min(times) <= y
    BY <2>1, <2>2, MinFacts, MaxFacts
  <2>4. s \in SUBSET Live(c) /\ IsFiniteSet(s) /\ Cardinality(s) \in Nat
    BY FS_Subset, FS_CardinalityType DEF Live, Passed, RateInv
  <2>5. PICK m \in Nat, z \in Nat : m = Min(times) /\ z = Max(times)
    BY <2>2, <2>3
  <2>6. \A p \in s : m <= p[2] /\ p[2] <= z
    BY <2>2, <2>3, <2>5
  <2>7. Period * Cardinality(s) - Cap <= z - m
    BY <2>4, <2>6 DEF RateInv, Sound, Spread
  <2>8. Period * (Cardinality(s) - Burst) = Period * Cardinality(s) - Cap
    <3>1. \A k, n, b \in Nat : k * (n - b) = k * n - b * k
      OBVIOUS
    <3>2. QED
      BY <2>4, <3>1, TokenBucketAssumption DEF Cap
  <2>9. QED
    BY <2>5, <2>7, <2>8
<1>2. QED
  BY <1>1, GatewayRunsFilters, RateSafe, PTL

-----------------------------------------------------------------------------
(* A refused request costs its client nothing.                             *)

\* When a bucket that lent out S would hold as much as it owes to those that
\* act from time m on.
Owed(S, m) == m - Cap + Period * Cardinality({q \in S : q[2] >= m})

\* From z on, what S has taken is paid back: at t it is so, or some
\* reservation of S owes it.
Due(z, S, t) == z <= t - Cap \/ \E p \in S : z <= Owed(S, p[2])

\* No request of the client waits to be judged, and the bucket knows of no
\* other reservations than those that passed ...
Quiet(c) ==
  /\ \A q \in Requests : client[q] = c => ~Undecided(q)
  /\ Due(Zero(buckets[c]), Passed(c), clock)

\* ... or one does, and the bucket knows of its reservation besides. As long
\* as that one may be cancelled, it is the last one, and the bucket would owe
\* what Passed(c) owes without it.
Waiting(c, r) ==
  /\ client[r] = c /\ Undecided(r)
  /\ \A q \in Requests \ {r} : client[q] = c => ~Undecided(q)
  /\ Due(Zero(buckets[c]), Passed(c) \cup {Reservation(r)}, clock)
  /\ Head(held[r]) > clock =>
       /\ buckets[c].lastEvent = Head(held[r])
       /\ Due(Zero(buckets[c]) - Period, Passed(c), clock)

\* The reservations of a request are numbered, and none has passed twice.
Numbered(r) ==
  \A p \in passed : p[1] = r =>
    /\ stage[r] \notin {"return", "done"} => p[3] <= Len(held[r])
    /\ stage[r] = "reserved" => p[3] < Len(held[r])

FreeInv ==
  /\ \A r \in Requests : Numbered(r)
  /\ \A c \in Clients \ crossed : Quiet(c) \/ \E r \in Requests : Waiting(c, r)

\* What is owed when a promise is added.
LEMMA OwedFacts ==
  ASSUME NEW S \in SUBSET Promises, IsFiniteSet(S), NEW m \in Nat
  PROVE  /\ Owed(S, m) \in Int
         /\ \A p \in Promises : m <= p[2] =>
              /\ p \notin S => Owed(S \cup {p}, m) = Owed(S, m) + Period
              /\ Owed(S \cup {p}, m) >= m - Cap + Period
<1> DEFINE since(s) == {q \in s : q[2] >= m}
<1>1. ASSUME NEW s \in SUBSET Promises, IsFiniteSet(s)
      PROVE  /\ IsFiniteSet(since(s)) /\ Cardinality(since(s)) \in Nat
             /\ Owed(s, m) = m - Cap + Period * Cardinality(since(s))
             /\ Owed(s, m) \in Int
  <2>1. IsFiniteSet(since(s))
    BY <1>1, FS_Subset
  <2>2. Cardinality(since(s)) \in Nat
    BY <2>1, FS_CardinalityType
  <2>3. Owed(s, m) = m - Cap + Period * Cardinality(since(s))
    BY DEF Owed
  <2> HIDE DEF since
  <2>4. QED
    BY <2>1, <2>2, <2>3, CapFacts
<1>2. ASSUME NEW p \in Promises, m <= p[2]
      PROVE  /\ p \notin S => Owed(S \cup {p}, m) = Owed(S, m) + Period
             /\ Owed(S \cup {p}, m) >= m - Cap + Period
  <2>1. S \cup {p} \in SUBSET Promises /\ IsFiniteSet(S \cup {p})
    BY FS_AddElement
  <2>2. p \in since(S \cup {p}) /\ (p \notin S => since(S \cup {p}) \ {p} = since(S))
    BY <1>2 DEF Promises
  <2>3. /\ IsFiniteSet(since(S)) /\ Cardinality(since(S)) \in Nat
        /\ Owed(S, m) = m - Cap + Period * Cardinality(since(S))
    BY <1>1
  <2>4. /\ IsFiniteSet(since(S \cup {p})) /\ Cardinality(since(S \cup {p})) \in Nat
        /\ Owed(S \cup {p}, m) = m - Cap + Period * Cardinality(since(S \cup {p}))
    BY <1>1, <2>1
  <2> HIDE DEF since
  <2>5. /\ Cardinality(since(S \cup {p}) \ {p}) \in Nat
        /\ Period * Cardinality(since(S \cup {p}))
             = Period * Cardinality(since(S \cup {p}) \ {p}) + Period
    BY <2>2, <2>4, CountOne
  <2>6. Period * Cardinality(since(S \cup {p}) \ {p}) \in Nat
    BY <2>5, CapFacts
  <2>7. Owed(S \cup {p}, m) >= m - Cap + Period
    BY <2>4, <2>5, <2>6, CapFacts
  <2>8. p \notin S => Owed(S \cup {p}, m) = Owed(S, m) + Period
    <3> SUFFICES ASSUME p \notin S PROVE Owed(S \cup {p}, m) = Owed(S, m) + Period
      OBVIOUS
    <3>1. since(S \cup {p}) \ {p} = since(S)
      BY <2>2
    <3>2. PICK k \in Nat : k = Period * Cardinality(since(S))
      BY <2>6, <3>1
    <3>3. Period * Cardinality(since(S \cup {p})) = k + Period
      BY <2>5, <3>1, <3>2
    <3>4. Owed(S, m) = m - Cap + k /\ Owed(S \cup {p}, m) = m - Cap + (k + Period)
      BY <2>3, <2>4, <3>2, <3>3
    <3>5. QED
      BY <3>4, CapFacts
  <2>9. QED
    BY <2>7, <2>8
<1>3. QED
  BY <1>1, <1>2

\* What is due stays due as time passes.
LEMMA DueLater ==
  ASSUME NEW z \in Int, NEW S, NEW t \in Nat, NEW u \in Nat, t <= u, Due(z, S, t)
  PROVE  Due(z, S, u)
<1>1. z <= t - Cap => z <= u - Cap
  BY CapFacts
<1>2. QED
  BY <1>1 DEF Due

\* Reserve takes one period, which comes back unless others have taken it.
LEMMA ReserveDue ==
  ASSUME NEW b \in Bucket, NEW t \in Nat, NEW S \in SUBSET Promises, IsFiniteSet(S),
         \A q \in S : q[2] <= t, Due(Zero(b), S, t),
         NEW p \in Promises, p \notin S, p[2] = Reserved(b, t).act
  PROVE  /\ Due(Zero(Reserved(b, t).bucket), S \cup {p}, t)
         /\ Due(Zero(Reserved(b, t).bucket) - Period, S, t)
<1> DEFINE z == Zero(Reserved(b, t).bucket)
<1>1. /\ Zero(b) \in Int /\ z \in Int /\ p[2] \in Nat
      /\ z = Zero(b) + Period \/ z = t - Cap + Period
      /\ p[2] >= t
  BY ReservedZero
<1>2. /\ Owed(S \cup {p}, p[2]) \in Int
      /\ Owed(S \cup {p}, p[2]) >= p[2] - Cap + Period
  <2>1. IsFiniteSet(S \cup {p}) /\ S \cup {p} \in SUBSET Promises
    BY FS_AddElement
  <2>2. QED
    BY <1>1, <2>1, OwedFacts
<1> HIDE DEF z
<1>3. CASE z <= t - Cap + Period
  <2>1. z - Period <= t - Cap
    BY <1>1, <1>3, CapFacts
  <2>2. z <= Owed(S \cup {p}, p[2])
    BY <1>1, <1>2, <1>3, CapFacts
  <2>3. QED
    BY <2>1, <2>2 DEF Due, z
<1>4. CASE ~(z <= t - Cap + Period)
  <2>1. z = Zero(b) + Period /\ ~(Zero(b) <= t - Cap) /\ z - Period = Zero(b)
    BY <1>1, <1>4, CapFacts
  <2>2. PICK q \in S : Zero(b) <= Owed(S, q[2])
    BY <2>1 DEF Due
  <2>3. q[2] \in Nat /\ q[2] <= p[2]
    BY <1>1 DEF Promises
  <2>4. Owed(S, q[2]) \in Int /\ Owed(S \cup {p}, q[2]) = Owed(S, q[2]) + Period
    BY <2>3, OwedFacts
  <2>5. z <= Owed(S \cup {p}, q[2])
    BY <1>1, <2>1, <2>2, <2>4, CapFacts
  <2>6. QED
    BY <2>1, <2>2, <2>5 DEF Due, z
<1>5. QED
  BY <1>3, <1>4

\* Cancel of the last reservation, in time, gives all of it back.
LEMMA CancelDue ==
  ASSUME NEW b \in Bucket, NEW t \in Nat, NEW S, NEW act \in Nat, act > t,
         act = b.lastEvent, Due(Zero(b) - Period, S, t)
  PROVE  Due(Zero(Cancelled(b, act, t)), S, t)
<1> DEFINE level == Level(b, t)
           sum == AtMost(Cap, level + Period)
<1>1. Period - (b.lastEvent - act) = Period /\ ~(act <= t \/ Period <= 0)
  BY CapFacts
<1>2. Cancelled(b, act, t)
        = [tokens |-> sum, updated |-> t,
           lastEvent |-> IF act = b.lastEvent /\ act - Period >= t
                         THEN act - Period ELSE b.lastEvent]
  BY <1>1 DEF Cancelled
<1>3. Zero(Cancelled(b, act, t)) = t - sum
  BY <1>2 DEF Zero
<1>4. /\ level \in Int /\ Zero(b) \in Int
      /\ level = IF t - Zero(b) <= Cap THEN t - Zero(b) ELSE Cap
  BY ZeroFacts, LevelFacts
<1>5. sum = IF Cap <= level + Period THEN Cap ELSE level + Period
  BY DEF AtMost
<1> HIDE DEF level, sum
<1>6. sum = Cap \/ t - sum = Zero(b) - Period
  BY <1>4, <1>5, CapFacts
<1>7. CASE sum = Cap
  <2>1. t - Cap <= t - Cap
    BY CapFacts
  <2>2. QED
    BY <1>3, <1>7, <2>1 DEF Due
<1>8. CASE t - sum = Zero(b) - Period
  BY <1>3, <1>8
<1>9. QED
  BY <1>6, <1>7, <1>8

\* A bucket that owes just what S has taken is as full as S left it.
LEMMA DueIsLevel ==
  ASSUME NEW b \in Bucket, NEW t \in Nat, NEW S \in SUBSET Promises, IsFiniteSet(S),
         Due(Zero(b), S, t), \A p \in S : Owed(S, p[2]) <= Zero(b)
  PROVE  Level(b, t)
           = Min({Cap} \cup {Cap + t - p[2]
                               - Period * Cardinality({q \in S : q[2] >= p[2]}) : p \in S})
<1> DEFINE left(p) == Cap + t - p[2] - Period * Cardinality({q \in S : q[2] >= p[2]})
           T == {Cap} \cup {left(p) : p \in S}
<1>1. /\ Zero(b) \in Int /\ Level(b, t) \in Int
      /\ Level(b, t) = IF t - Zero(b) <= Cap THEN t - Zero(b) ELSE Cap
  BY ZeroFacts, LevelFacts
<1>2. ASSUME NEW p \in S
      PROVE  left(p) = t - Owed(S, p[2]) /\ left(p) \in Int /\ Owed(S, p[2]) \in Int
  <2>1. p[2] \in Nat
    BY DEF Promises
  <2>2. Owed(S, p[2]) \in Int
    BY <2>1, OwedFacts
  <2>3. IsFiniteSet({q \in S : q[2] >= p[2]})
    BY FS_Subset
  <2>4. Cardinality({q \in S : q[2] >= p[2]}) \in Nat
    BY <2>3, FS_CardinalityType
  <2>5. PICK n \in Nat : n = Cardinality({q \in S : q[2] >= p[2]})
    BY <2>4
  <2>6. Owed(S, p[2]) = p[2] - Cap + Period * n /\ left(p) = Cap + t - p[2] - Period * n
    BY <2>5 DEF Owed
  <2>7. PICK k \in Nat : k = Period * n
    BY CapFacts
  <2> HIDE DEF left
  <2>8. QED
    BY <2>1, <2>2, <2>6, <2>7, CapFacts
<1> HIDE DEF left
<1>3. \A y \in T : y \in Int /\ Level(b, t) <= y
  <2>1. Level(b, t) <= Cap
    BY <1>1, CapFacts
  <2>2. ASSUME NEW p \in S PROVE Level(b, t) <= left(p)
    <3>1. Level(b, t) <= t - Zero(b)
      BY <1>1, CapFacts
    <3>2. Owed(S, p[2]) <= Zero(b)
      OBVIOUS
    <3>3. QED
      BY <1>1, <1>2, <3>1, <3>2
  <2>3. QED
    BY <1>2, <2>1, <2>2, CapFacts
<1>4. Level(b, t) \in T
  <2>1. CASE Zero(b) <= t - Cap
    BY <1>1, <2>1, CapFacts
  <2>2. CASE ~(Zero(b) <= t - Cap)
    <3>1. PICK p \in S : Zero(b) <= Owed(S, p[2])
      BY <2>2 DEF Due
    <3>2. Owed(S, p[2]) <= Zero(b)
      OBVIOUS
    <3>3. Level(b, t) = t - Zero(b)
      BY <1>1, <2>2, CapFacts
    <3>4. Level(b, t) = left(p)
      BY <1>1, <1>2, <3>1, <3>2, <3>3
    <3>5. QED
      BY <3>4
  <2>3. QED
    BY <2>1, <2>2
<1> HIDE DEF T
<1>5. \A x \in T : (\A y \in T : x <= y) => x = Level(b, t)
  BY <1>1, <1>3, <1>4
<1>6. Min(T) = Level(b, t)
  BY <1>3, <1>4, <1>5 DEF Min
<1>7. QED
  BY <1>6 DEF T, left

\* The requests that passed, did so before now.
LEMMA PassedFacts ==
  ASSUME FiltersTypeOK, RateInv, NEW c \in Clients
  PROVE  /\ Passed(c) \in SUBSET Promises /\ IsFiniteSet(Passed(c))
         /\ \A q \in Passed(c) : q \in passed /\ q[2] <= clock
  BY LiveType, FS_Subset DEF Passed, RateInv

\* What is held below the latest reservation has passed.
LEMMA TailHasPassed ==
  ASSUME FiltersTypeOK, RateInv, NEW r \in Requests, held[r] # <<>>,
         Tail(held[r]) # <<>>
  PROVE  <<r, Head(Tail(held[r])), Len(Tail(held[r]))>> \in passed
<1>1. /\ 1 \in DOMAIN Tail(held[r]) /\ Head(Tail(held[r])) = held[r][2]
      /\ 2 \in DOMAIN held[r]
      /\ Len(held[r]) \in Nat /\ Len(Tail(held[r])) = Len(held[r]) - 1
  BY HeldFacts
<1>2. Held(r, 2) \in passed
  BY <1>1 DEF RateInv
<1>3. Len(held[r]) - 2 + 1 = Len(Tail(held[r]))
  BY <1>1
<1>4. QED
  BY <1>1, <1>2, <1>3 DEF Held

\* Nothing changes for a client whose bucket and reservations stay.
LEMMA StillFree ==
  ASSUME NEW c \in Clients, Quiet(c) \/ (\E r \in Requests : Waiting(c, r)),
         buckets'[c] = buckets[c], Passed(c)' = Passed(c), clock' = clock,
         \A q \in Requests : (client'[q] = c /\ Undecided(q)')
                               <=> (client[q] = c /\ Undecided(q)),
         \A q \in Requests : client[q] = c /\ Undecided(q) => held'[q] = held[q]
  PROVE  (Quiet(c) \/ (\E r \in Requests : Waiting(c, r)))'
<1>1. Zero(buckets[c])' = Zero(buckets[c])
  BY DEF Zero
<1>2. CASE Quiet(c)
  <2>1. Due(Zero(buckets[c]), Passed(c), clock)'
    BY <1>1, <1>2 DEF Quiet, Due, Owed
  <2>2. QED
    BY <1>2, <2>1 DEF Quiet
<1>3. ASSUME NEW r \in Requests, Waiting(c, r) PROVE Waiting(c, r)'
  <2>1. held'[r] = held[r] /\ Reservation(r)' = Reservation(r)
    BY <1>3 DEF Waiting, Reservation
  <2>2. client'[r] = c /\ Undecided(r)'
    BY <1>3 DEF Waiting
  <2>3. \A q \in Requests \ {r} : client'[q] = c => ~Undecided(q)'
    BY <1>3 DEF Waiting
  <2>4. Due(Zero(buckets[c]), Passed(c) \cup {Reservation(r)}, clock)'
    BY <1>1, <1>3, <2>1 DEF Waiting, Due, Owed
  <2>5. Head(held'[r]) > clock' =>
          /\ buckets'[c].lastEvent = Head(held'[r])
          /\ Due(Zero(buckets[c]) - Period, Passed(c), clock)'
    BY <1>1, <1>3, <2>1 DEF Waiting, Due, Owed
  <2>6. QED
    BY <2>2, <2>3, <2>4, <2>5 DEF Waiting
<1>4. QED
  BY <1>2, <1>3

\* A reservation that passed keeps its number for itself.
LEMMA NumberedStep ==
  ASSUME FiltersTypeOK, Equipped, RateInv, \A q \in Requests : Numbered(q),
         NEW r \in Requests, Arrive(r) \/ Serve(r)
  PROVE  (\A q \in Requests : Numbered(q))'
<1>1. \A q \in Requests \ {r} : stage'[q] = stage[q] /\ held'[q] = held[q]
  BY OthersRest
<1>2. Judge(r) \/ passed' = passed
  BY DispatchesTo DEF Arrive, Serve, Compare, Load, Store, RunCors, NoIPAddr,
     Reserve, Cancel, Proxied, Done, servedVars, limitVars
<1>3. \A p \in passed : p \in Promises
  BY DEF FiltersTypeOK, Promises
<1>4. ASSUME NEW q \in Requests \ {r} PROVE Numbered(q)'
  <2>1. \A p \in passed' : p[1] = q => p \in passed
    <3>1. Judge(r) => held[r] # <<>>
      BY DEF Judge, Goes, Equipped
    <3>2. Judge(r) => passed' \subseteq passed \cup {Reservation(r)}
      BY DEF Judge
    <3>3. QED
      BY <1>2, <3>1, <3>2, ReservationFacts
  <2>2. QED
    BY <1>1, <2>1 DEF Numbered
<1>5. Numbered(r)'
  <2>0. held[r] \in Seq(Nat) /\ Len(held[r]) \in Nat /\ stage'[r] # "idle"
    <3>1. held[r] \in Seq(Nat)
      BY DEF FiltersTypeOK
    <3>2. stage'[r] # "idle"
      <4>1. Arrive(r) => stage'[r] = "compare"
        BY StageFacts
      <4>2. Serve(r) => stage'[r] # "idle"
        BY StageFacts
      <4>3. QED
        BY <4>1, <4>2
    <3>3. QED
      BY <3>1, <3>2
  <2>1. CASE Reserve(r)
    <3>1. PICK act : held'[r] = <<act>> \o held[r] /\ act \in Nat
      <4>1. client[r] \in Clients
        BY <2>1 DEF Reserve, FiltersTypeOK
      <4>2. Reserved(buckets[client[r]], clock).act \in Nat
        BY <4>1, BucketFacts, ReservedFacts
      <4>3. QED
        BY <2>1, <4>2 DEF Reserve, FiltersTypeOK
    <3>2. Len(held'[r]) = Len(held[r]) + 1
      BY <2>0, <3>1, PrefixFacts
    <3>3. stage[r] = "ratelimit" /\ passed' = passed
      BY <2>1 DEF Reserve, Goes
    <3>4. ASSUME NEW p \in passed, p[1] = r PROVE p[3] < Len(held'[r])
      <4>1. p[3] <= Len(held[r]) /\ p[3] \in Nat
        BY <1>3, <3>3, <3>4 DEF Numbered, Promises
      <4>2. QED
        BY <2>0, <3>2, <4>1
    <3>5. \A p \in passed : p[3] \in Nat
      BY <1>3 DEF Promises
    <3>6. \A p \in passed' : p[1] = r => p[3] < Len(held'[r]) /\ p[3] <= Len(held'[r])
      BY <2>0, <3>2, <3>3, <3>4, <3>5
    <3>7. QED
      BY <3>6 DEF Numbered
  <2>2. CASE Judge(r)
    <3>1. /\ stage[r] = "reserved" /\ held' = held /\ held[r] # <<>>
          /\ stage'[r] \in {"dispatch", "return"}
          /\ stage'[r] = "dispatch" => passed' = passed \cup {Reservation(r)}
      BY <2>2 DEF Judge, Goes, Equipped, FiltersTypeOK
    <3>2. Reservation(r)[3] = Len(held[r])
      BY <3>1, ReservationFacts
    <3>3. \A p \in passed : p[1] = r => p[3] <= Len(held[r])
      BY <3>1 DEF Numbered
    <3>4. stage'[r] = "dispatch" => \A p \in passed' : p[1] = r => p[3] <= Len(held[r])
      BY <2>0, <3>1, <3>2, <3>3
    <3>5. QED
      BY <3>1, <3>4 DEF Numbered
  <2>3. CASE Cancel(r)
    BY <2>3 DEF Cancel, Goes, FiltersTypeOK, Numbered
  <2>4. CASE ~(Reserve(r) \/ Judge(r) \/ Cancel(r))
    <3>1. UNCHANGED <<held, passed>> /\ stage'[r] # "reserved"
      <4>1. UNCHANGED <<held, passed>>
        BY <2>4, DispatchesTo DEF Arrive, Serve, Compare, Load, Store, RunCors,
           NoIPAddr, Proxied, Done, servedVars, limitVars
      <4>2. Dispatch(r) => stage'[r] # "reserved"
        BY StageFacts
      <4>3. QED
        BY <2>4, <4>1, <4>2 DEF Arrive, Serve, Compare, Load, Store, RunCors,
           NoIPAddr, Proxied, Done, Goes, FiltersTypeOK
    <3>2. stage'[r] \notin {"return", "done"} => stage[r] \notin {"return", "done"}
      <4>1. stage[r] \in {"return", "done"} => Done(r)
        BY <2>4 DEF Arrive, Serve, Compare, Load, Store, RunCors,
           NoIPAddr, Proxied, Dispatch, Goes
      <4>2. Done(r) => stage'[r] = "done"
        BY DEF Done, Goes, FiltersTypeOK
      <4>3. QED
        BY <4>1, <4>2
    <3>3. QED
      BY <3>1, <3>2 DEF Numbered
  <2>5. QED
    BY <2>1, <2>2, <2>3, <2>4
<1>6. QED
  BY <1>4, <1>5

\* A new reservation has not passed, and is the only one to be judged.
LEMMA ReserveFree ==
  ASSUME FiltersTypeOK, RateInv, FreeInv, NEW r \in Requests, Reserve(r),
         NEW d \in Clients \ crossed'
  PROVE  (Quiet(d) \/ (\E q \in Requests : Waiting(d, q)))'
<1>0. PICK c \in Clients : c = client[r]
  BY DEF Reserve, FiltersTypeOK
<1> DEFINE act == Reserved(buckets[c], clock).act
           after == Reserved(buckets[c], clock).bucket
           p == <<r, act, Len(held[r]) + 1>>
<1>1. /\ stage[r] = "ratelimit"
      /\ \A q \in Requests \ {r} : held'[q] = held[q]
      /\ held'[r] = <<act>> \o held[r] /\ held[r] \in Seq(Nat)
      /\ buckets'[c] = after /\ \A e \in Clients \ {c} : buckets'[e] = buckets[e]
      /\ UNCHANGED <<clock, passed, client>>
      /\ crossed' = IF \E q \in Requests : client[q] = c /\ Undecided(q)
                    THEN crossed \cup {c} ELSE crossed
  BY <1>0 DEF Reserve, Goes, FiltersTypeOK
<1>2. act \in Nat /\ after.lastEvent = act
  BY <1>1, BucketFacts, ReservedFacts, ReservedZero
<1>3. /\ held'[r] # <<>> /\ Head(held'[r]) = act /\ Len(held[r]) \in Nat
      /\ Len(held'[r]) = Len(held[r]) + 1
  BY <1>1, <1>2, PrefixFacts
<1>4. Reservation(r)' = p
  BY <1>3 DEF Reservation
<1>5. p \in Promises /\ p[1] = r /\ p[2] = act /\ p[3] = Len(held[r]) + 1
  BY <1>2, <1>3 DEF Promises
<1>6. p \notin passed
  <2>1. p \in passed => p[3] <= Len(held[r])
    BY <1>1, <1>5 DEF FreeInv, Numbered
  <2>2. QED
    BY <1>3, <1>5, <2>1
<1>7. \A q \in Requests \ {r} : Undecided(q)' <=> Undecided(q)
  BY <1>1 DEF Undecided, Reservation
<1>8. Passed(d)' = Passed(d) /\ d \notin crossed
  BY <1>1 DEF Passed
<1> HIDE DEF act, after, p
<1>9. CASE d # c
  <2>1. \A q \in Requests : client'[q] = d /\ Undecided(q)'
                              <=> client[q] = d /\ Undecided(q)
    BY <1>0, <1>1, <1>7, <1>9
  <2>2. \A q \in Requests : client[q] = d => held'[q] = held[q]
    BY <1>0, <1>1, <1>9
  <2>3. Quiet(d) \/ (\E q \in Requests : Waiting(d, q))
    BY <1>8 DEF FreeInv
  <2>4. buckets'[d] = buckets[d] /\ clock' = clock
    BY <1>1, <1>9
  <2>5. QED
    BY <1>8, <2>1, <2>2, <2>3, <2>4, StillFree
<1>10. CASE d = c
  <2>1. \A q \in Requests : client[q] = c => ~Undecided(q)
    BY <1>1, <1>10
  <2>2. Quiet(c)
    BY <1>8, <1>10, <2>1 DEF FreeInv, Waiting
  <2>3. Due(Zero(buckets[c]), Passed(c), clock)
    BY <2>2 DEF Quiet
  <2>4. p \notin Passed(c)
    BY <1>6 DEF Passed
  <2>5. /\ Due(Zero(after), Passed(c) \cup {p}, clock)
        /\ Due(Zero(after) - Period, Passed(c), clock)
    <3>1. buckets[c] \in Bucket /\ clock \in Nat
      BY BucketFacts
    <3>2. /\ Passed(c) \in SUBSET Promises /\ IsFiniteSet(Passed(c))
          /\ \A q \in Passed(c) : q[2] <= clock
      BY PassedFacts
    <3>3. p[2] = Reserved(buckets[c], clock).act
      BY <1>5 DEF act
    <3>4. QED
      BY <1>5, <2>3, <2>4, <3>1, <3>2, <3>3, ReserveDue DEF after
  <2>6. /\ client'[r] = c /\ Undecided(r)'
        /\ \A q \in Requests \ {r} : client'[q] = c => ~Undecided(q)'
    BY <1>0, <1>1, <1>3, <1>4, <1>6, <1>7, <2>1 DEF Undecided
  <2>7. /\ Zero(buckets[c])' = Zero(after) /\ clock' = clock
        /\ Passed(c)' = Passed(c) /\ buckets'[c].lastEvent = act
    BY <1>1, <1>2, <1>8, <1>10 DEF Zero
  <2>8. Due(Zero(buckets[c]), Passed(c) \cup {Reservation(r)}, clock)'
    BY <1>4, <2>5, <2>7 DEF Due, Owed
  <2>9. Due(Zero(buckets[c]) - Period, Passed(c), clock)'
    BY <2>5, <2>7 DEF Due, Owed
  <2>10. Waiting(c, r)'
    BY <1>3, <2>6, <2>7, <2>8, <2>9 DEF Waiting
  <2>11. QED
    BY <1>10, <2>10
<1>11. QED
  BY <1>9, <1>10

\* Delay counts the reservation that waits, or leaves it for Cancel.
LEMMA JudgeFree ==
  ASSUME FiltersTypeOK, Equipped, RateInv, FreeInv, NEW r \in Requests, Judge(r),
         NEW d \in Clients \ crossed'
  PROVE  (Quiet(d) \/ (\E q \in Requests : Waiting(d, q)))'
<1>1. /\ stage[r] = "reserved" /\ held[r] # <<>>
      /\ UNCHANGED <<clock, buckets, held, client, crossed>>
      /\ passed' = passed \/ passed' = passed \cup {Reservation(r)}
  BY DEF Judge, Goes, Equipped
<1>2. \A q \in Requests : Reservation(q)' = Reservation(q)
  BY <1>1 DEF Reservation
<1>3. Reservation(r)[1] = r
      /\ \A q \in Requests \ {r} : held[q] # <<>> => Reservation(q) # Reservation(r)
  BY <1>1, ReservationFacts
<1>4. \A q \in Requests \ {r} : Undecided(q)' <=> Undecided(q)
  BY <1>1, <1>2, <1>3 DEF Undecided
<1>5. Quiet(d) \/ (\E q \in Requests : Waiting(d, q))
  BY <1>1 DEF FreeInv
<1>6. CASE passed' = passed \/ client[r] # d
  <2>1. Passed(d)' = Passed(d)
    BY <1>1, <1>3, <1>6 DEF Passed
  <2>2. \A q \in Requests : client'[q] = d /\ Undecided(q)'
                              <=> client[q] = d /\ Undecided(q)
    BY <1>1, <1>2, <1>4, <1>6 DEF Undecided
  <2>3. QED
    BY <1>1, <1>5, <2>1, <2>2, StillFree
<1>7. CASE passed' = passed \cup {Reservation(r)} /\ client[r] = d
  <2>1. Reservation(r) \notin passed
    <3>1. Reservation(r)[3] = Len(held[r]) /\ Len(held[r]) \in Nat
      BY <1>1, ReservationFacts, HeldFacts
    <3>2. Reservation(r) \in passed => Reservation(r)[3] < Len(held[r])
      BY <1>1, <1>3 DEF FreeInv, Numbered
    <3>3. QED
      BY <3>1, <3>2
  <2>2. Waiting(d, r)
    BY <1>1, <1>5, <1>7, <2>1 DEF Quiet, Waiting, Undecided
  <2>3. ~Undecided(r)'
    BY <1>1, <1>2, <1>7 DEF Undecided
  <2>4. \A q \in Requests : client'[q] = d => ~Undecided(q)'
    BY <1>1, <1>4, <2>2, <2>3 DEF Waiting
  <2>5. Passed(d)' = Passed(d) \cup {Reservation(r)}
    BY <1>1, <1>3, <1>7 DEF Passed
  <2>6. Zero(buckets[d])' = Zero(buckets[d]) /\ clock' = clock
    BY <1>1 DEF Zero
  <2>7. Due(Zero(buckets[d]), Passed(d), clock)'
    BY <2>2, <2>5, <2>6 DEF Waiting, Due, Owed
  <2>8. QED
    BY <2>4, <2>7 DEF Quiet
<1>8. QED
  BY <1>1, <1>6, <1>7

\* Cancel of the reservation that waits gives back what it took.
LEMMA CancelFree ==
  ASSUME FiltersTypeOK, Equipped, RateInv, FreeInv, NEW r \in Requests, Cancel(r),
         NEW d \in Clients \ crossed'
  PROVE  (Quiet(d) \/ (\E q \in Requests : Waiting(d, q)))'
<1>0. PICK c \in Clients : c = client[r]
  BY DEF Cancel, Equipped
<1> DEFINE act == Head(held[r])
           after == Cancelled(buckets[c], act, clock)
<1>1. /\ held[r] # <<>> /\ UNCHANGED <<clock, passed, client>>
      /\ \A q \in Requests \ {r} : held'[q] = held[q]
      /\ held'[r] = Tail(held[r])
      /\ buckets'[c] = after /\ \A e \in Clients \ {c} : buckets'[e] = buckets[e]
      /\ crossed' = IF Undecided(r) /\ act <= clock THEN crossed \cup {c} ELSE crossed
  BY <1>0 DEF Cancel, Goes, FiltersTypeOK
<1>2. act \in Nat /\ clock \in Nat /\ Reservation(r)[2] = act
  BY <1>0, <1>1, HeldFacts, BucketFacts, ReservationFacts
<1>3. \A q \in Requests \ {r} : Undecided(q)' <=> Undecided(q)
  BY <1>1 DEF Undecided, Reservation
<1>4. ~Undecided(r)'
  <2>1. Tail(held[r]) # <<>> =>
          <<r, Head(Tail(held[r])), Len(Tail(held[r]))>> \in passed
    BY <1>1, TailHasPassed
  <2>2. QED
    BY <1>1, <2>1 DEF Undecided, Reservation
<1>5. Passed(d)' = Passed(d) /\ d \notin crossed
  BY <1>1 DEF Passed
<1>6. Quiet(d) \/ (\E q \in Requests : Waiting(d, q))
  BY <1>5 DEF FreeInv
<1> HIDE DEF act, after
<1>7. CASE ~Undecided(r) \/ d # c
  <2>1. d = c => after = buckets[c]
    <3>1. d = c => Reservation(r) \in passed
      BY <1>1, <1>7 DEF Undecided
    <3>2. d = c => act <= clock
      BY <1>2, <3>1 DEF RateInv
    <3>3. QED
      BY <3>2 DEF Cancelled, after
  <2>2. buckets'[d] = buckets[d] /\ clock' = clock
    BY <1>1, <2>1
  <2>3. \A q \in Requests : client'[q] = d /\ Undecided(q)'
                              <=> client[q] = d /\ Undecided(q)
    BY <1>0, <1>1, <1>3, <1>4, <1>7
  <2>4. \A q \in Requests : client[q] = d /\ Undecided(q) => held'[q] = held[q]
    BY <1>0, <1>1, <1>7
  <2>5. QED
    BY <1>5, <1>6, <2>2, <2>3, <2>4, StillFree
<1>8. CASE Undecided(r) /\ d = c
  <2>1. act > clock
    BY <1>1, <1>2, <1>8
  <2>2. Waiting(c, r)
    BY <1>0, <1>6, <1>8 DEF Quiet, Waiting
  <2>3. /\ buckets[c].lastEvent = act
        /\ Due(Zero(buckets[c]) - Period, Passed(c), clock)
    BY <2>1, <2>2 DEF Waiting, act
  <2>4. Due(Zero(after), Passed(c), clock)
    BY <1>2, <2>1, <2>3, BucketFacts, CancelDue DEF after
  <2>5. \A q \in Requests : client'[q] = c => ~Undecided(q)'
    BY <1>1, <1>3, <1>4, <2>2 DEF Waiting
  <2>6. Zero(buckets[c])' = Zero(after) /\ clock' = clock /\ Passed(c)' = Passed(c)
    BY <1>1, <1>5, <1>8 DEF Zero
  <2>7. Due(Zero(buckets[c]), Passed(c), clock)'
    BY <2>4, <2>6 DEF Due, Owed
  <2>8. QED
    BY <1>8, <2>5, <2>7 DEF Quiet
<1>9. QED
  BY <1>7, <1>8

\* Steps beside the rate limit leave the buckets, and who is undecided, alone.
LEMMA IdleFree ==
  ASSUME FiltersTypeOK, Equipped, RateInv, FreeInv, NEW r \in Requests,
         Arrive(r) \/ Compare(r) \/ Load(r) \/ Store(r) \/ Dispatch(r)
           \/ RunCors(r) \/ NoIPAddr(r) \/ Proxied(r) \/ Done(r),
         NEW d \in Clients \ crossed'
  PROVE  (Quiet(d) \/ (\E q \in Requests : Waiting(d, q)))'
<1>1. UNCHANGED limitVars
  BY DispatchesTo DEF Arrive, Compare, Load, Store, RunCors, NoIPAddr,
     Proxied, Done, servedVars
<1>2. UNCHANGED <<clock, buckets, held, passed, crossed>>
  BY <1>1 DEF limitVars
<1>3. \A q \in Requests : Undecided(q)' <=> Undecided(q)
  BY <1>2 DEF Undecided, Reservation
<1>4. ASSUME NEW q \in Requests PROVE client'[q] = client[q] \/ stage[q] = "idle"
  <2>1. Arrive(r) \/ Serve(r)
    BY DEF Serve
  <2>2. CASE q # r
    BY <2>1, <2>2, OthersRest
  <2>3. CASE q = r /\ stage[r] # "idle"
    BY <2>3, StageFacts, DispatchesTo
       DEF Compare, Load, Store, RunCors, NoIPAddr, Proxied, Done, Arrive, Goes,
           servedVars
  <2>4. QED
    BY <2>2, <2>3
<1>5. \A q \in Requests : stage[q] = "idle" =>
        ~Undecided(q) /\ \A p \in passed : p[1] # q
  BY DEF Equipped, RateInv, Undecided
<1>6. \A q \in Requests : client'[q] = d /\ Undecided(q)'
                            <=> client[q] = d /\ Undecided(q)
  BY <1>3, <1>4, <1>5
<1>7. Passed(d)' = Passed(d)
  <2>1. \A p \in passed : p[1] \in Requests /\ client'[p[1]] = client[p[1]]
    BY <1>4, <1>5 DEF FiltersTypeOK
  <2>2. QED
    BY <1>2, <2>1 DEF Passed
<1>8. Quiet(d) \/ (\E q \in Requests : Waiting(d, q))
  BY <1>2 DEF FreeInv
<1>9. QED
  BY <1>2, <1>6, <1>7, <1>8, StillFree

\* What is paid back stays so, and a reservation that is due is not cancelled.
LEMMA TickFree ==
  ASSUME FiltersTypeOK, FreeInv, Tick
  PROVE  FreeInv'
<1>1. /\ clock' = clock + 1 /\ clock \in Nat
      /\ UNCHANGED <<buckets, held, passed, crossed, stage, client>>
  BY InstanceFacts DEF Tick, FiltersTypeOK
<1>2. /\ \A q \in Requests : Undecided(q)' <=> Undecided(q)
      /\ \A q \in Requests : Reservation(q)' = Reservation(q)
      /\ \A c \in Clients : Passed(c)' = Passed(c)
      /\ \A c \in Clients : Zero(buckets[c])' = Zero(buckets[c])
  BY <1>1 DEF Undecided, Reservation, Passed, Zero
<1>3. \A q \in Requests : Numbered(q)'
  BY <1>1 DEF FreeInv, Numbered
<1>4. ASSUME NEW c \in Clients
      PROVE  /\ Zero(buckets[c]) \in Int /\ Zero(buckets[c]) - Period \in Int
             /\ \A S, z : z \in Int /\ Due(z, S, clock) => Due(z, S, clock + 1)
  BY <1>1, BucketFacts, ZeroFacts, CapFacts, DueLater
<1>5. ASSUME NEW c \in Clients, Quiet(c) PROVE Quiet(c)'
  <2>1. Due(Zero(buckets[c]), Passed(c), clock + 1)
    BY <1>4, <1>5 DEF Quiet
  <2>2. Due(Zero(buckets[c]), Passed(c), clock)'
    BY <1>1, <1>2, <2>1 DEF Due, Owed
  <2>3. QED
    BY <1>1, <1>2, <1>5, <2>2 DEF Quiet
<1>6. ASSUME NEW c \in Clients, NEW r \in Requests, Waiting(c, r) PROVE Waiting(c, r)'
  <2>1. Due(Zero(buckets[c]), Passed(c) \cup {Reservation(r)}, clock + 1)
    BY <1>4, <1>6 DEF Waiting
  <2>2. Due(Zero(buckets[c]), Passed(c) \cup {Reservation(r)}, clock)'
    BY <1>1, <1>2, <2>1 DEF Due, Owed
  <2>3. ASSUME Head(held[r]) > clock + 1
        PROVE  /\ buckets[c].lastEvent = Head(held[r])
               /\ Due(Zero(buckets[c]) - Period, Passed(c), clock + 1)
    <3>1. Head(held[r]) \in Nat
      BY <1>6, HeldFacts DEF Waiting, Undecided
    <3>2. Head(held[r]) > clock
      BY <1>1, <2>3, <3>1
    <3>3. QED
      BY <1>4, <1>6, <3>2 DEF Waiting
  <2>4. Due(Zero(buckets[c]) - Period, Passed(c), clock + 1)
          => Due(Zero(buckets[c]) - Period, Passed(c), clock)'
    BY <1>1, <1>2 DEF Due, Owed
  <2>5. QED
    BY <1>1, <1>2, <1>6, <2>2, <2>3, <2>4 DEF Waiting
<1>7. QED
  BY <1>1, <1>3, <1>5, <1>6 DEF FreeInv

\* The invariant of the refusals is inductive.
LEMMA FreeStep ==
  FilterInv /\ RateInv /\ FreeInv /\ [FiltersNext]_filterVars => FreeInv'
<1> SUFFICES ASSUME FilterInv, RateInv, FreeInv, [FiltersNext]_filterVars PROVE FreeInv'
  OBVIOUS
<1>0. FiltersTypeOK /\ Equipped
  BY DEF FilterInv
<1>1. CASE UNCHANGED filterVars
  <2>1. UNCHANGED <<buckets, held, passed, crossed, stage, client, clock>>
    BY <1>1 DEF filterVars, servedVars, limitVars
  <2>2. ASSUME NEW d \in Clients \ crossed
        PROVE  (Quiet(d) \/ (\E q \in Requests : Waiting(d, q)))'
    <3>1. /\ Passed(d)' = Passed(d)
          /\ \A q \in Requests : Undecided(q)' <=> Undecided(q)
      BY <2>1 DEF Passed, Undecided, Reservation
    <3>2. Quiet(d) \/ (\E q \in Requests : Waiting(d, q))
      BY DEF FreeInv
    <3>3. QED
      BY <2>1, <3>1, <3>2, StillFree
  <2>3. \A q \in Requests : Numbered(q)'
    BY <2>1 DEF FreeInv, Numbered
  <2>4. QED
    BY <2>1, <2>2, <2>3 DEF FreeInv
<1>2. CASE Tick
  BY <1>0, <1>2, TickFree
<1>3. ASSUME NEW r \in Requests, Arrive(r) \/ Serve(r) PROVE FreeInv'
  <2>1. \A q \in Requests : Numbered(q)'
    BY <1>0, <1>3, NumberedStep DEF FreeInv
  <2>2. ASSUME NEW d \in Clients \ crossed'
        PROVE  (Quiet(d) \/ (\E q \in Requests : Waiting(d, q)))'
    BY <1>0, <1>3, ReserveFree, JudgeFree, CancelFree, IdleFree DEF Serve
  <2>3. QED
    BY <2>1, <2>2 DEF FreeInv
<1>4. QED
  BY <1>1, <1>2, <1>3 DEF FiltersNext

\* The invariant of the refusals at the start.
LEMMA FreeInit == FiltersInit => FreeInv
<1> SUFFICES ASSUME FiltersInit PROVE FreeInv
  OBVIOUS
<1>1. passed = {} /\ clock = 0 /\ (\A r \in Requests : held[r] = <<>>)
  BY DEF FiltersInit
<1>2. ASSUME NEW c \in Clients PROVE Quiet(c)
  <2>1. Zero(buckets[c]) = 0 - Cap
    BY DEF FiltersInit, Zero, Full
  <2>2. 0 - Cap <= 0 - Cap
    BY CapFacts
  <2>3. QED
    BY <1>1, <2>1, <2>2 DEF Quiet, Undecided, Due
<1>3. QED
  BY <1>1, <1>2 DEF FreeInv, Numbered

-----------------------------------------------------------------------------
\* What a client has left depends on its requests that passed alone, unless
\* its refusals overlapped or ended late.
THEOREM RefusalFree == Spec => []RefusalIsFree
<1>1. FiltersInit => FreeInv
  BY FreeInit
<1>2. FiltersSpec => []FreeInv
  BY <1>1, RateSafe, FreeStep, PTL DEF FiltersSpec
<1>3. FilterInv /\ RateInv /\ FreeInv => RefusalIsFree
  <2> SUFFICES ASSUME FilterInv, RateInv, FreeInv, NEW c \in Clients \ crossed,
                      \A r \in Requests : client[r] = c => ~Undecided(r)
               PROVE  Level(buckets[c], clock) = FairLevel(c)
    BY DEF RefusalIsFree
  <2>1. FiltersTypeOK
    BY DEF FilterInv
  <2>2. /\ Passed(c) \in SUBSET Promises /\ IsFiniteSet(Passed(c))
        /\ buckets[c] \in Bucket /\ clock \in Nat
    BY <2>1, PassedFacts, BucketFacts
  <2>3. Due(Zero(buckets[c]), Passed(c), clock)
    BY DEF FreeInv, Quiet, Waiting
  <2>4. ASSUME NEW p \in Passed(c) PROVE Owed(Passed(c), p[2]) <= Zero(buckets[c])
    <3> DEFINE since == {q \in Passed(c) : q[2] >= p[2]}
    <3>1. since \in SUBSET Live(c) /\ IsFiniteSet(since) /\ p[2] \in Nat
      BY <2>2, FS_Subset DEF Live, Promises
    <3>2. p \in since /\ \A q \in since : p[2] <= q[2]
      BY <2>2, <3>1 DEF Promises
    <3>3. Covers(buckets[c], Live(c))
      BY DEF RateInv, Sound
    <3>4. p[2] - Cap + Period * Cardinality(since) <= Zero(buckets[c])
      BY <3>1, <3>2, <3>3 DEF Covers
    <3>5. QED
      BY <3>4 DEF Owed
  <2>5. QED
    BY <2>2, <2>3, <2>4, DueIsLevel DEF FairLevel, Passed
<1>4. QED
  BY <1>2, <1>3, GatewayRunsFilters, RateSafe, PTL

=============================================================================
