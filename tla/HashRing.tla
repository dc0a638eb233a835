------------------------------ MODULE HashRing ------------------------------
(***************************************************************************)
(* The ring of the consistent hashing scheme (balance.Map).                *)
(*                                                                         *)
(* Add puts some replicas of a service on the ring, Remove takes their     *)
(* owner away but leaves their places in keys, and Pick goes clockwise     *)
(* from the hash of its argument to the next place. The hash function is   *)
(* chosen at the start, collisions included.                               *)
(***************************************************************************)
EXTENDS Integers, Sequences, Functions, Arrange

CONSTANTS
  Addrs,      \* the addresses of the services
  Replicas,   \* m.replicas (10 in the code)
  Places,     \* how many values the hash has (2^32 in the code)
  MaxAdds     \* bound: how often Add is called

ASSUME HashRingAssumption ==
  Replicas \in Nat \ {0} /\ Places \in Nat \ {0} /\ MaxAdds \in Nat

NoAddr == ""                     \* what hashMap yields for a missing key
EmptyServiceErr == "empty"

Ring == 0..(Places - 1)

VARIABLES
  hash,      \* hash[a][i]: the hash of replica i of address a
  keys,      \* m.keys
  hashMap,   \* m.hashMap, NoAddr where it has no entry
  members,   \* the addresses that were added and not removed since
  adds       \* how often Add was called

ringVars == <<hash, keys, hashMap, members, adds>>

\* "Sorted" (consistent_hash.go:17) is part of the type of keys.
RingTypeOK ==
  /\ hash \in [Addrs -> [1..Replicas -> Ring]]
  /\ keys \in Seq(Ring) /\ \A i, j \in DOMAIN keys : i <= j => keys[i] <= keys[j]
  /\ hashMap \in [Ring -> Addrs \cup {NoAddr}]
  /\ members \subseteq Addrs
  /\ adds \in 0..MaxAdds

RingInit ==
  /\ hash \in [Addrs -> [1..Replicas -> Ring]]
  /\ keys = <<>>
  /\ hashMap = [h \in Ring |-> NoAddr]
  /\ members = {}
  /\ adds = 0

-----------------------------------------------------------------------------
Points(a) == {hash[a][i] : i \in 1..Replicas}

\* sort.Ints. (Of equal keys it does not matter which comes first.)
Sorted(s) ==
  LET at == Arrange([i \in DOMAIN s |->
                       {j \in DOMAIN s : s[j] < s[i] \/ (s[j] = s[i] /\ j <= i)}])
  IN  [k \in DOMAIN at |-> s[at[k]]]

Added(a) ==
  /\ adds < MaxAdds
  /\ adds' = adds + 1
  /\ members' = members \cup {a}
  /\ UNCHANGED hash

Owned(a) == [h \in Ring |-> IF h \in Points(a) THEN a ELSE hashMap[h]]

\* A variant that enters the last replica only in hashMap.
AddWithoutMap(a) ==
  /\ Added(a)
  /\ keys' = Sorted(keys \o hash[a])
  /\ hashMap' = [hashMap EXCEPT ![hash[a][Replicas]] = a]

\* Add of a service; a place may come twice, and its last owner has it.
Add(a) ==
  /\ Added(a)
  /\ keys' = Sorted(keys \o hash[a])
  /\ hashMap' = Owned(a)

\* A variant that takes as many places off the end of keys.
RemoveLastKeys(a) ==
  /\ members' = members \ {a}
  /\ hashMap' = [h \in Ring |-> IF h \in Points(a) THEN NoAddr ELSE hashMap[h]]
  /\ keys' = IF Len(keys) < Replicas THEN <<>>
             ELSE SubSeq(keys, 1, Len(keys) - Replicas)
  /\ UNCHANGED <<hash, adds>>

\* Remove, of a service that was added or not: whoever owns its places.
Remove(a) ==
  /\ members' = members \ {a}
  /\ hashMap' = [h \in Ring |-> IF h \in Points(a) THEN NoAddr ELSE hashMap[h]]
  /\ UNCHANGED <<hash, keys, adds>>

\* sort.Search: the first index whose key is not less than h, or one past
\* the last.
Search(h) ==
  LET found == {i \in DOMAIN keys : keys[i] >= h}
  IN  IF found = {} THEN Len(keys) + 1
      ELSE CHOOSE i \in found : \A j \in found : i <= j

\* A variant that stays at the last key instead of going around.
PickNotAround(h) ==
  IF keys = <<>> THEN EmptyServiceErr
  ELSE hashMap[keys[IF Search(h) > Len(keys) THEN Len(keys) ELSE Search(h)]]

\* Pick, by the hash of its key: keys[idx%len(m.keys)] goes around. (idx is
\* counted from 0 there.)
Pick(h) ==
  IF keys = <<>> THEN EmptyServiceErr
  ELSE hashMap[keys[((Search(h) - 1) % Len(keys)) + 1]]

RingNext == \E a \in Addrs : Add(a) \/ Remove(a)

RingSpec == RingInit /\ [][RingNext]_ringVars

-----------------------------------------------------------------------------
(* Properties.                                                             *)

\* Pick finds the owner of the next place clockwise, whatever the order in
\* which services came and went.
Distance(h, p) == (p - h) % Places
PickIsSuccessor ==
  \A h \in Ring, p \in Range(keys) :
    (\A q \in Range(keys) : Distance(h, p) <= Distance(h, q)) =>
      Pick(h) = hashMap[p]

\* When a service comes or goes, the keys of the others stay where they are:
\* one that is added takes over keys, and moves none from one of the others to
\* another; one that is removed, and whose places are its own, gives up its
\* keys.
Alone(a) == \A b \in Addrs \ {a} : Points(a) \cap Points(b) = {}
OthersStay ==
  [][\A a \in Addrs, h \in Ring :
       /\ a \in members' \ members => Pick(h)' \in {Pick(h), a}
       /\ a \in members \ members' /\ Alone(a) =>
            Pick(h)' = Pick(h) \/ Pick(h) = a]_ringVars
=============================================================================
