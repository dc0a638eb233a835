---------------------------- MODULE TokenBucket ----------------------------
(***************************************************************************)
(* A limiter of golang.org/x/time/rate, external: a bucket that gains a    *)
(* token every Period ticks, up to Burst. Tokens are counted in ticks, so  *)
(* a token is worth Period. A reservation takes a token at once, a         *)
(* missing one on credit, and may be used when the credit is paid.         *)
(***************************************************************************)
EXTENDS Integers

CONSTANTS
  Period,   \* the ticks in which a token grows: a second
  Burst     \* what the bucket holds

ASSUME TokenBucketAssumption == Period \in Nat \ {0} /\ Burst \in Nat \ {0}

Cap == Burst * Period

AtMost(a, b) == IF a <= b THEN a ELSE b

Full == [tokens |-> Cap, updated |-> 0, lastEvent |-> 0]

\* A variant in which the bucket may overflow.
LevelUncapped(b, t) == b.tokens + t - b.updated

\* The tokens at time t (advance).
Level(b, t) == AtMost(Cap, b.tokens + t - b.updated)

\* Reserve at time t: the bucket afterwards and the time to act.
Reserved(b, t) ==
  LET left == Level(b, t) - Period
      act == t - AtMost(0, left)
  IN  [bucket |-> [tokens |-> left, updated |-> t, lastEvent |-> act],
       act |-> act]

\* Cancel at time t of a reservation: nothing comes back when its time has
\* come, nor what later reservations have already been promised. A tick of the
\* models stands for many instants, so a time to act in the same tick counts
\* as past: it must for a request that passed, whose Cancel comes later.
Cancelled(b, act, t) ==
  LET restored == Period - (b.lastEvent - act)
      before == act - Period
  IN  IF act <= t \/ restored <= 0 THEN b
      ELSE [tokens |-> AtMost(Cap, Level(b, t) + restored),
            updated |-> t,
            lastEvent |-> IF act = b.lastEvent /\ before >= t
                          THEN before ELSE b.lastEvent]
=============================================================================
