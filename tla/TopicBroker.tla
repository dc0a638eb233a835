---------------------------- MODULE TopicBroker -----------------------------
(***************************************************************************)
(* What topic-based publish/subscribe promises, without buckets or locks.  *)
(*                                                                         *)
(* A publication reaches only clients that are members of its topic at the *)
(* moment it reaches them, each at most once, and it ends only when every  *)
(* client that was a member throughout has it. A client whose connection   *)
(* is lost is owed nothing any more.                                       *)
(***************************************************************************)
EXTENDS Naturals, Sequences

CONSTANTS Topics, Nodes, None

VARIABLES
  members,     \* members[t]: the clients subscribed to topic t
  publishing,  \* publishing[n]: the topic n is publishing to, or None
  reached,     \* reached[n]: the clients that n's publication has reached
  owed,        \* owed[n]: the clients that n's publication must still reach
  inbox        \* inbox[c]: the publishers of the messages c has, in order

vars == <<members, publishing, reached, owed, inbox>>

Init ==
  /\ members = [t \in Topics |-> {}]
  /\ publishing = [n \in Nodes |-> None]
  /\ reached = [n \in Nodes |-> {}]
  /\ owed = [n \in Nodes |-> {}]
  /\ inbox = [c \in Nodes |-> <<>>]

Join(c, t) ==
  /\ members' = [members EXCEPT ![t] = @ \cup {c}]
  /\ UNCHANGED <<publishing, reached, owed, inbox>>

Leave(c, t) ==
  /\ members' = [members EXCEPT ![t] = @ \ {c}]
  /\ owed' = [n \in Nodes |->
                IF publishing[n] = t THEN owed[n] \ {c} ELSE owed[n]]
  /\ UNCHANGED <<publishing, reached, inbox>>

\* The connection of c is lost.
Lose(c) ==
  /\ owed' = [n \in Nodes |-> owed[n] \ {c}]
  /\ UNCHANGED <<members, publishing, reached, inbox>>

\* A publication is owed to the members, those with lost connections aside.
Begin(n, t) ==
  /\ publishing[n] = None
  /\ publishing' = [publishing EXCEPT ![n] = t]
  /\ \E C \in SUBSET members[t] : owed' = [owed EXCEPT ![n] = C]
  /\ reached' = [reached EXCEPT ![n] = {}]
  /\ UNCHANGED <<members, inbox>>

Deliver(n, c) ==
  /\ \E t \in Topics : publishing[n] = t /\ c \in members[t]
  /\ c \notin reached[n]
  /\ inbox' = [inbox EXCEPT ![c] = Append(@, n)]
  /\ reached' = [reached EXCEPT ![n] = @ \cup {c}]
  /\ owed' = [owed EXCEPT ![n] = @ \ {c}]
  /\ UNCHANGED <<members, publishing>>

End(n) ==
  /\ publishing[n] # None
  /\ owed[n] = {}
  /\ publishing' = [publishing EXCEPT ![n] = None]
  /\ UNCHANGED <<members, reached, owed, inbox>>

Next ==
  \/ \E c \in Nodes, t \in Topics :
       Join(c, t) \/ Leave(c, t) \/ Begin(c, t)
  \/ \E n, c \in Nodes : Deliver(n, c)
  \/ \E n \in Nodes : Lose(n) \/ End(n)

Spec == Init /\ [][Next]_vars
=============================================================================
