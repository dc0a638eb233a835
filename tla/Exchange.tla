------------------------------ MODULE Exchange ------------------------------
(***************************************************************************)
(* What a relayed call promises to the HTTP client, without goroutines or  *)
(* channels: messages are delivered in the order they were produced, and   *)
(* an exchange that ends properly has delivered every one of them. An      *)
(* exchange may also break, and then promises nothing more.                *)
(***************************************************************************)
EXTENDS Naturals

VARIABLES
  produced,   \* number of messages the backend has produced
  delivered,  \* number of messages the client has
  phase       \* "open", "ended" (properly) or "broken"

vars == <<produced, delivered, phase>>

Init == produced = 0 /\ delivered = 0 /\ phase = "open"

Produce ==
  /\ produced' = produced + 1
  /\ UNCHANGED <<delivered, phase>>

Deliver ==
  /\ phase = "open"
  /\ delivered < produced
  /\ delivered' = delivered + 1
  /\ UNCHANGED <<produced, phase>>

\* The last message and the proper end may come in one step (a unary call).
End ==
  /\ phase = "open"
  /\ delivered' = produced
  /\ produced - delivered \in {0, 1}
  /\ phase' = "ended"
  /\ UNCHANGED produced

Break ==
  /\ phase = "open"
  /\ phase' = "broken"
  /\ UNCHANGED <<produced, delivered>>

Next == Produce \/ Deliver \/ End \/ Break

Spec == Init /\ [][Next]_vars
=============================================================================
