------------------------------- MODULE Targets -------------------------------
(***************************************************************************)
(* Whoever asks where to: the requests of the gateway (NextTarget), the    *)
(* Director with its rules (Forwarding), and the two balancers that keep a *)
(* state of their own, called the way their tests call them. They share    *)
(* nothing, so each behaviour has one user, and the others stand still.    *)
(***************************************************************************)
EXTENDS NextTarget, SmoothRotation, HashRing, Forwarding

VARIABLE user

targetsVars == <<user, nextTargetVars, rotationVars, ringVars, forwardingVars>>

\* The users, each alone. The hash function is the ring's only.
NoGateway ==
  /\ NextTargetInit
  /\ store = [s \in Services |-> Absent]
  /\ scheme = "round_robin" /\ count = 0

NoRotation ==
  /\ RotationInit
  /\ weight = [i \in Positions |-> 0] /\ live = {}

NoRing ==
  /\ RingInit
  /\ hash = [a \in Addrs |-> [i \in 1..Replicas |-> 0]]

NoForwarding == ForwardingInit /\ config = "balance"

TargetsInit ==
  \/ user = "gateway" /\ NextTargetInit /\ NoRotation /\ NoRing /\ NoForwarding
  \/ user = "rotation" /\ NoGateway /\ RotationInit /\ NoRing /\ NoForwarding
  \/ user = "ring" /\ NoGateway /\ NoRotation /\ RingInit /\ NoForwarding
  \/ user = "director" /\ NoGateway /\ NoRotation /\ NoRing /\ ForwardingInit

Turn(name, others) == user = name /\ UNCHANGED <<user, others>>

TargetsNext ==
  \/ NextTargetNext /\ Turn("gateway", <<rotationVars, ringVars, forwardingVars>>)
  \/ RotationNext /\ Turn("rotation", <<nextTargetVars, ringVars, forwardingVars>>)
  \/ RingNext /\ Turn("ring", <<nextTargetVars, rotationVars, forwardingVars>>)
  \/ ForwardingNext /\ Turn("director", <<nextTargetVars, rotationVars, ringVars>>)

TargetsSpec == TargetsInit /\ [][TargetsNext]_targetsVars

\* The types of all of them.
TargetsTypeOK ==
  /\ user \in {"gateway", "rotation", "ring", "director"}
  /\ NextTargetTypeOK
  /\ RotationTypeOK
  /\ RingTypeOK
  /\ ForwardingTypeOK
=============================================================================
