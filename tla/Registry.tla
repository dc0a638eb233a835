------------------------------ MODULE Registry ------------------------------
(***************************************************************************)
(* A service process and the gateway, which meet only in etcd: the keys    *)
(* that Registration stores under leases are what Discovery watches and    *)
(* reads. Each has its own connection to etcd. Services of other processes *)
(* are registered once and stay as they are, some with a value that cannot *)
(* be decoded. (The requests, which read the same keys, are in NextTarget.)*)
(***************************************************************************)
EXTENDS Naturals, Sequences

CONSTANTS
  Services,   \* the services of the process
  Others,     \* those of other processes
  KeyOrder,   \* all of them in the order of their keys
  Value       \* what a service registers

ASSUME OthersAssumption == Services \cap Others = {}
ASSUME EveryKeyAssumption ==
  /\ KeyOrder \in Seq(Services \cup Others)
  /\ \A s \in Services \cup Others : \E i \in DOMAIN KeyOrder : KeyOrder[i] = s

VARIABLES
  pc, lease, key, channel, worker, closer, process, link,   \* Registration
  events, wch, up, changes, cache, loop, todo, closing,     \* Discovery
  stage, list, left,
  other       \* other[s]: what etcd holds for the others

processVars == <<pc, lease, key, channel, worker, closer, process, link>>
gatewayVars ==
  <<wch, up, changes, cache, loop, todo, closing, stage, list, left>>
vars == <<processVars, gatewayVars, events, other>>

Names == Services \cup Others
Absent == "absent"
Garbled == "garbled"

\* What etcd holds.
store ==
  [s \in Names |-> IF s \in Others THEN other[s]
                   ELSE IF key[s] = "leased" THEN Value ELSE Absent]

Process == INSTANCE Registration
Gateway == INSTANCE Discovery WITH
  Services <- Names, Values <- {Value}, Requests <- {}, MaxChanges <- 0

TypeOK == Process!TypeOK /\ Gateway!TypeOK

Init ==
  /\ other \in [Others -> {Absent, Garbled, Value}]
  /\ Process!Init
  /\ events = <<>> /\ wch = "unmade" /\ up = TRUE /\ changes = 0
  /\ cache = [s \in Names |-> Absent]
  /\ loop = "start" /\ todo = <<>> /\ closing = FALSE
  /\ stage = <<>> /\ list = <<>> /\ left = <<>>

-----------------------------------------------------------------------------
(* An open watch is told of every key that changes.                        *)
EventOf(s) ==
  IF key'[s] = "leased"
  THEN [type |-> "put", name |-> s, value |-> Value]
  ELSE [type |-> "delete", name |-> s, value |-> Garbled]

Told ==
  LET changed == {s \in Services : key'[s] # key[s]}
  IN  \/ (wch # "open" \/ changed = {}) /\ UNCHANGED events
      \/ wch = "open" /\ \E s \in changed : events' = Append(events, EventOf(s))

InProcess(A) == A /\ Told /\ UNCHANGED <<gatewayVars, other>>

InGateway(A) == UNCHANGED <<processVars, other>> /\ A

Next ==
  \/ InProcess(Process!Next)
  \/ InGateway(Gateway!WatchCloses \/ Gateway!EtcdComesAndGoes)
  \/ InGateway(Gateway!Watcher \/ Gateway!Close)

Spec == Init /\ [][Next]_vars

(***************************************************************************)
(* Fairness: that of Registration and of Discovery; and the goroutine that *)
(* reads the keep-alive channel runs, which the library closes when the    *)
(* lease is lost.                                                          *)
(***************************************************************************)
Fairness ==
  /\ \A s \in Services :
       /\ WF_vars(InProcess(Process!LeaseExpires(s)))
       /\ WF_vars(InProcess(Process!ChannelCloses(s)))
       /\ WF_vars(InProcess(Process!ReceiveNil(s)))
  /\ WF_vars(InGateway(Gateway!OpenWatch))
  /\ SF_vars(InGateway(Gateway!TakeEvents))
  /\ SF_vars(InGateway(Gateway!StartSync))
  /\ SF_vars(InGateway(Gateway!TakeDone))
  /\ WF_vars(InGateway(Gateway!ReadAll \/ Gateway!ReadFails))
  /\ WF_vars(InGateway(Gateway!HandleEvent \/ Gateway!Handled))

FairSpec == Spec /\ Fairness

-----------------------------------------------------------------------------
(* Properties.                                                             *)

\* A registration does not outlive what made it: the key of a process that
\* ended goes away, and so does one that a failed Register left behind.
LeaseCleansUp == Process!KeyDiesWithProcess /\ Process!FailedLeavesNothing

\* What is in etcd for good is known to the gateway in the end, even when it
\* came before the watch, its event was lost with the watch channel, or
\* another key cannot be decoded: sync makes up for the events.
RegisteredIsKnown == Gateway!RegisteredIsKnown

\* A request that lists the services now is given this one: GetService reads
\* and decodes it. (The map that the watch fills is read by no request.)
Listed(s) ==
  \E i \in DOMAIN Gateway!Decoded : Gateway!Decoded[i].name = s

\* From one end to the other: a service whose process stays up, registered
\* and not closed, with etcd in reach from some time on and with a goroutine
\* of keepAlive, is listed by the gateway for good. Whatever outage took its
\* lease has brought the process down: no such service stays up, believes
\* itself registered, and is never found. (One without the goroutine does,
\* when client.KeepAlive failed: Register drops that error.)
StaysUpIsListed ==
  \A s \in Services :
    <>[](/\ pc[s] = "registered" /\ worker[s] # "none"
         /\ process = "up" /\ closer = "idle" /\ link)
      => <>[]Listed(s)

\* Close is heard by the goroutine watch, whatever it is doing and whatever
\* comes from the services, provided etcd does not stop answering.
CloseIsHeard == Gateway!CloseIsHeard
=============================================================================
