----------------------------- MODULE NextTarget -----------------------------
(***************************************************************************)
(* Proxy.nextTarget: each request takes its target from a header or lets   *)
(* the gateway's balancer pick one of the services GetService returns,     *)
(* while other requests do the same and the registrations change. The      *)
(* goroutine watch shares only e.service with the requests, which they     *)
(* write and never read: it takes no step here.                            *)
(***************************************************************************)
EXTENDS Discovery, Balancers

CONSTANTS
  Schemes,     \* the schemes the gateway may be configured with
  WeightOf,    \* WeightOf[v]: the Weight in a registration
  AddrParses,  \* AddrParses[v]: url.Parse accepts the Addr in a registration
  FirstCounts  \* what earlier requests may have left in the counter

ASSUME SchemesAssumption ==
  Schemes \subseteq {"round_robin", "weight_round_robin", "consistent_hashing"}
ASSUME WeightOfAssumption == WeightOf \in [Values -> Int]
ASSUME FirstCountsAssumption == FirstCounts \subseteq 0..(2 * Half - 1)

VARIABLES
  scheme,    \* the scheme of the balancer, chosen by NewBalancer
  count,     \* the counter of the round robin, shared by all requests
  picked,    \* picked[r]: the index the balancer chose in list[r], or None
  result     \* result[r]: what nextTarget has returned

balanceVars == <<scheme, count, picked, result>>
nextTargetVars == <<discoveryVars, balanceVars>>

None == -1

Results == {"none", "target", "header", "badheader", "geterror", "badclient",
            "empty", "badaddr", "panic"}

NextTargetTypeOK ==
  /\ TypeOK
  /\ scheme \in Schemes
  /\ count \in 0..(2 * Half - 1)
  /\ picked \in [Requests -> Nat \cup {None}]
  /\ \A r \in Requests : picked[r] \in {None} \cup DOMAIN list[r]
  /\ result \in [Requests -> Results]

\* Only the round robin has a counter.
NextTargetInit ==
  /\ DiscoveryInit
  /\ scheme \in Schemes
  /\ count \in FirstCounts /\ (scheme # "round_robin" => count = 0)
  /\ picked = [r \in Requests |-> None]
  /\ result = [r \in Requests |-> "none"]

-----------------------------------------------------------------------------
Returns(r, what) == result' = [result EXCEPT ![r] = what]

Leaves(r, from, what) ==
  /\ stage[r] = from
  /\ stage' = [stage EXCEPT ![r] = "done"]
  /\ Returns(r, what)
  /\ UNCHANGED <<etcdVars, loopVars, list, left, scheme, count, picked>>

\* X-TinyKit-EndPoint is set: neither etcd nor the balancer is asked.
TakeHeader(r) == \E what \in {"header", "badheader"} : Leaves(r, "start", what)

\* GetService returned its error.
GetServiceFailed(r) == Leaves(r, "failed", "geterror")

\* GetIPAddr cannot parse the address of the client.
GetIPAddrFails(r) == Leaves(r, "listed", "badclient")

\* url.Parse of the picked service.
Parse(r, i) ==
  Returns(r, IF AddrParses[list[r][i].value] THEN "target" ELSE "badaddr")

Ends(r) ==
  /\ stage[r] = "listed"
  /\ stage' = [stage EXCEPT ![r] = "done"]
  /\ UNCHANGED <<etcdVars, loopVars, list, left, scheme>>

\* EmptyServiceErr; the counter is not raised.
PickNone(r) ==
  /\ Ends(r)
  /\ scheme # "consistent_hashing" /\ list[r] = <<>>
  /\ Returns(r, "empty")
  /\ UNCHANGED <<count, picked>>

\* A variant without the atomic: the raise of a concurrent request may be lost.
PickInTurnStale(r) ==
  LET index == RoundRobinIndex(AddOne(count), Len(list[r])) + 1
  IN  /\ Ends(r)
      /\ scheme = "round_robin" /\ list[r] # <<>>
      /\ count' \in {count, AddOne(count)}
      /\ \/ /\ index \in DOMAIN list[r]
            /\ picked' = [picked EXCEPT ![r] = index]
            /\ Parse(r, index)
         \/ /\ index \notin DOMAIN list[r]
            /\ UNCHANGED picked
            /\ Returns(r, "panic")

\* A variant that leaves out the remainder.
PickInTurnUnbounded(r) ==
  LET index == AddOne(count) + 1
  IN  /\ Ends(r)
      /\ scheme = "round_robin" /\ list[r] # <<>>
      /\ count' = AddOne(count)
      /\ \/ /\ index \in DOMAIN list[r]
            /\ picked' = [picked EXCEPT ![r] = index]
            /\ Parse(r, index)
         \/ /\ index \notin DOMAIN list[r]
            /\ UNCHANGED picked
            /\ Returns(r, "panic")

\* RoundRobin.Pick: one atomic step raises the counter and returns its new
\* value. A negative index panics.
PickInTurn(r) ==
  LET index == RoundRobinIndex(AddOne(count), Len(list[r])) + 1
  IN  /\ Ends(r)
      /\ scheme = "round_robin" /\ list[r] # <<>>
      /\ count' = AddOne(count)
      /\ \/ /\ index \in DOMAIN list[r]
            /\ picked' = [picked EXCEPT ![r] = index]
            /\ Parse(r, index)
         \/ /\ index \notin DOMAIN list[r]
            /\ UNCHANGED picked
            /\ Returns(r, "panic")

\* WeightRoundRobin.Pick on the list GetService has just decoded: every
\* CurrentWeight is the 0 the services registered with, and no entry is nil.
PickByWeight(r) ==
  LET positions == DOMAIN list[r]
      weight == [i \in positions |-> WeightOf[list[r][i].value]]
      best == Best(Raised([i \in positions |-> 0], weight, positions), positions)
  IN  /\ Ends(r)
      /\ scheme = "weight_round_robin" /\ list[r] # <<>>
      /\ picked' = [picked EXCEPT ![r] = best]
      /\ Parse(r, best)
      /\ UNCHANGED count

\* Map.Pick: nothing in the gateway calls Add, so the ring has no keys, and
\* the answer is EmptyServiceErr.
PickByHash(r) ==
  /\ Ends(r)
  /\ scheme = "consistent_hashing"
  /\ Returns(r, "empty")
  /\ UNCHANGED <<count, picked>>

Target(r) ==
  \/ TakeHeader(r) \/ GetServiceFailed(r) \/ GetIPAddrFails(r)
  \/ PickNone(r) \/ PickInTurn(r) \/ PickByWeight(r) \/ PickByHash(r)

NextTargetNext ==
  \/ /\ \/ \E r \in Requests : GetService(r)
        \/ \E s \in Services, v \in Values \cup {Absent, Garbled} :
             StoreChanges(s, v)
        \/ EtcdComesAndGoes
     /\ UNCHANGED balanceVars
  \/ \E r \in Requests : Target(r)

NextTargetSpec == NextTargetInit /\ [][NextTargetNext]_nextTargetVars

-----------------------------------------------------------------------------
(* Properties.                                                             *)

\* The requests the balancer has picked for.
Served == {r \in Requests : picked[r] # None}

Turns(s) == Cardinality({r \in Served : list[r][picked[r]].name = s})

SameList == \A r, q \in Served : list[r] = list[q]

\* Round robin: requests that all saw the same services, concurrent or not,
\* share them evenly; no service gets two requests more than another. The
\* requests that found an empty list, took the header or failed do not take
\* a turn. It holds until a request panics, which takes a turn for nothing.
SharedEvenly ==
  scheme = "round_robin" /\ SameList /\ (\A r \in Requests : result[r] # "panic") =>
    \A r \in Served : \A i, j \in DOMAIN list[r] :
      Turns(list[r][i].name) <= Turns(list[r][j].name) + 1

\* A pick panics only on a list that is there, and only when it has raised
\* the counter beyond the largest int.
PanicIsOverflow ==
  [][\A r \in Requests :
       result[r] # "panic" /\ result'[r] = "panic" =>
         /\ scheme = "round_robin" /\ list[r] # <<>>
         /\ ToInt(count') < 0]_nextTargetVars
=============================================================================
