# TinyKit in TLA+

TinyKit is a small API gateway in Go. An HTTP request passes a chain of
filters and is then either forwarded as it is (reverse proxy) or turned into a
gRPC call whose answer, unary or streamed, is relayed to the client. Targets
come from services registered in etcd through a load balancer. Beside that the
gateway serves a topic-based publish/subscribe over WebSockets at `/ws`.

This directory holds TLA+ modules that model the gateway's own logic, TLC
configurations that check them on small instances, and TLAPS proofs. Source
paths below are relative to the repository root.

## 1. Inventory

| Part | Source | State | Operations | Talks to |
|---|---|---|---|---|
| RPC relay | `internal/proxy/proxy.go` (`ServeHTTP`), `internal/request/grpcRequest.go` | per request: `Done`, `DataChan`, `newCtx`, the response | `ServeHTTP`, `Call`, `invokeWithUnary`, `invokeWithServiceStream` | target selection, backend, client |
| Target selection | `proxy.go` (`nextTarget`), `internal/registry/balance` | round-robin counter, hash ring | `nextTarget`, `Pick`, `Add`, `Remove` | discovery |
| Discovery | `internal/registry/etcd/discovery.go` | map `service`, watch goroutine | `GetService`, `watch`, `sync`, `eventCallback`, `PutServer`, `DelServer`, `Close` | etcd |
| Registration | `internal/registry/etcd/etcd_registry.go` | client, context; lease and key at etcd | `Register`, `keepAlive`, `Close` | etcd |
| Topic broker | `internal/broker/pubsub` | `topics`, 32 buckets per topic, a mutex each | `Subscribe`, `UnSubscribe`, `Publish` | connections |
| WebSocket connection | `internal/server/ws` | `Node`: connection, `Done`, `Renew`, `Once`; timer | `read`, `checkIsAlive`, `Close`, ping and close handlers | broker |
| Filters | `internal/filter` | shared chain, limiter per client | `Use`, `Compose`, rate limit, CORS (JWT: not registered) | relay |
| Director, rewrite | `proxy.go` (`createDirector`), `internal/rewrite` | rewrite rules | `AddRule`, `RemoveRule`, `Match`, `ReWrite`, director, response filter | target selection |
| Server, lifecycle | `internal/server`, `cmd` | HTTP server | `Start`, `Stop`, `dispatch` | all |
| Transformation | `internal/transform`, `internal/marshaler` | none | header and body conversion | relay |

Where it is hard, and what makes each part correct:

* **RPC relay.** Two goroutines, a channel of 100 messages and one of two
  errors, a cancellable context, a client that may leave at any moment, and
  writes to it that block while it does not read.
  Correct: messages arrive in order and complete, a call has one outcome, a
  successful call is answered, both goroutines end.
* **Topic broker.** Readers of all connections and 32 goroutines per
  publication meet on bucket mutexes that are held while writing to the
  network. Correct: only subscribers are written to, everyone subscribed
  throughout is reached once, order per sender and per bucket, no two writers
  on one connection, no circular wait.
* **WebSocket connection.** Timeout, ping and close frame race. Correct:
  closed once, closed when and only when silent, no goroutine is left behind.
* **Registration.** Crash or lost reply between three calls to etcd; shutdown
  order. Correct: no key outlives its process for long, and a service that is up
  is found.
* **Discovery.** Events may be lost, keys may not decode, etcd may be away.
  Correct: what stays registered is known, what is gone is forgotten.
* **Target selection.** One counter shared by all requests, lists that change
  under way, integer conversion. Correct: requests are shared as the scheme
  says, and a target is found when there is one.
* **Filters.** Concurrent requests sort one shared slice without a lock, share
  limiters, and give reservations back at different times. Correct: filters run
  once each and by priority, a request has one answer, a client passes at the
  rate of its bucket, a refusal costs nothing.
* **Director, rewrite.** Rules come and go while requests are matched. Correct:
  a request goes where a rule that is still wanted for its path leads.
* **Lifecycle.** `Start` returns on a signal without waiting for `Shutdown`,
  which may come at any moment of `ListenAndServe`: before its test for a
  shutdown, between the test and the bind, and after. Correct: a shutdown is not
  a failure, and cuts nobody off.

`PROJECT.json` lists the hazards at their lines with the properties that watch
them.

## 2. Modules

| Module | Models | Checked by |
|---|---|---|
| `RpcRelay` | the relay: a step per case of the select loop, per receive and per send of the invoker | `relay`, `relay_failed` |
| `Exchange` | abstract: ordered, complete delivery | refinement in `relay` |
| `RpcRelayProofs` | proofs about `RpcRelay` | TLAPS |
| `Pubsub` | the broker: a step per critical section, and start and end of each write | `pubsub_*` |
| `TopicBroker` | abstract: topics with members, no buckets and locks | refinement in `pubsub_one_topic` |
| `PubsubProofs` | proofs about `Pubsub` | TLAPS |
| `WsConn` | one connection: `read`, `checkIsAlive`, `Once`, the timer and its channel | `ws_*` |
| `WsConnProofs` | proofs about `WsConn` | TLAPS |
| `Registration` | `Register`, the keep-alive goroutine, `Close`; etcd leases | `registration_panic`, in `Registry` |
| `Discovery` | the watch goroutine, `GetService`, the map; etcd keys and events | `discovery_delete`, in `Registry` and `NextTarget` |
| `Registry` | composes the two: what one stores under leases the other watches and reads | `registry` |
| `RegistryProofs` | proofs about `Registry` and the two it composes | TLAPS |
| `Arrange` | a finite set as a sequence in a given order: `sort.Ints`, a range of keys of etcd | in `Discovery`, `HashRing` |
| `Balancers` | the arithmetic of the balancers as operators | in `NextTarget`, `SmoothRotation` |
| `NextTarget` | extends `Discovery` and `Balancers`: concurrent `nextTarget` | in `Targets` |
| `SmoothRotation` | the weighted round robin on a list that is kept | in `Targets` |
| `HashRing` | the consistent hashing ring, with any hash function | in `Targets` |
| `Forwarding` | the rules, the director, the response filter, the step into an RPC | in `Targets` |
| `Targets` | one user of these four at a time; they share nothing | `targets` |
| `TargetsProofs` | proofs about `Targets` and the four it is made of | TLAPS |
| `TokenBucket` | the arithmetic of a limiter of `x/time/rate` (external) | in `Filters` |
| `Filters` | `Compose` with its sort, write by write; rate limit and CORS | in `Gateway` |
| `Gateway` | extends `Filters`: the process around the requests, from `Start` to its end | `gateway`, `gateway_shutdown` |
| `GatewayProofs` | proofs about `Gateway` and its `Filters` | TLAPS |
| `RateProofs` | extends it: the rate limit | TLAPS |
| `SetLemmas` | least elements, orders and sums of finite sets | TLAPS |

The `MC...` modules give constants their values. Definitions introduced by a
comment "A variant ..." are not part of any specification. Each is a
plausible mistake in the definition that follows it; substituted for it, the
property it is aimed at fails.

### How states and actions correspond to the code

**RpcRelay.** `handler` and `invoker` are the program counters. `dataChan`,
`dataClosed` and `doneLen` are the two channels; a message is its number in the
order in which the invoker received it. `TakeDone`, `TakeData`, `TakeClosed` and
`TakeCancel` are the cases of the select. A write to the client is under way in
the states `write` (of the message in `data`) and `close`, and ends in a step of
its own, `WriteEnds`, `WriteFails` or `CloseEnds`, or never. The empty `default`
case is a stuttering step. The steps before the call (`IsMatchTransformRule`,
`TransformToRPC`, `nextTarget`, `Dial`, `Call`) keep only success or error.
`Return` includes the deferred calls. `InvokeUnary` is the whole unary call,
whose timeout is one of its errors.

**Pubsub.** `AddTopic`/`FindTopic`/`StartPublish` are the sections under
`ps.mu`, which never block inside and so are atomic. `LockBucket` to
`FinishBucket` is the goroutine of one bucket, with `StartWrite` and `EndWrite`
around each `WriteMessage`: two writers on a connection are visible. Such a
meeting panics or garbles the connection, at the choice of the model, because
gorilla/websocket detects it only sometimes. `Disconnect` leaves the
subscriptions alone, as `ws.Close` does, and a reader may still act on a message
it read before. `inbox` and `owed` are history
variables.

**WsConn.** `reader` and `checker` are the program counters; the ping and close
handlers run inside `ReadMessage`, on the reader's stack. `Renew` is the
rendezvous on the unbuffered channel. The timer is two flags: running, and a
tick in its channel. `Reset` of a fired timer does not drain the channel (the
module is `go 1.18`).

**Registration.** `Grant`, `Put`, `KeepAlive` are the three calls of
`putWithLease`. A failed `Put` may have been carried out. `KeepAlive` may fail, an
error that `Register` drops: it returns nil and there is no goroutine. `CloseClient` and
`Cancel` are the two steps of `Close`. etcd and its client are external.

**Discovery.** `loop` and `todo` are the watch goroutine and the events or keys
it is going through, one critical section of `PutServer` at a time. `stage`,
`list` and `left` are the same for each request in `GetService`. The event of a
deletion has no value, as in etcd. Garbled values are those that
`json.Unmarshal` refuses.

**NextTarget.** A request takes its target from the header, or calls
`GetService`, parses the client's address and picks. `PickInTurn` raises the
atomic counter and reads it in one step. `PickByWeight` runs on services that
were decoded a moment ago; `PickByHash` on a ring nobody fills. The watch
goroutine takes no step here: it writes only `e.service`, which requests never
read.

**Registry.** Composes `Registration` and `Discovery` by `INSTANCE`. etcd's
`store` is no variable of its own: it follows from the keys of the process,
which `Registration` changes, and from the `other` services, which stay as they
are. Each step of the process that changes a key puts an event into an open
watch (`Told`). The two sides have a connection to etcd each (`link`, `up`).

**SmoothRotation, HashRing.** The weighted rotation and the ring with a caller
of their own, who keeps the list or calls `Add`, as the tests of the package
do. A `Pick` of the ring changes nothing and is an operator.

**Forwarding.** `rules` is the list, `wanted` a history variable: how often a
rule was added and not removed. `DirectByRule`, `DirectToTarget` and
`DirectNowhere` are the branches of the director with the reverse proxy behind
it, `Transform` is the other half of `ServeHTTP` up to the call, `Answer` is
`ModifyResponse`. Regular expressions are the sets of paths they match. Since
`Match` is one critical section and everything else about a request is its own,
one request at a time, between any changes of the list, shows all there is.

**Targets.** `user` says whose behaviour this is: the gateway's requests, a
rotation, a ring or the director. The others stand still in a fixed state. It
takes the place of four runs.

**Filters.** `stage` is the goroutine of a request. The sort of at most two
filters is a comparison (`Compare`) and perhaps a swap, which reads both
elements (`Load`) and writes them field by field in any order (`Store`): Go
gives no order to the writes of a data race. `ran` is what the request has
called, and `index` its length. `Reserve`, `Judge` and `Cancel` are `Avabile`,
the test of `Delay`, and the deferred call. A filter that gives up with
`ctx.Error` writes into its own copy of the context, so its request ends
without an answer (`NoIPAddr`). So may one that reaches the proxy (`Proxied`),
whose RPC fails or whose Director panics. The early returns of `dispatch` can never be
taken, because no filter calls `next` on a context that is aborted or failed.
`raced`, `passed` and `crossed` are history variables.

**Gateway.** `main`, `listener`, `stopper` and `prof` are the goroutines of the
process. `Exit` ends all of them at once. `ListenAndServe` is three steps, as in
net/http: the test for a shutdown (`Listen`), `net.Listen`, which may fail
(`Bind`), and `Serve`, which tests again (`Accept`). `Shutdown` comes between any
of them and closes a listener that `Serve` has made known. A request may arrive
while the listener is open, and runs on after it is closed.

## 3. Runs

| Run | Question | Bounds, and why they are enough |
|---|---|---|
| `relay` | order, completeness, one outcome, refinement; answers and ends | channel of 2, stream of 4: the channel fills, and the sender blocks with one message in hand and one to come |
| `relay_failed` | is a failed call answered? **No** | as above |
| `pubsub_one_topic` | one topic: one writer, order, refinement; does every call return? | 2 connections in one of 2 buckets, each publishes once: two publications that overlap, and subscribers whose orders can be compared |
| `pubsub_two_topics` | two topics: only subscribers, where writers meet, order of a sender | 2 connections in different buckets, one publishes twice: the smallest in which writers of two topics meet, and a sender's order could be upset |
| `ws_connection` | close once, silence is closed, goroutines end | 2 buffered frames: any order of two frames; timers restart without bound |
| `ws_stale` | closed only when silent? **No** | as above |
| `registry` | from one end to the other: does a key outlive its process or a failed call, is what is registered known, is a service that is up listed to requests, is `Close` heard? | 1 service of the process and 1 of another, whose value may not decode and comes first in the order of keys; both connections, the watch and the process come and go without bound |
| `registration_panic` | can the goroutine panic? **Yes** | 1 service |
| `discovery_delete` | is what is gone forgotten? **No** | 2 names, 1 change |
| `targets` | does the round robin share evenly, and when can a pick panic? is the weighted rotation exact, and nobody ahead of its share? is the ring consistent? do wanted rules decide? | 3 concurrent requests, 2 services, 1 change of the registry, 3 schemes; `Half` = 4 for 2^63, so integers of 3 bits instead of 64, the counter starting at 0, just before the largest int and just before it wraps to 0. Every list of 4 services or nils, weights 0 to 3. Every hash function of 2 services, 2 replicas, 4 places, 3 calls of `Add`. Lists of 3 of 3 rules that overlap, duplicates and nils among them, and 4 requests |
| `gateway` | filters in order, one answer, rate and refusals, shutdown at any moment of `ListenAndServe` | `MCGateway` names four instances, each a behaviour of its own: 4 requests and 4 ticks on the rate limit of `Start` (a burst of 1, a token in 2 ticks: two tokens come back), the two orders of two filters under 3 and 2 requests that meet, and 2 requests with a signal at any moment |
| `gateway_shutdown` | is nobody cut off by a shutdown? **No** | 1 request |

`targets` and `gateway` use symmetry of the requests, which no definition tells
apart; they check no liveness, for which symmetry would be unsound. `Registry`
leaves the requests out: they read etcd as the watch does, and are checked in
`NextTarget`.

Deadlock checking is off where the system ends by itself: a relayed request
returns, publications are bounded, connections are closed, the process ends.

### What the runs found

1. `relay_failed`: `break` in the `Done` case (`proxy.go:151`) leaves the
   select and not the loop. A failed RPC is never answered and its handler
   polls until the client goes away.
2. `ws_stale`: a ping that arrives when the timer has just fired resets it but
   leaves the tick (`ws.go:208`): the connection is closed all the same.
3. `registration_panic`: the closed keep-alive channel yields nil, which
   `etcd_registry.go:81` dereferences.
4. `discovery_delete`: an event is decoded before its type is looked at
   (`discovery.go:162`), so deletions are skipped.
5. `gateway_shutdown`: `Start` returns at the signal (`server.go:73`) without
   waiting for the goroutine that calls `Shutdown`, and `main` with it. What is
   logged as graceful cuts off the requests in flight.

Visible in the models without a run of their own:

* an invoker blocked on a full `DataChan` after its handler returned stays for
  ever (the exception in `InvokerEndsOrIsStuck`), and so does a reader blocked
  in `keepAlive` after `checkIsAlive` returned (`GoroutinesEnd`);
* publications to two topics can write to one connection at once
  (`OverlapOnlyAcrossTopics` says when);
* `EtcdClient.Close` closes the client before it cancels the context, so the
  `Revoke` of the goroutine (`etcd_registry.go:84`) reaches nobody (`Leave`);
* the weighted scheme keeps its state in services that `GetService` decodes
  anew for every request, so the first of the heaviest gets every request
  (`PickByWeight`), whereas the test of the scheme expects a rotation;
* nothing adds services to the ring, so consistent hashing finds no target
  whatever is registered (`PickByHash`);
* after `Remove` a key may lead to an empty address;
* two requests that meet while the slice of filters is out of order may lose one
  of two filters for good (`Store`; `FiltersRunInOrder` excuses them). `Start`
  registers one filter only;
* a filter that gives up leaves an empty 200 (`NoIPAddr`): a client with an IPv6
  zone gets nothing, and no error;
* refusals that overlap lose tokens: `Cancel` gives back only what was not
  promised to later reservations (`Cancelled`). `RefusalIsFree` excuses more than
  these: every reservation made while another request of the same client is not
  judged yet;
* the metadata of an RPC is always empty (`Metadata`), a failed JSON answer that
  is not the gateway's own arrives without its body (`Answer`), a rule that is
  relative, as those of the tests are, leads to no host (`Sent`), and a path
  without a rule panics (`DirectByRule`);
* the CORS filter refuses the origins `validateOrigin` accepts (`RunCors`), and
  the director doubles the query when neither rewriting nor balancing is on
  (`DirectNowhere`), or leaves the request as it is when there is no target
  (`DirectToTarget`);
* a service process that loses its lease ends by the panic of
  `registration_panic`, so one whose goroutine keeps the lease alive is listed
  for as long as it is up (`StaysUpIsListed`);
* `Register` drops the error of `keepAlive` (`etcd_registry.go:53`) and returns
  nil: the lease runs out, and the service is up, believes itself registered, and
  is found by nobody (`KeepAlive`). `StaysUpIsListed` excuses this case, `worker`
  is `"none"` in it;
* a `net.Listen` that fails when `Shutdown` has begun is fatal all the same
  (`http_server.go:104`; the exception in `ShutdownIsClean`);
* a client that stays connected and does not read holds its handler for ever in a
  write (`proxy.go:162`, `:184`), and with it perhaps the invoker.

### Fairness

* Goroutines that can run do, and a case of a select that stays ready is taken:
  the relay's loop polls, and Go draws uniformly among the ready cases. For
  Discovery's loop, whose cases come and go, this is strong fairness of each.
* A Go mutex is handed to a goroutine that has waited for a millisecond
  (starvation mode): strong fairness of `LockBucket`, `Add` and `Remove`.
* A unary call ends within its five seconds. A stream whose context is
  cancelled fails. Nothing is assumed of a live backend.
* No write has a deadline, so none need end while the client is connected; on a
  connection that is gone it ends. In the relay nothing more is assumed by
  fairness. `SuccessIsAnswered`, and the half of `RelayReturns` about an ended
  stream, have as a premise that no write blocks for ever (`WritesEnd`).
  Its other half, about a unary call whose client left, needs none, and neither does
  `InvokerEndsOrIsStuck`.
* In the broker `CallsReturn` does assume that a `WriteMessage` ends.
  `SilentIsClosed` and `GoroutinesEnd` inherit it, since a message handler may be
  in `Publish`.
* Time passes: an unrenewed lease expires, a running timer fires. The etcd
  library closes the keep-alive channel of a lost lease.
* `RegisteredIsKnown` and `CloseIsHeard` have "etcd answers from some time on" as
  a premise of their own, `StaysUpIsListed` that the service reaches etcd. It
  speaks of what `GetService` would decode from the store (`Listed`), which is
  what a request gets, and not of the map `service`.

## 4. Proofs

Every safety property of the passing runs, invariants, action properties and
the two refinements, is also a theorem: it holds for every value of the
constants under the named assumptions of the modules (capacities, `Replicas`,
`Half` and the like are positive, `fnv32` is a function of the nodes to
naturals, `Services` are the finitely many keys of `KeyOrder`, ...). A
theorem's proof is Init, step, consequence: an invariant that is inductive,
stronger than the property, and named below.

**RpcRelayProofs.** The invariant is `RelayInv`: `TypeOK`, `Control`,
`OneOutcome`, `NothingLost`, `DeliveredInOrder` and `CloseIsComplete` together,
with the link between response and deliveries that the refinement needs. None
is inductive alone: order needs that the message being written
(`data`, `InWrite`) and then the buffered ones continue the delivered ones
(`NothingLost`), completeness of the close needs that nobody sends after closing
and that the channel is drained before the close frame is begun (`Control`), and
one outcome needs the positions of both goroutines. From it follow `TypeCorrect`, `InOrder`,
`CompleteClose`, `SingleOutcome`, `NoMessageLost`, and `RelayRefines`: initial
states map to initial states of `Exchange`, each step to a step or a stutter.

**PubsubProofs.** `PubsubInv` adds to the types that a looping goroutine holds
its bucket's mutex (`MutexHeld`), that it writes only while it loops, that what
it still has to write to is subscribed (`WriteImpliesSubscribed`), and that a
subscriber sits in the bucket of its hash. Two writers on a connection of the
same topic would sit in the same bucket and hold the same mutex: that is
`OverlapNeedsTwoTopics`, from which `SingleTopicSafe` follows.
`OrderInv`, about messages, rests on it: nobody has a message that is not yet
published, nor one that is still to be written to it (`UnservedHaveNot`), so a
delivery is always a new last message; with one topic, those of a bucket that
have the message of the current loop have it last (`CurrentIsLast`), so that the
next ones append it at the same place of the common order. That gives
`InSenderOrder` and `InBucketOrder`. For `BrokerRefines` it also says
that every debt of a publication (`owed`) still has a goroutine to pay it
(`OwedIsPending`): a publication may return only when it owes nothing.
`NobodyWaitsInACircle` is the safety half of `CallsReturn`: a mutex that is taken
is held by a goroutine inside its loop over that very topic's bucket
(`HeldInLoop`), and the loop needs no further mutex; a publication's goroutines
all live until it returns (`AllStarted`). So whoever waits, waits for a free
mutex or for a write to the network.

**WsConnProofs.** `OnceInv` ties `done`, `connOpen` and the state of the `Once`
together: while its caller is between its two steps the connection is closed
and `Done` is not. `CloseOnce`, `ClosedBeforeDone` and `TypeCorrect` follow.

**RegistryProofs.** `TypeCorrect`, of both sides and of the events in between:
it needs that the one store they share has values both know. The types of
`Registration` say that a key in etcd is always under a live lease, which is
what `LeaseCleansUp` rests on.

**GatewayProofs.** The filters are the two that `WithFilters` knows, in whichever
list of them, with the priorities they have; any requests, buckets and ticks.
First, `GatewayRunsFilters`: every step of the process takes a
step of the filters or none, so what is proved of `Filters` holds in `Gateway`.
`FilterInv` is what the sort needs: until requests have met, the slice is in
order and nobody swaps, or is untouched, or exactly one request swaps and no
other has begun (`InOrder`), where what is loaded and not yet stored is tracked
field by field (`Swapping`). So what has run is a front of the slice as
it is (`RanFront`), which gives `RunInOrder`. `Answered` gives `AnsweredOnce`: a
request that is still in the filters has no answer yet, which rests on the
positions of `InTurn`.
`ProcessInv`, about the goroutines of the process, says that once `Shutdown` has
begun the server does not serve and that only a failed bind is fatal.
`NobodyIsLeft` adds that no request arrives after it. `ShutdownSucceeds` is the
two together: the end of the server is not taken for a failure, except that of a
bind that fails meanwhile, which the code does take for one.

**RateProofs.** `RateBounded`: `Sound` says that a bucket covers all it has
promised. The moment at which it was or will be empty (`Zero`) is late enough
for every set of promises, those that passed and the reservations still held
(`Live`). `Reserve` moves it by a token, a cancellation back by what was promised
to nobody later; both keep the set covered, and a bucket that is full
forgets nothing, because its earlier promises are long past. `RefusalFree`:
`FreeInv` says that a client none of whose requests reserved while another was
not judged yet (`crossed`) is quiet, its bucket
no emptier than the requests that passed account for (`Due`), or waits for one
request whose reservation is the last.

**TargetsProofs**, for each user of `Targets` an invariant:

* the weighted rotation (`RotationInv`): the `CurrentWeights` are the ledger
  of the circle and sum up to nothing. So the best, once all are raised, is
  above zero, pays `Total`, and stays above `-Total`, which says in terms of the
  ledger that nobody is a pick ahead. After as many picks as `Total`, every difference between picks and
  weight is at most 0 and all sum up to 0, so each is 0;
* the requests (`NextTargetInv`): a list names no service twice; and while all
  served requests saw the same list and no one has panicked, services rank by how
  long ago their turn was (`InTurn`): those of more recent turns are ahead by one
  at most. The overflow of the counter is no exception: a pick on a negative
  count that does not panic takes the next index all the same (`IndexFacts`).
  `PanicOnlyOnOverflow` rests on the same facts about `%` and the int;
* the ring (`RingInv`): a member whose places are its own owns them. The search
  in the sorted keys, gone around, is the nearest place clockwise and no other
  place is as near (`PlaceIsNearest`); adding places can only make the new ones nearest;
* the Director (`ForwardingInv`): a rule is in the list as often as it
  is wanted. `Match` finds the first place with a nil or a rule for the path,
  so a rule it finds is wanted, and one that is wanted is found.

**SetLemmas** holds what these need of finite sets: the least element, the
order of `Arrange`, and the sums of the community modules, whose recursive
definition is reached by taking the smallest set on which two functions
that add up would differ, in place of an induction.

### What the proofs changed

* `RateProofs`: `RefusalIsFree` was false for bursts of more than one. Two
  reservations of one request, made at the same tick after requests had met in
  the sort, were one element of the set `passed`. A reservation now has a
  number of its own (`Reservation`); with the burst of 1 of the run the two
  could not have come about.
* `TargetsProofs`: `SharedEvenly` asked for an unbroken sequence of turns without
  excusing a request that panicked before, which takes a turn and is served by
  nobody. It now says so.
* A former property of `SmoothRotation`, that every service is within one pick of
  its share at any time, holds for the lists of four of the run and is false
  from five services on: with the weights 27, 1, 1, 1 and 18 a service falls
  behind by more than a pick. Its place is taken by `WeightsAreKept`: nobody is ahead
  by a pick, and a full circle is exact.
* `Sorted` and the order of keys are no longer `SortSeq`, which the
  provers cannot reason about, but `Arrange`. The width of an integer is the
  constant `Half`.

### What is only model-checked

* All liveness: `SuccessIsAnswered`, `RelayReturns`, `InvokerEndsOrIsStuck`,
  `CallsReturn`, `SilentIsClosed`, `GoroutinesEnd`, `LeaseCleansUp`,
  `RegisteredIsKnown`, `StaysUpIsListed`, `CloseIsHeard`. TLAPS here has neither a way to
  reason about fairness (`ENABLED`) nor induction over what is still to do.
* The five properties that the code violates.

`Control`, `CloseIsComplete` and `MutexHeld` are the other way round: proved,
and left out of the runs because what is run (the refinements, `NothingLost`,
`OneTopicIsSafe`) fails whenever they matter. `NoCircularWait` is proved in place
of a run, as `CallsReturn` would fail with it.

## 5. Not modelled

* Contents: headers, JSON, protobuf, reflection, URL syntax. The models keep
  whether a conversion succeeds.
* The race on the response headers in `Call` (`grpcRequest.go:110`): nothing is
  said about headers.
* The JWT filter: `WithFilters` does not know it, and nothing else calls it.
* `TopicList`, `TopicSubscribersList`, `CheckSameOrigin`, `TransformToApi`,
  `ParseDefinition`, `HTTPRequest`, the marshalers: unused, or read-only.
* Lists of more than two filters: `WithFilters` knows two.
* A restart of a service process with a new lease while the old one is still
  alive; `Registration` follows one life of a process.
* Negative weights, which JSON would admit, and which no example uses.
* A second call of `EtcdDiscovery.Close`, which would wait for ever; the gateway
  does not even make the first.
* Configuration, but for its absence (`Gateway`). `http_server.go:42` reads
  `HTTP_PORT` before `InitConfig` has set it, so the port is always 8080, and
  `Start` gives the proxy constants, not the values of `config.yaml`.
* Logging, examples, generated code.

## 6. Plan

Built so far, in this order: relay, broker, connection, registration,
discovery, balancing; then filters, the process, forwarding, and registration
composed with discovery; then the proofs of every safety property that is run.
Still to come:

1. Proofs of what the liveness rests on, as `NobodyWaitsInACircle` is for the
   broker: `Discovery` knows every key that it was told or has read, a relay whose
   call succeeded has an answer before it or to come.
2. `WsConn` and `Pubsub` composed: closed connections that stay subscribed, and
   readers held up by other clients. Its properties would take the place of the
   weaker ones of the two parts.
