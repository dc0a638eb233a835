------------------------------ MODULE Filters ------------------------------
(***************************************************************************)
(* The filters every request passes before it is proxied (FilterChains),   *)
(* and the two that WithFilters knows: cors and ratelimit.                 *)
(*                                                                         *)
(* The slice of filters is shared, and every request sorts it in place     *)
(* without a lock. A filter is called with a copy of the context: it       *)
(* answers the request itself, or goes on by calling next, or gives up     *)
(* with an error in its copy, which nobody sees. (So the two early returns *)
(* of dispatch, on a context that is aborted or has an error, are never    *)
(* taken: no filter calls next on such a context.)                         *)
(***************************************************************************)
EXTENDS TokenBucket, Sequences, FiniteSetsExt

CONSTANTS
  Requests,
  Clients,     \* the addresses GetIPAddr accepts
  Instances    \* the lists WithFilters may be called with, each with bounds

\* Bounds: how many requests arrive, how often the clock ticks, and whether
\* the process is asked to end.
ASSUME InstancesAssumption ==
  Instances \subseteq [filters : {<<>>, <<"cors">>, <<"ratelimit">>,
                                <<"cors", "ratelimit">>, <<"ratelimit", "cors">>},
                     arrivals : Nat, ticks : Nat, signal : BOOLEAN]

NoAddress == "noaddress"   \* GetIPAddr fails, as it does for an IPv6 zone

VARIABLES
  instance,  \* the instance at hand
  chain,     \* f.chain
  stage,     \* stage[r]: what the goroutine of the request does
  copy,      \* copy[r]: what Swap has read
  pending,   \* pending[r]: the fields Swap has still to write
  ran,       \* ran[r]: the filters called so far; index is its length
  client,    \* client[r]: its address
  out,       \* out[r]: who has written an answer
  clock,
  buckets,   \* r.buckets; a client without one gets a full one
  held,      \* held[r]: the times to act of its reservations, latest first
  passed,    \* history: the reservations that let their request pass
  raced,     \* history: two requests were sorting, and not in order yet
  crossed    \* history: clients that reserved while another reservation of
             \* theirs was undecided, or whose refusal ended late

sortVars == <<chain, copy, pending, raced>>
limitVars == <<clock, buckets, held, passed, crossed>>
servedVars == <<instance, sortVars, limitVars, ran, client>>
filterVars == <<servedVars, stage, out>>

Priority(name) == IF name = "ratelimit" THEN 2 ELSE 1
Handler(name) == [priority |-> Priority(name), handle |-> name]
Fields == {"priority", "handle"}
Names == {"cors", "ratelimit"}

Filter == [priority : 1..2, handle : Names]

FiltersTypeOK ==
  /\ instance \in Instances
  /\ chain \in Seq(Filter) /\ Len(chain) = Len(instance.filters)
  /\ stage \in [Requests -> {"idle", "compare", "load", "store", "dispatch",
                             "cors", "ratelimit", "reserved", "proxy",
                             "return", "done"}]
  /\ copy \in [Requests -> Seq(Filter)]
  /\ pending \in [Requests -> SUBSET ((1..2) \X Fields)]
  /\ ran \in [Requests -> Seq(Names)]
  /\ \A r \in Requests : Len(ran[r]) <= Len(chain)
  /\ client \in [Requests -> Clients \cup {NoAddress}]
  /\ out \in [Requests -> SUBSET {"origin", "preflight", "limit", "upstream"}]
  /\ clock \in 0..instance.ticks
  /\ buckets \in [Clients -> [tokens : Int, updated : Nat, lastEvent : Nat]]
  /\ \A c \in Clients : buckets[c].tokens <= Cap /\ buckets[c].updated <= clock
  /\ held \in [Requests -> Seq(Nat)]
  /\ passed \subseteq Requests \X Nat \X Nat
  /\ raced \in BOOLEAN
  /\ crossed \subseteq Clients

FiltersInit ==
  /\ instance \in Instances
  /\ chain = [i \in DOMAIN instance.filters |-> Handler(instance.filters[i])]
  /\ stage = [r \in Requests |-> "idle"]
  /\ copy = [r \in Requests |-> <<>>]
  /\ pending = [r \in Requests |-> {}]
  /\ ran = [r \in Requests |-> <<>>]
  /\ client = [r \in Requests |-> NoAddress]
  /\ out = [r \in Requests |-> {}]
  /\ clock = 0
  /\ buckets = [c \in Clients |-> Full]
  /\ held = [r \in Requests |-> <<>>]
  /\ passed = {}
  /\ raced = FALSE
  /\ crossed = {}

-----------------------------------------------------------------------------
Goes(r, from, to) ==
  /\ stage[r] = from
  /\ stage' = [stage EXCEPT ![r] = to]

Writes(r, answer) == out' = [out EXCEPT ![r] = @ \cup {answer}]

\* Nothing is left to swap, nor half swapped.
Settled(c) ==
  \A i \in DOMAIN c :
    /\ c[i] = Handler(c[i].handle)
    /\ \A j \in 1..(i - 1) : c[j].priority > c[i].priority

Sorting(r) == stage[r] \in {"compare", "load", "store"}

\* dispatch of GatewayServer calls Compose.
Arrive(r) ==
  /\ Cardinality({q \in Requests : stage[q] # "idle"}) < instance.arrivals
  /\ Goes(r, "idle", "compare")
  /\ \E c \in Clients \cup {NoAddress} : client' = [client EXCEPT ![r] = c]
  /\ raced' = (raced \/ \E q \in Requests : Sorting(q) /\ ~Settled(chain))
  /\ UNCHANGED <<instance, limitVars, chain, copy, pending, ran, out>>

\* A variant that does not sort.
CompareOnly(r) ==
  /\ Goes(r, "compare", "dispatch")
  /\ UNCHANGED <<servedVars, out>>

\* sort.Sort of at most two filters: one comparison, Less(1, 0) ...
Compare(r) ==
  /\ Goes(r, "compare",
          IF Len(chain) = 2 /\ chain[2].priority > chain[1].priority
          THEN "load" ELSE "dispatch")
  /\ UNCHANGED <<servedVars, out>>

\* ... and at most one Swap, which reads both elements ...
Load(r) ==
  /\ Goes(r, "load", "store")
  /\ copy' = [copy EXCEPT ![r] = chain]
  /\ pending' = [pending EXCEPT ![r] = (1..2) \X Fields]
  /\ UNCHANGED <<instance, chain, raced, limitVars, ran, client, out>>

\* ... and writes them, field by field and in any order: nothing orders the
\* writes for the other requests.
Store(r) ==
  /\ \E f \in pending[r] :
       /\ chain' = [chain EXCEPT ![f[1]][f[2]] = copy[r][3 - f[1]][f[2]]]
       /\ pending' = [pending EXCEPT ![r] = @ \ {f}]
       /\ IF pending[r] = {f}
          THEN Goes(r, "store", "dispatch") /\ copy' = [copy EXCEPT ![r] = <<>>]
          ELSE Goes(r, "store", "store") /\ UNCHANGED copy
  /\ UNCHANGED <<instance, raced, limitVars, ran, client, out>>

\* dispatch: the next filter, or proxy.ServeHTTP after the last one.
Dispatch(r) ==
  LET index == Len(ran[r]) + 1
  IN  /\ \/ /\ index <= Len(chain)
            /\ Goes(r, "dispatch", chain[index].handle)
            /\ ran' = [ran EXCEPT ![r] = Append(@, chain[index].handle)]
         \/ /\ index > Len(chain)
            /\ Goes(r, "dispatch", "proxy")
            /\ UNCHANGED ran
      /\ UNCHANGED <<instance, sortVars, limitVars, client, out>>

-----------------------------------------------------------------------------
(* cors. AllowAllOrigin is set, so validateOrigin accepts every origin,    *)
(* and the filter refuses those that it accepts.                           *)

\* A variant without the first return.
RunCorsOn(r) ==
  /\ \/ /\ Goes(r, "cors", "dispatch")
        /\ Writes(r, "origin")
     \/ /\ Goes(r, "cors", "return")
        /\ Writes(r, "preflight")
     \/ /\ Goes(r, "cors", "dispatch")
        /\ UNCHANGED out
  /\ UNCHANGED servedVars

RunCors(r) ==
  /\ \/ /\ Goes(r, "cors", "return")
        /\ Writes(r, "origin")
     \/ /\ Goes(r, "cors", "return")
        /\ Writes(r, "preflight")
     \/ /\ Goes(r, "cors", "dispatch")
        /\ UNCHANGED out
  /\ UNCHANGED servedVars

-----------------------------------------------------------------------------
(* ratelimit.                                                              *)

\* ctx.Error on the copy of the filter: the request ends without an answer.
NoIPAddr(r) ==
  /\ client[r] = NoAddress
  /\ Goes(r, "ratelimit", "return")
  /\ UNCHANGED <<servedVars, out>>

\* The latest reservation of a request, its time to act and its number: a
\* request that meets another one may reserve twice, even at the same time.
Reservation(r) == <<r, Head(held[r]), Len(held[r])>>

\* A reservation that Delay has not judged, or whose Cancel has not come yet.
Undecided(r) == held[r] # <<>> /\ Reservation(r) \notin passed

\* A variant with Load and Store for LoadOrStore: of two requests that are in
\* Take at once each may make a limiter.
ReserveOwn(r) ==
  LET c == client[r]
      others == {q \in Requests \ {r} : stage[q] = "reserved" /\ client[q] = c}
  IN  /\ client[r] # NoAddress
      /\ Goes(r, "ratelimit", "reserved")
      /\ \E bucket \in {buckets[c]} \cup {Full : q \in others} :
           LET reservation == Reserved(bucket, clock)
           IN  /\ buckets' = [buckets EXCEPT ![c] = reservation.bucket]
               /\ held' = [held EXCEPT ![r] = <<reservation.act>> \o @]
      /\ UNCHANGED <<instance, sortVars, clock, passed, crossed, ran, client, out>>

\* Avabile: Take finds or makes the limiter of the client in one step, and
\* Reserve is atomic as well.
Reserve(r) ==
  LET c == client[r]
      reservation == Reserved(buckets[c], clock)
  IN  /\ client[r] # NoAddress
      /\ Goes(r, "ratelimit", "reserved")
      /\ buckets' = [buckets EXCEPT ![c] = reservation.bucket]
      /\ held' = [held EXCEPT ![r] = <<reservation.act>> \o @]
      /\ crossed' = IF \E q \in Requests : client[q] = c /\ Undecided(q)
                    THEN crossed \cup {c} ELSE crossed
      /\ UNCHANGED <<instance, sortVars, clock, passed, ran, client, out>>

\* Delay: the request is refused, or goes on.
Judge(r) ==
  /\ \/ /\ Goes(r, "reserved", "return")
        /\ Head(held[r]) > clock
        /\ Writes(r, "limit")
        /\ UNCHANGED passed
     \/ /\ Goes(r, "reserved", "dispatch")
        /\ Head(held[r]) <= clock
        /\ passed' = passed \cup {Reservation(r)}
        /\ UNCHANGED out
  /\ UNCHANGED <<instance, sortVars, clock, buckets, held, crossed, ran, client>>

\* A variant that does not call Cancel.
CancelNot(r) ==
  /\ held[r] # <<>>
  /\ Goes(r, "return", "return")
  /\ held' = [held EXCEPT ![r] = Tail(@)]
  /\ UNCHANGED <<instance, sortVars, clock, buckets, passed, crossed, ran, client, out>>

\* The deferred Cancel.
Cancel(r) ==
  LET c == client[r]
      act == Head(held[r])
  IN  /\ held[r] # <<>>
      /\ Goes(r, "return", "return")
      /\ buckets' = [buckets EXCEPT ![c] = Cancelled(@, act, clock)]
      /\ held' = [held EXCEPT ![r] = Tail(@)]
      /\ crossed' = IF Undecided(r) /\ act <= clock
                    THEN crossed \cup {c} ELSE crossed
      /\ UNCHANGED <<instance, sortVars, clock, passed, ran, client, out>>

-----------------------------------------------------------------------------
\* proxy.ServeHTTP has answered the request, or has ended without: the call
\* failed (see RpcRelay), or the Director panicked (see Forwarding).
Proxied(r) ==
  /\ Goes(r, "proxy", "return")
  /\ Writes(r, "upstream") \/ UNCHANGED out
  /\ UNCHANGED servedVars

\* The handler returns.
Done(r) ==
  /\ held[r] = <<>>
  /\ Goes(r, "return", "done")
  /\ UNCHANGED <<servedVars, out>>

Tick ==
  /\ clock < instance.ticks
  /\ clock' = clock + 1
  /\ UNCHANGED <<instance, sortVars, buckets, held, passed, crossed, stage, ran, client, out>>

Serve(r) ==
  \/ Compare(r) \/ Load(r) \/ Store(r) \/ Dispatch(r)
  \/ RunCors(r) \/ NoIPAddr(r) \/ Reserve(r) \/ Judge(r) \/ Cancel(r)
  \/ Proxied(r) \/ Done(r)

FiltersNext == Tick \/ \E r \in Requests : Arrive(r) \/ Serve(r)

FiltersSpec == FiltersInit /\ [][FiltersNext]_filterVars

-----------------------------------------------------------------------------
(* Properties.                                                             *)

\* Every request passes the filters once each and by priority, unless two
\* requests have met while the slice was not in order yet.
FiltersRunInOrder ==
  ~raced => \A r \in Requests :
    /\ \A i, j \in DOMAIN ran[r] :
         i < j => Priority(ran[r][i]) > Priority(ran[r][j])
    /\ stage[r] = "proxy" => Len(ran[r]) = Len(chain)

\* A request is answered by one writer at most, and is left without an
\* answer only by the filter that gave up, or by the proxy behind all of them.
OneAnswer ==
  \A r \in Requests :
    /\ Cardinality(out[r]) <= 1
    /\ stage[r] = "done" /\ out[r] = {} =>
         client[r] = NoAddress \/ Len(ran[r]) = Len(chain)

\* The requests of a client that pass, however they interleave and whatever
\* is cancelled in between: Burst at once, and one more for every second.
RateBound ==
  \A c \in Clients :
    \A s \in SUBSET {p \in passed : client[p[1]] = c} :
      s # {} => Period * (Cardinality(s) - Burst)
                  <= Max({p[2] : p \in s}) - Min({p[2] : p \in s})

\* What the bucket of a client holds when only the requests that passed
\* have taken from it.
FairLevel(c) ==
  LET mine == {p \in passed : client[p[1]] = c}
      since(t) == Cardinality({p \in mine : p[2] >= t})
  IN  Min({Cap} \cup {Cap + clock - p[2] - Period * since(p[2]) : p \in mine})

\* A refused request costs its client nothing, as long as no request of the
\* client has reserved while another one was undecided (which excuses more
\* than the refusals that overlap, for which it does not hold), and every
\* refusal has ended before its time to act.
RefusalIsFree ==
  \A c \in Clients \ crossed :
    (\A r \in Requests : client[r] = c => ~Undecided(r)) =>
      Level(buckets[c], clock) = FairLevel(c)
=============================================================================
