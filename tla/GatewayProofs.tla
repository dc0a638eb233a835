---------------------------- MODULE GatewayProofs ---------------------------
(***************************************************************************)
(* Proofs about the gateway and the filters a request passes: for any      *)
(* requests and clients, any rate, and whichever of the two filters that   *)
(* WithFilters knows are in the list, in whichever order.                  *)
(***************************************************************************)
EXTENDS Gateway, FiniteSetTheorems, SequenceTheorems, TLAPS

\* The two filters differ in their priority, so a list of them has one order.
LEMMA HandlerFacts ==
  /\ \A name \in Names : /\ Handler(name) \in Filter
                         /\ Handler(name).handle = name
                         /\ Handler(name).priority = Priority(name)
  /\ \A name, other \in Names : Priority(name) = Priority(other) => name = other
  BY DEF Handler, Filter, Priority, Names

\* WithFilters is given each filter at most once.
LEMMA InstanceFacts ==
  ASSUME NEW i \in Instances
  PROVE  /\ i.filters \in Seq(Names) /\ Len(i.filters) \in 0..2
         /\ DOMAIN i.filters = 1..Len(i.filters)
         /\ \A j, k \in DOMAIN i.filters : i.filters[j] = i.filters[k] => j = k
         /\ i.ticks \in Nat
<1>1. /\ i.filters \in {<<>>, <<"cors">>, <<"ratelimit">>,
                        <<"cors", "ratelimit">>, <<"ratelimit", "cors">>}
      /\ i.ticks \in Nat
  BY InstancesAssumption
<1>2. CASE i.filters = <<>>
  BY <1>1, <1>2
<1>3. CASE i.filters = <<"cors">>
  BY <1>1, <1>3 DEF Names
<1>4. CASE i.filters = <<"ratelimit">>
  BY <1>1, <1>4 DEF Names
<1>5. CASE i.filters = <<"cors", "ratelimit">>
  BY <1>1, <1>5 DEF Names
<1>6. CASE i.filters = <<"ratelimit", "cors">>
  BY <1>1, <1>6 DEF Names
<1>7. QED
  BY <1>1, <1>2, <1>3, <1>4, <1>5, <1>6

-----------------------------------------------------------------------------
(* The bucket of a client.                                                 *)

Bucket == [tokens : Int, updated : Nat, lastEvent : Nat]

\* A bucket holds at least one token, and a token takes time.
LEMMA CapFacts == Cap \in Nat \ {0} /\ Period \in Nat \ {0} /\ Period <= Cap
<1>1. Period \in Nat \ {0} /\ Burst \in Nat \ {0}
  BY TokenBucketAssumption
<1>2. \A p, n \in Nat \ {0} : n * p \in Nat \ {0} /\ p <= n * p
  OBVIOUS
<1>3. QED
  BY <1>1, <1>2 DEF Cap

\* What is in a bucket grows by the time passed, up to its capacity.
LEMMA LevelFacts ==
  ASSUME NEW b \in Bucket, NEW t \in Nat
  PROVE  /\ Level(b, t) \in Int /\ Level(b, t) <= Cap
         /\ Level(b, t) <= b.tokens + t - b.updated
         /\ b.tokens + t - b.updated <= Cap => Level(b, t) = b.tokens + t - b.updated
         /\ b.tokens + t - b.updated > Cap => Level(b, t) = Cap
  BY CapFacts DEF Bucket, Level, AtMost

\* A token is taken, and the time to act is when the debt is paid.
LEMMA ReservedFacts ==
  ASSUME NEW b \in Bucket, NEW t \in Nat
  PROVE  /\ Reserved(b, t).act \in Nat /\ Reserved(b, t).act >= t
         /\ Reserved(b, t).act
              = IF Level(b, t) >= Period THEN t ELSE t + Period - Level(b, t)
         /\ Reserved(b, t).bucket
              = [tokens |-> Level(b, t) - Period, updated |-> t,
                 lastEvent |-> Reserved(b, t).act]
         /\ Reserved(b, t).bucket \in Bucket
         /\ Reserved(b, t).bucket.tokens <= Cap
         /\ Reserved(b, t).bucket.updated = t
  BY CapFacts, LevelFacts DEF Bucket, Reserved, AtMost

\* What is given back fits into the bucket.
LEMMA CancelledFacts ==
  ASSUME NEW b \in Bucket, b.tokens <= Cap, NEW act \in Nat, NEW t \in Nat
  PROVE  /\ Cancelled(b, act, t) \in Bucket
         /\ Cancelled(b, act, t).tokens <= Cap
         /\ b.updated <= t => Cancelled(b, act, t).updated <= t
  BY CapFacts, LevelFacts DEF Bucket, Cancelled, AtMost

-----------------------------------------------------------------------------
(* Types.                                                                  *)

\* The types at the start.
LEMMA FiltersTypeInit == FiltersInit => FiltersTypeOK
<1> SUFFICES ASSUME FiltersInit PROVE FiltersTypeOK
  OBVIOUS
<1>1. /\ instance \in Instances /\ instance.filters \in Seq(Names)
      /\ DOMAIN instance.filters = 1..Len(instance.filters)
      /\ instance.ticks \in Nat
  BY InstanceFacts DEF FiltersInit
<1>2. chain \in Seq(Filter) /\ Len(chain) = Len(instance.filters)
  <2>1. PICK k \in Nat : Len(instance.filters) = k /\ DOMAIN instance.filters = 1..k
    BY <1>1
  <2>2. \A i \in 1..k : Handler(instance.filters[i]) \in Filter
    BY <1>1, <2>1, HandlerFacts
  <2>3. chain \in [1..k -> Filter]
    BY <2>1, <2>2 DEF FiltersInit
  <2>4. chain \in Seq(Filter)
    BY <2>1, <2>3, SeqDef
  <2>5. QED
    BY <2>1, <2>3, <2>4, LenProperties
<1>3. Full \in Bucket /\ Full.tokens <= Cap /\ Full.updated = 0
  BY CapFacts DEF Full, Bucket
<1>4. /\ buckets \in [Clients -> Bucket]
      /\ \A c \in Clients : buckets[c].tokens <= Cap /\ buckets[c].updated <= clock
  BY <1>3 DEF FiltersInit
<1>5. /\ ran \in [Requests -> Seq(Names)] /\ \A r \in Requests : Len(ran[r]) = 0
      /\ copy \in [Requests -> Seq(Filter)] /\ held \in [Requests -> Seq(Nat)]
  BY DEF FiltersInit
<1>6. /\ clock \in 0..instance.ticks /\ Len(chain) \in Nat
  BY <1>1, <1>2 DEF FiltersInit
<1>7. /\ stage \in [Requests -> {"idle"}]
      /\ pending \in [Requests -> SUBSET ((1..2) \X Fields)]
      /\ client \in [Requests -> Clients \cup {NoAddress}]
      /\ out \in [Requests -> SUBSET {"origin", "preflight", "limit", "upstream"}]
      /\ passed \subseteq Requests \X Nat \X Nat /\ raced \in BOOLEAN
      /\ crossed \subseteq Clients
  BY DEF FiltersInit
<1>8. \A r \in Requests : Len(ran[r]) <= Len(chain)
  BY <1>5, <1>6
<1>9. stage \in [Requests -> {"idle", "compare", "load", "store", "dispatch",
                             "cors", "ratelimit", "reserved", "proxy",
                             "return", "done"}]
  BY <1>7
<1>10. QED
  BY <1>1, <1>2, <1>4, <1>5, <1>6, <1>7, <1>8, <1>9 DEF FiltersTypeOK, Bucket

\* What the goroutine of a request may do next.
LEMMA GoesFacts ==
  ASSUME FiltersTypeOK, NEW r \in Requests, NEW from, NEW to, Goes(r, from, to)
  PROVE  /\ stage[r] = from /\ stage'[r] = to
         /\ \A q \in Requests \ {r} : stage'[q] = stage[q]
  BY DEF FiltersTypeOK, Goes

\* What a request needs to have for its steps to make sense.
Equipped ==
  \A r \in Requests :
    /\ stage[r] \in {"load", "store"} => Len(chain) = 2
    /\ stage[r] = "store" => Len(copy[r]) = 2
    /\ held[r] # <<>> => client[r] \in Clients
    /\ stage[r] = "idle" => held[r] = <<>>
    /\ stage[r] = "reserved" => held[r] # <<>>

\* A store of Swap writes one field of the chain.
LEMMA StoreFacts ==
  ASSUME FiltersTypeOK, Equipped, NEW r \in Requests, Store(r)
  PROVE  \E i \in 1..2, field \in Fields :
           /\ <<i, field>> \in pending[r]
           /\ Len(chain) = 2 /\ Len(copy[r]) = 2
           /\ chain[i] \in Filter /\ copy[r][3 - i] \in Filter
           /\ chain' = [chain EXCEPT ![i] =
                          [chain[i] EXCEPT ![field] = copy[r][3 - i][field]]]
           /\ pending' = [pending EXCEPT ![r] = @ \ {<<i, field>>}]
           /\ \/ /\ pending[r] = {<<i, field>>}
                 /\ Goes(r, "store", "dispatch")
                 /\ copy' = [copy EXCEPT ![r] = <<>>]
              \/ /\ pending[r] # {<<i, field>>}
                 /\ Goes(r, "store", "store") /\ UNCHANGED copy
<1>1. PICK f \in pending[r] :
        /\ chain' = [chain EXCEPT ![f[1]][f[2]] = copy[r][3 - f[1]][f[2]]]
        /\ pending' = [pending EXCEPT ![r] = @ \ {f}]
        /\ IF pending[r] = {f}
           THEN Goes(r, "store", "dispatch") /\ copy' = [copy EXCEPT ![r] = <<>>]
           ELSE Goes(r, "store", "store") /\ UNCHANGED copy
  BY DEF Store
<1>2. PICK i \in 1..2, field \in Fields : f = <<i, field>>
  BY <1>1 DEF FiltersTypeOK
<1>3. stage[r] = "store" /\ Len(chain) = 2 /\ Len(copy[r]) = 2
  BY <1>1 DEF Goes, Equipped
<1>4. chain \in Seq(Filter) /\ copy[r] \in Seq(Filter)
  BY DEF FiltersTypeOK
<1>5. i \in 1..Len(chain) /\ 3 - i \in 1..Len(copy[r])
  BY <1>3
<1>6. chain[i] \in Filter /\ copy[r][3 - i] \in Filter
  BY <1>4, <1>5, ElementOfSeq
<1>7. chain' = [chain EXCEPT ![i] = [chain[i] EXCEPT ![field] = copy[r][3 - i][field]]]
  BY <1>1, <1>2
<1>8. QED
  BY <1>1, <1>2, <1>3, <1>6, <1>7

\* A write of the sort keeps the types: fields of filters get fields of filters.
LEMMA StoreType ==
  ASSUME FiltersTypeOK, Equipped, NEW r \in Requests, Store(r)
  PROVE  FiltersTypeOK'
<1>1. PICK i \in 1..2, field \in Fields :
        /\ <<i, field>> \in pending[r]
        /\ Len(chain) = 2 /\ Len(copy[r]) = 2
        /\ chain[i] \in Filter /\ copy[r][3 - i] \in Filter
        /\ chain' = [chain EXCEPT ![i] =
                       [chain[i] EXCEPT ![field] = copy[r][3 - i][field]]]
        /\ pending' = [pending EXCEPT ![r] = @ \ {<<i, field>>}]
        /\ \/ /\ pending[r] = {<<i, field>>}
              /\ Goes(r, "store", "dispatch")
              /\ copy' = [copy EXCEPT ![r] = <<>>]
           \/ /\ pending[r] # {<<i, field>>}
              /\ Goes(r, "store", "store") /\ UNCHANGED copy
  BY StoreFacts
<1>4. PICK e \in Filter : chain' = [chain EXCEPT ![i] = e]
  BY <1>1 DEF Filter, Fields
<1>5. chain \in Seq(Filter) /\ i \in 1..Len(chain)
  BY <1>1 DEF FiltersTypeOK
<1>6. chain' \in Seq(Filter) /\ Len(chain') = Len(chain)
  BY <1>4, <1>5, ExceptSeq
<1>7. copy' \in [Requests -> Seq(Filter)]
  <2>1. copy \in [Requests -> Seq(Filter)] /\ <<>> \in Seq(Filter)
    BY DEF FiltersTypeOK
  <2>2. copy' = copy \/ copy' = [copy EXCEPT ![r] = <<>>]
    BY <1>1
  <2>3. QED
    BY <2>1, <2>2
<1>8. /\ pending' \in [Requests -> SUBSET ((1..2) \X Fields)]
      /\ stage' \in [Requests -> {"idle", "compare", "load", "store",
           "dispatch", "cors", "ratelimit", "reserved", "proxy", "return", "done"}]
  BY <1>1 DEF FiltersTypeOK, Goes
<1>9. UNCHANGED <<instance, raced, limitVars, ran, client, out>>
  BY DEF Store
<1>10. QED
  BY <1>6, <1>7, <1>8, <1>9 DEF FiltersTypeOK, limitVars

\* The rate limit keeps the types of its buckets and of what is held.
LEMMA LimitType ==
  ASSUME FiltersTypeOK, Equipped, NEW r \in Requests, Reserve(r) \/ Cancel(r)
  PROVE  FiltersTypeOK'
<1>1. client[r] \in Clients \cup {NoAddress} /\ held[r] \in Seq(Nat) /\ clock \in Nat
  BY InstanceFacts DEF FiltersTypeOK
<1>2. \A c \in Clients : buckets[c] \in Bucket /\ buckets[c].tokens <= Cap
                         /\ buckets[c].updated <= clock
  BY DEF FiltersTypeOK, Bucket
<1>3. CASE Reserve(r)
  <2> DEFINE c == client[r]
             reservation == Reserved(buckets[c], clock)
  <2>1. c \in Clients
    BY <1>1, <1>3 DEF Reserve
  <2>2. /\ buckets' = [buckets EXCEPT ![c] = reservation.bucket]
        /\ held' = [held EXCEPT ![r] = <<reservation.act>> \o @]
        /\ Goes(r, "ratelimit", "reserved")
        /\ crossed' \in {crossed, crossed \cup {c}}
        /\ UNCHANGED <<instance, sortVars, clock, passed, ran, client, out>>
    BY <1>3 DEF Reserve
  <2>3. /\ reservation.bucket \in Bucket /\ reservation.bucket.tokens <= Cap
        /\ reservation.bucket.updated = clock /\ reservation.act \in Nat
    BY <1>1, <1>2, <2>1, ReservedFacts
  <2>4. held' \in [Requests -> Seq(Nat)]
    <3>1. <<reservation.act>> \o held[r] \in Seq(Nat)
      BY <1>1, <2>3
    <3>2. QED
      BY <2>2, <3>1 DEF FiltersTypeOK
  <2> HIDE DEF c, reservation
  <2>5a. buckets \in [Clients -> Bucket]
    BY DEF FiltersTypeOK, Bucket
  <2>5. /\ buckets' \in [Clients -> Bucket]
        /\ \A d \in Clients : buckets'[d].tokens <= Cap /\ buckets'[d].updated <= clock
    BY <1>1, <1>2, <2>1, <2>2, <2>3, <2>5a
  <2>6. crossed' \subseteq Clients
    BY <2>1, <2>2 DEF FiltersTypeOK
  <2>7. QED
    BY <2>2, <2>4, <2>5, <2>6 DEF FiltersTypeOK, Goes, sortVars, Bucket
<1>4. CASE Cancel(r)
  <2> DEFINE c == client[r]
             after == Cancelled(buckets[c], Head(held[r]), clock)
  <2>1. /\ buckets' = [buckets EXCEPT ![c] = after]
        /\ held' = [held EXCEPT ![r] = Tail(@)] /\ held[r] # <<>>
        /\ Goes(r, "return", "return")
        /\ crossed' \in {crossed, crossed \cup {c}}
        /\ UNCHANGED <<instance, sortVars, clock, passed, ran, client, out>>
    BY <1>4 DEF Cancel
  <2>0. c \in Clients
    BY <2>1 DEF Equipped
  <2>2. Head(held[r]) \in Nat /\ Tail(held[r]) \in Seq(Nat)
    BY <1>1, <2>1
  <2>3. after \in Bucket /\ after.tokens <= Cap /\ after.updated <= clock
    BY <1>1, <1>2, <2>0, <2>2, CancelledFacts
  <2>4. held' \in [Requests -> Seq(Nat)]
    BY <2>1, <2>2 DEF FiltersTypeOK
  <2> HIDE DEF c, after
  <2>5a. buckets \in [Clients -> Bucket]
    BY DEF FiltersTypeOK, Bucket
  <2>5. /\ buckets' \in [Clients -> Bucket]
        /\ \A d \in Clients : buckets'[d].tokens <= Cap /\ buckets'[d].updated <= clock
    BY <1>2, <2>0, <2>1, <2>3, <2>5a
  <2>6. crossed' \subseteq Clients
    BY <2>0, <2>1 DEF FiltersTypeOK
  <2>7. QED
    BY <2>1, <2>4, <2>5, <2>6 DEF FiltersTypeOK, Goes, sortVars, Bucket
<1>5. QED
  BY <1>3, <1>4

\* dispatch calls the next filter, or the proxy after the last one.
LEMMA DispatchesTo ==
  ASSUME FiltersTypeOK, NEW r \in Requests, Dispatch(r)
  PROVE  /\ stage[r] = "dispatch" /\ Len(ran[r]) \in Nat
         /\ UNCHANGED <<instance, sortVars, limitVars, client, out>>
         /\ \/ \E name \in Names :
                 /\ Len(ran[r]) + 1 \in 1..Len(chain)
                 /\ name = chain[Len(ran[r]) + 1].handle
                 /\ Goes(r, "dispatch", name) /\ stage'[r] = name
                 /\ ran' = [ran EXCEPT ![r] = Append(@, name)]
            \/ /\ Len(ran[r]) = Len(chain)
               /\ Goes(r, "dispatch", "proxy") /\ stage'[r] = "proxy"
               /\ UNCHANGED ran
<1>1. /\ UNCHANGED <<instance, sortVars, limitVars, client, out>>
      /\ \/ /\ Len(ran[r]) + 1 <= Len(chain)
            /\ Goes(r, "dispatch", chain[Len(ran[r]) + 1].handle)
            /\ ran' = [ran EXCEPT ![r] = Append(@, chain[Len(ran[r]) + 1].handle)]
         \/ /\ Len(ran[r]) + 1 > Len(chain)
            /\ Goes(r, "dispatch", "proxy") /\ UNCHANGED ran
  BY DEF Dispatch
<1>2. PICK k \in Nat : k = Len(ran[r]) /\ k <= Len(chain)
  BY DEF FiltersTypeOK
<1>3. chain \in Seq(Filter) /\ Len(chain) \in Nat
  BY DEF FiltersTypeOK
<1>4. CASE k + 1 <= Len(chain)
  <2>1. k + 1 \in 1..Len(chain)
    BY <1>3, <1>4
  <2>2. chain[k + 1] \in Filter
    BY <1>3, <2>1, ElementOfSeq
  <2>3. chain[k + 1].handle \in Names
    BY <2>2 DEF Filter
  <2>4. QED
    BY <1>1, <1>2, <1>3, <1>4, <2>1, <2>3, GoesFacts
<1>5. CASE k + 1 > Len(chain)
  BY <1>1, <1>2, <1>3, <1>5, GoesFacts
<1>6. QED
  BY <1>2, <1>3, <1>4, <1>5

\* The dispatch to a filter keeps the types.
LEMMA DispatchType ==
  ASSUME FiltersTypeOK, NEW r \in Requests, Dispatch(r)
  PROVE  FiltersTypeOK'
<1>1. UNCHANGED <<instance, sortVars, limitVars, client, out>>
  BY DispatchesTo
<1>2. CASE Goes(r, "dispatch", "proxy") /\ UNCHANGED ran
  BY <1>1, <1>2 DEF FiltersTypeOK, Goes, sortVars, limitVars
<1>3. ASSUME NEW name \in Names, Len(ran[r]) + 1 \in 1..Len(chain),
             Goes(r, "dispatch", name), ran' = [ran EXCEPT ![r] = Append(@, name)]
      PROVE  FiltersTypeOK'
  <2>1. ran[r] \in Seq(Names)
    BY DEF FiltersTypeOK
  <2>2. Append(ran[r], name) \in Seq(Names)
        /\ Len(Append(ran[r], name)) = Len(ran[r]) + 1
    BY <2>1
  <2>3. /\ ran' \in [Requests -> Seq(Names)]
        /\ \A q \in Requests : Len(ran'[q]) <= Len(chain)
    BY <1>3, <2>2 DEF FiltersTypeOK
  <2>4. stage' \in [Requests -> {"idle", "compare", "load", "store", "dispatch",
          "cors", "ratelimit", "reserved", "proxy", "return", "done"}]
    BY <1>3 DEF FiltersTypeOK, Goes, Names
  <2>5. QED
    BY <1>1, <2>3, <2>4 DEF FiltersTypeOK, sortVars, limitVars
<1>4. QED
  BY <1>2, <1>3, DispatchesTo

Answers == SUBSET {"origin", "preflight", "limit", "upstream"}

\* An answer adds to the answers of its request only.
LEMMA AnswerType ==
  ASSUME FiltersTypeOK, NEW r \in Requests
  PROVE  /\ UNCHANGED out => out' \in [Requests -> Answers]
         /\ \A a \in {"origin", "preflight", "limit", "upstream"} :
              Writes(r, a) => out' \in [Requests -> Answers]
<1>1. out \in [Requests -> Answers]
  BY DEF FiltersTypeOK, Answers
<1>2. ASSUME NEW a \in {"origin", "preflight", "limit", "upstream"}, Writes(r, a)
      PROVE  out' \in [Requests -> Answers]
  <2>1. out[r] \cup {a} \in Answers
    BY <1>1 DEF Answers
  <2>2. QED
    BY <1>1, <1>2, <2>1 DEF Writes
<1>3. QED
  BY <1>1, <1>2

\* Every step of the filters keeps the types.
LEMMA FiltersTypeStep ==
  ASSUME FiltersTypeOK, Equipped, [FiltersNext]_filterVars
  PROVE  FiltersTypeOK'
<1>1. CASE UNCHANGED filterVars
  BY <1>1 DEF FiltersTypeOK, filterVars, servedVars, sortVars, limitVars
<1>2. CASE Tick
  BY <1>2, InstanceFacts DEF Tick, FiltersTypeOK, sortVars
<1>3. ASSUME NEW r \in Requests, Arrive(r) PROVE FiltersTypeOK'
  BY <1>3 DEF Arrive, Goes, FiltersTypeOK, limitVars
<1>4. ASSUME NEW r \in Requests, Compare(r) PROVE FiltersTypeOK'
  BY <1>4 DEF Compare, Goes, FiltersTypeOK, servedVars, sortVars, limitVars
<1>5. ASSUME NEW r \in Requests, Load(r) PROVE FiltersTypeOK'
  BY <1>5 DEF Load, Goes, FiltersTypeOK, limitVars
<1>6. ASSUME NEW r \in Requests, RunCors(r) PROVE FiltersTypeOK'
  <2>1. /\ Goes(r, "cors", "return") \/ Goes(r, "cors", "dispatch")
        /\ UNCHANGED servedVars
    BY <1>6 DEF RunCors
  <2>2. out' \in [Requests -> Answers]
    BY <1>6, AnswerType DEF RunCors
  <2>3. QED
    BY <2>1, <2>2 DEF Goes, Answers, FiltersTypeOK, servedVars, sortVars, limitVars
<1>7. ASSUME NEW r \in Requests, NoIPAddr(r) PROVE FiltersTypeOK'
  BY <1>7 DEF NoIPAddr, Goes, FiltersTypeOK, servedVars, sortVars, limitVars
<1>8. ASSUME NEW r \in Requests, Judge(r) PROVE FiltersTypeOK'
  <2>1. /\ Goes(r, "reserved", "return") \/ Goes(r, "reserved", "dispatch")
        /\ out' = out \/ Writes(r, "limit")
        /\ passed' \in {passed, passed \cup {Reservation(r)}}
        /\ UNCHANGED <<instance, sortVars, clock, buckets, held, crossed, ran, client>>
    BY <1>8 DEF Judge
  <2>2. held[r] \in Seq(Nat) /\ held[r] # <<>>
    BY <2>1 DEF FiltersTypeOK, Goes, Equipped
  <2>3. Head(held[r]) \in Nat /\ Len(held[r]) \in Nat
    BY <2>2
  <2>4. passed' \subseteq Requests \X Nat \X Nat
    BY <2>1, <2>3 DEF FiltersTypeOK, Reservation
  <2>5. out' \in [Requests -> Answers]
    BY <2>1, AnswerType
  <2>6. stage' \in [Requests -> {"idle", "compare", "load", "store", "dispatch",
          "cors", "ratelimit", "reserved", "proxy", "return", "done"}]
    BY <2>1 DEF Goes, FiltersTypeOK
  <2>7. QED
    BY <2>1, <2>4, <2>5, <2>6 DEF Answers, FiltersTypeOK, sortVars
<1>9. ASSUME NEW r \in Requests, Proxied(r) PROVE FiltersTypeOK'
  <2>1. /\ Goes(r, "proxy", "return")
        /\ UNCHANGED servedVars
        /\ Writes(r, "upstream") \/ UNCHANGED out
    BY <1>9 DEF Proxied
  <2>2. out' \in [Requests -> Answers]
    BY <2>1, AnswerType
  <2>3. stage' \in [Requests -> {"idle", "compare", "load", "store", "dispatch",
          "cors", "ratelimit", "reserved", "proxy", "return", "done"}]
    BY <2>1 DEF Goes, FiltersTypeOK
  <2>4. QED
    BY <2>1, <2>2, <2>3 DEF Answers, FiltersTypeOK, servedVars, sortVars, limitVars
<1>10. ASSUME NEW r \in Requests, Done(r) PROVE FiltersTypeOK'
  BY <1>10 DEF Done, Goes, FiltersTypeOK, servedVars, sortVars, limitVars
<1>11. QED
  BY <1>1, <1>2, <1>3, <1>4, <1>5, <1>6, <1>7, <1>8, <1>9, <1>10,
     StoreType, DispatchType, LimitType DEF FiltersNext, Serve

\* A step of one request leaves the others where they are.
LEMMA OthersRest ==
  ASSUME FiltersTypeOK, NEW r \in Requests, Arrive(r) \/ Serve(r),
         NEW q \in Requests \ {r}
  PROVE  /\ stage'[q] = stage[q] /\ copy'[q] = copy[q] /\ pending'[q] = pending[q]
         /\ ran'[q] = ran[q] /\ client'[q] = client[q] /\ out'[q] = out[q]
         /\ held'[q] = held[q]
<1> USE DEF Goes, Writes, servedVars, sortVars, limitVars
<1>1. CASE Arrive(r)
  BY <1>1 DEF Arrive, FiltersTypeOK
<1>2. CASE Compare(r) \/ NoIPAddr(r) \/ Done(r)
  BY <1>2 DEF Compare, NoIPAddr, Done, FiltersTypeOK
<1>3. CASE Load(r)
  BY <1>3 DEF Load, FiltersTypeOK
<1>4. CASE Store(r)
  BY <1>4 DEF Store, FiltersTypeOK
<1>5. CASE Dispatch(r)
  BY <1>5 DEF Dispatch, FiltersTypeOK
<1>6. CASE RunCors(r) \/ Proxied(r)
  BY <1>6 DEF RunCors, Proxied, FiltersTypeOK
<1>7. CASE Reserve(r)
  BY <1>7 DEF Reserve, FiltersTypeOK
<1>8. CASE Judge(r)
  BY <1>8 DEF Judge, FiltersTypeOK
<1>9. CASE Cancel(r)
  BY <1>9 DEF Cancel, FiltersTypeOK
<1>10. QED
  BY <1>1, <1>2, <1>3, <1>4, <1>5, <1>6, <1>7, <1>8, <1>9 DEF Serve

\* The filters are sorted, never added to.
LEMMA LengthKept ==
  ASSUME FiltersTypeOK, FiltersTypeOK', [FiltersNext]_filterVars
  PROVE  Len(chain') = Len(chain) /\ UNCHANGED instance
<1>1. UNCHANGED instance
  <2>1. CASE UNCHANGED filterVars
    BY <2>1 DEF filterVars, servedVars
  <2>2. CASE Tick
    BY <2>2 DEF Tick
  <2>3. ASSUME NEW r \in Requests, Arrive(r) \/ Serve(r) PROVE UNCHANGED instance
    BY <2>3 DEF Arrive, Serve, Compare, Load, Store, Dispatch, RunCors,
       NoIPAddr, Reserve, Judge, Cancel, Proxied, Done, servedVars
  <2>4. QED
    BY <2>1, <2>2, <2>3 DEF FiltersNext
<1>2. QED
  BY <1>1 DEF FiltersTypeOK

\* Whoever sorts, or holds a reservation, has what it needs for that.
LEMMA EquippedStep ==
  ASSUME FiltersTypeOK, FiltersTypeOK', Equipped, [FiltersNext]_filterVars
  PROVE  Equipped'
<1>a. Len(chain') = Len(chain)
  BY LengthKept
<1> USE DEF Goes
<1>1. CASE UNCHANGED filterVars \/ Tick
  BY <1>1 DEF Equipped, Tick, filterVars, servedVars, sortVars, limitVars
<1>2. ASSUME NEW r \in Requests, Arrive(r) \/ Serve(r) PROVE Equipped'
  <2> DEFINE Fit(q) == /\ stage'[q] \in {"load", "store"} => Len(chain') = 2
                       /\ stage'[q] = "store" => Len(copy'[q]) = 2
                       /\ held'[q] # <<>> => client'[q] \in Clients
                       /\ stage'[q] = "idle" => held'[q] = <<>>
                       /\ stage'[q] = "reserved" => held'[q] # <<>>
  <2>1. \A q \in Requests \ {r} : Fit(q)
    BY <1>a, <1>2, OthersRest DEF Equipped
  <2>2. Fit(r)
    <3>1. CASE Arrive(r)
      BY <1>a, <3>1 DEF Arrive, Equipped, FiltersTypeOK, limitVars
    <3>2. CASE Compare(r) \/ NoIPAddr(r) \/ Done(r)
      BY <1>a, <3>2 DEF Compare, NoIPAddr, Done, Equipped, FiltersTypeOK,
         servedVars, sortVars, limitVars
    <3>3. CASE Load(r)
      BY <1>a, <3>3 DEF Load, Equipped, FiltersTypeOK, limitVars
    <3>4. CASE Store(r)
      BY <1>a, <3>4 DEF Store, Equipped, FiltersTypeOK, limitVars
    <3>5. CASE Dispatch(r)
      <4>1. UNCHANGED <<copy, held, client>>
        BY <3>5 DEF Dispatch, sortVars, limitVars
      <4>2. stage[r] = "dispatch" /\ stage'[r] \in Names \cup {"proxy"}
        BY <3>5, DispatchesTo
      <4>3. QED
        BY <4>1, <4>2 DEF Equipped, Names
    <3>6. CASE RunCors(r) \/ Proxied(r)
      BY <1>a, <3>6 DEF RunCors, Proxied, Equipped, FiltersTypeOK,
         servedVars, sortVars, limitVars
    <3>7. CASE Reserve(r)
      <4>1. /\ held'[r] = <<Reserved(buckets[client[r]], clock).act>> \o held[r]
            /\ stage'[r] = "reserved" /\ client[r] \in Clients /\ UNCHANGED client
            /\ held[r] \in Seq(Nat) /\ held'[r] \in Seq(Nat)
        BY <3>7 DEF Reserve, FiltersTypeOK
      <4>2. held'[r] # <<>>
        BY <4>1
      <4>3. QED
        BY <4>1, <4>2
    <3>8. CASE Judge(r)
      BY <1>a, <3>8 DEF Judge, Equipped, FiltersTypeOK
    <3>9. CASE Cancel(r)
      BY <1>a, <3>9 DEF Cancel, Equipped, FiltersTypeOK
    <3>10. QED
      BY <1>2, <3>1, <3>2, <3>3, <3>4, <3>5, <3>6, <3>7, <3>8, <3>9 DEF Serve
  <2>3. QED
    BY <2>1, <2>2 DEF Equipped
<1>3. QED
  BY <1>1, <1>2 DEF FiltersNext

-----------------------------------------------------------------------------
(* Answers.                                                                *)

\* Nobody calls a filter before it has sorted, or the proxy before every
\* filter has been called.
InTurn ==
  \A r \in Requests :
    /\ stage[r] = "idle" \/ Sorting(r) => ran[r] = <<>>
    /\ stage[r] = "proxy" => Len(ran[r]) = Len(chain)

\* A request is answered once, when its goroutine stops passing it on.
Answered ==
  \A r \in Requests :
    /\ stage[r] \notin {"return", "done"} => out[r] = {}
    /\ out[r] = {} \/ \E a \in {"origin", "preflight", "limit", "upstream"} : out[r] = {a}
    /\ stage[r] \in {"return", "done"} /\ out[r] = {} =>
         client[r] = NoAddress \/ Len(ran[r]) = Len(chain)

\* A request has an answer where its stage says so, and never two.
LEMMA AnsweredStep ==
  ASSUME FiltersTypeOK, FiltersTypeOK', Answered, InTurn,
         [FiltersNext]_filterVars
  PROVE  Answered'
<1>a. Len(chain') = Len(chain)
  BY LengthKept
<1>1. CASE UNCHANGED filterVars \/ Tick
  BY <1>a, <1>1 DEF Answered, Tick, filterVars, servedVars
<1>2. ASSUME NEW r \in Requests, Arrive(r) \/ Serve(r) PROVE Answered'
  <2> DEFINE Right(q) ==
        /\ stage'[q] \notin {"return", "done"} => out'[q] = {}
        /\ \/ out'[q] = {}
           \/ \E a \in {"origin", "preflight", "limit", "upstream"} : out'[q] = {a}
        /\ stage'[q] \in {"return", "done"} /\ out'[q] = {} =>
             client'[q] = NoAddress \/ Len(ran'[q]) = Len(chain')
  <2>1. \A q \in Requests \ {r} : Right(q)
    BY <1>a, <1>2, OthersRest DEF Answered
  <2>a. Dispatch(r) => /\ stage[r] = "dispatch" /\ UNCHANGED out
                       /\ stage'[r] \in {"cors", "ratelimit", "proxy"}
    BY DispatchesTo DEF Names
  <2>b. Load(r) \/ Store(r) => /\ Goes(r, "load", "store")
                                  \/ Goes(r, "store", "dispatch")
                                  \/ Goes(r, "store", "store")
                               /\ UNCHANGED <<out, client>>
    BY DEF Load, Store
  <2>2. Right(r)
    <3> USE DEF Answered, FiltersTypeOK, Goes, Writes, servedVars
    <3>1. CASE Arrive(r)
      BY <3>1 DEF Arrive
    <3>2. CASE Compare(r) \/ NoIPAddr(r) \/ Done(r)
      BY <1>a, <3>2 DEF Compare, NoIPAddr, Done
    <3>3. CASE Load(r) \/ Store(r)
      BY <2>b, <3>3
    <3>4. CASE Dispatch(r)
      BY <2>a, <3>4
    <3>5. CASE RunCors(r)
      <4>1. /\ stage[r] = "cors" /\ stage'[r] \in {"return", "dispatch"}
            /\ \/ out'[r] = out[r] \cup {"origin"} /\ stage'[r] = "return"
               \/ out'[r] = out[r] \cup {"preflight"} /\ stage'[r] = "return"
               \/ out'[r] = out[r] /\ stage'[r] = "dispatch"
        BY <3>5 DEF RunCors
      <4>2. QED
        BY <4>1
    <3>6. CASE Proxied(r)
      <4>1. /\ stage[r] = "proxy" /\ stage'[r] = "return" /\ UNCHANGED ran
            /\ out'[r] = out[r] \cup {"upstream"} \/ out'[r] = out[r]
        BY <3>6 DEF Proxied
      <4>2. Len(ran'[r]) = Len(chain')
        BY <1>a, <4>1 DEF InTurn
      <4>3. QED
        BY <4>1, <4>2
    <3>7. CASE Reserve(r)
      BY <3>7 DEF Reserve
    <3>8. CASE Judge(r)
      <4>1. /\ stage[r] = "reserved"
            /\ \/ out'[r] = out[r] \cup {"limit"} /\ stage'[r] = "return"
               \/ out'[r] = out[r] /\ stage'[r] = "dispatch"
        BY <3>8 DEF Judge
      <4>2. QED
        BY <4>1
    <3>9. CASE Cancel(r)
      BY <1>a, <3>9 DEF Cancel
    <3>10. QED
      BY <1>2, <3>1, <3>2, <3>3, <3>4, <3>5, <3>6, <3>7, <3>8, <3>9 DEF Serve
  <2>3. QED
    BY <2>1, <2>2 DEF Answered
<1>3. QED
  BY <1>1, <1>2 DEF FiltersNext

-----------------------------------------------------------------------------
(* The order of the filters.                                               *)

\* What has run is the front of the chain.
RanFront ==
  \A r \in Requests : \A i \in DOMAIN ran[r] : ran[r][i] = chain[i].handle

\* Each element is a filter, not half of one and half of another, and each
\* filter is there once.
Whole ==
  \A i \in DOMAIN chain :
    /\ chain[i] = Handler(chain[i].handle)
    /\ \A j \in DOMAIN chain : chain[j].handle = chain[i].handle => i = j

\* Until somebody has swapped two filters that are in the wrong order.
Unsorted == Len(chain) = 2 /\ chain[2].priority > chain[1].priority

\* How far the only request that sorts has come with the swap.
Swapping(r) ==
  \/ stage[r] = "compare" /\ Whole
  \/ stage[r] = "load" /\ Whole /\ Unsorted
  \/ /\ stage[r] = "store" /\ pending[r] # {}
     /\ Len(chain) = 2 /\ Len(copy[r]) = 2
     /\ copy[r][2].priority > copy[r][1].priority
     /\ \A i \in 1..2 :
          /\ copy[r][i] = Handler(copy[r][i].handle)
          /\ \A field \in Fields :
               chain[i][field] = IF <<i, field>> \in pending[r]
                                 THEN copy[r][i][field]
                                 ELSE copy[r][3 - i][field]

\* As long as no two requests sort at once, the filters are in order, or one
\* request is putting them in order and no other has begun.
InOrder ==
  ~raced =>
    \/ Settled(chain) /\ \A r \in Requests : stage[r] \notin {"load", "store"}
    \/ Whole /\ \A r \in Requests : stage[r] = "idle"
    \/ \E r \in Requests :
         Swapping(r) /\ \A q \in Requests \ {r} : stage[q] = "idle"

FilterInv ==
  FiltersTypeOK /\ Equipped /\ Answered /\ InTurn /\ InOrder /\ (~raced => RanFront)

\* The slice has at most two filters, known ones.
LEMMA ChainFacts ==
  ASSUME FiltersTypeOK
  PROVE  /\ Len(chain) \in 0..2 /\ DOMAIN chain = 1..Len(chain)
         /\ \A i \in 1..Len(chain) :
              /\ chain[i] \in Filter /\ chain[i].handle \in Names
              /\ chain[i].priority \in 1..2
<1>1. chain \in Seq(Filter) /\ Len(chain) \in 0..2
  BY InstanceFacts DEF FiltersTypeOK
<1>2. DOMAIN chain = 1..Len(chain)
  BY <1>1, LenProperties
<1>3. \A i \in 1..Len(chain) : chain[i] \in Filter
  BY <1>1, ElementOfSeq
<1>4. QED
  BY <1>1, <1>2, <1>3 DEF Filter

\* Less is what there is to decide.
LEMMA WholeIsSettled ==
  ASSUME FiltersTypeOK, Whole
  PROVE  Settled(chain) <=> ~Unsorted
<1>1. CASE Unsorted
  <2>1. 2 \in DOMAIN chain /\ 1 \in 1..(2 - 1)
    BY <1>1, ChainFacts DEF Unsorted
  <2>2. chain[1].priority \in 1..2 /\ chain[2].priority \in 1..2
    BY <1>1, ChainFacts DEF Unsorted
  <2>3. QED
    BY <1>1, <2>1, <2>2 DEF Settled, Unsorted
<1>2. CASE ~Unsorted
  <2>1. \A i \in DOMAIN chain : chain[i] = Handler(chain[i].handle)
    BY DEF Whole
  <2>2. ASSUME NEW i \in DOMAIN chain, NEW j \in 1..(i - 1)
        PROVE  chain[j].priority > chain[i].priority
    <3>1. Len(chain) = 2 /\ i = 2 /\ j = 1
      BY <2>2, ChainFacts
    <3>2. /\ chain[1].priority \in 1..2 /\ chain[2].priority \in 1..2
          /\ chain[1].handle \in Names /\ chain[2].handle \in Names
          /\ 1 \in DOMAIN chain /\ 2 \in DOMAIN chain
      BY <3>1, ChainFacts
    <3>3. ~(chain[2].priority > chain[1].priority)
      BY <1>2, <3>1 DEF Unsorted
    <3>4. chain[1].handle # chain[2].handle
      BY <3>2 DEF Whole
    <3>5. /\ chain[1].priority = Priority(chain[1].handle)
          /\ chain[2].priority = Priority(chain[2].handle)
      BY <2>1, <3>2, HandlerFacts
    <3>6. chain[1].priority # chain[2].priority
      BY <3>2, <3>4, <3>5, HandlerFacts
    <3>7. QED
      BY <3>1, <3>2, <3>3, <3>6
  <2>3. QED
    BY <1>2, <2>1, <2>2 DEF Settled
<1>3. QED
  BY <1>1, <1>2

\* A swap that has begun is not done before its last store.
LEMMA SwapUnfinished ==
  ASSUME FiltersTypeOK, NEW r \in Requests, stage[r] # "compare", Swapping(r)
  PROVE  ~Settled(chain)
<1>1. CASE stage[r] = "load"
  BY <1>1, WholeIsSettled DEF Swapping
<1>2. CASE stage[r] = "store"
  <2> SUFFICES ASSUME Settled(chain) PROVE FALSE
    OBVIOUS
  <2>1. /\ pending[r] # {} /\ pending[r] \subseteq (1..2) \X Fields
        /\ Len(chain) = 2 /\ Len(copy[r]) = 2
        /\ copy[r][2].priority > copy[r][1].priority
        /\ \A i \in 1..2 :
             /\ copy[r][i] = Handler(copy[r][i].handle)
             /\ \A field \in Fields :
                  chain[i][field] = IF <<i, field>> \in pending[r]
                                    THEN copy[r][i][field]
                                    ELSE copy[r][3 - i][field]
    BY <1>2 DEF Swapping, FiltersTypeOK
  <2>2. copy[r] \in Seq(Filter) /\ 1 \in 1..Len(copy[r]) /\ 2 \in 1..Len(copy[r])
    BY <2>1 DEF FiltersTypeOK
  <2>3. copy[r][1] \in Filter /\ copy[r][2] \in Filter
    BY <2>2, ElementOfSeq
  <2>4. /\ copy[r][1].handle \in Names /\ copy[r][2].handle \in Names
        /\ copy[r][1].priority \in 1..2 /\ copy[r][2].priority \in 1..2
    BY <2>3 DEF Filter
  <2>5. copy[r][1].priority = 1 /\ copy[r][2].priority = 2
    BY <2>1, <2>4
  <2>6. copy[r][1].handle = "cors" /\ copy[r][2].handle = "ratelimit"
    BY <2>1, <2>4, <2>5, HandlerFacts DEF Priority, Names
  <2>7. /\ chain[1].priority \in 1..2 /\ chain[2].priority \in 1..2
        /\ chain[1].handle \in Names /\ chain[2].handle \in Names
        /\ 1 \in DOMAIN chain /\ 2 \in DOMAIN chain
    BY <2>1, ChainFacts
  <2>8. /\ chain[1].priority > chain[2].priority
        /\ chain[1] = Handler(chain[1].handle) /\ chain[2] = Handler(chain[2].handle)
    BY <2>7 DEF Settled
  <2>9. chain[1].priority = 2 /\ chain[2].priority = 1
    BY <2>7, <2>8
  <2>10. chain[1].handle = "ratelimit" /\ chain[2].handle = "cors"
    BY <2>7, <2>8, <2>9, HandlerFacts DEF Priority, Names
  <2>11. /\ <<1, "priority">> \notin pending[r] /\ <<2, "priority">> \notin pending[r]
         /\ <<1, "handle">> \notin pending[r] /\ <<2, "handle">> \notin pending[r]
    BY <2>1, <2>5, <2>6, <2>9, <2>10 DEF Fields
  <2>12. \A i \in 1..2, field \in Fields : <<i, field>> \notin pending[r]
    BY <2>11 DEF Fields
  <2>13. QED
    BY <2>1, <2>12
<1>3. QED
  BY <1>1, <1>2 DEF Swapping

\* The last store of a swap puts the filters in order.
LEMMA SwapStores ==
  ASSUME FiltersTypeOK, Equipped, NEW r \in Requests, Swapping(r), Store(r)
  PROVE  \/ Settled(chain') /\ stage'[r] = "dispatch"
         \/ Swapping(r)'
<1>1. PICK i \in 1..2, field \in Fields :
        /\ <<i, field>> \in pending[r]
        /\ Len(chain) = 2 /\ Len(copy[r]) = 2
        /\ chain[i] \in Filter /\ copy[r][3 - i] \in Filter
        /\ chain' = [chain EXCEPT ![i] =
                       [chain[i] EXCEPT ![field] = copy[r][3 - i][field]]]
        /\ pending' = [pending EXCEPT ![r] = @ \ {<<i, field>>}]
        /\ \/ /\ pending[r] = {<<i, field>>}
              /\ Goes(r, "store", "dispatch")
              /\ copy' = [copy EXCEPT ![r] = <<>>]
           \/ /\ pending[r] # {<<i, field>>}
              /\ Goes(r, "store", "store") /\ UNCHANGED copy
  BY StoreFacts
<1>2. stage[r] = "store" /\ pending'[r] = pending[r] \ {<<i, field>>}
  BY <1>1 DEF Goes, FiltersTypeOK
<1>3. /\ copy[r][2].priority > copy[r][1].priority
      /\ \A j \in 1..2 :
           /\ copy[r][j] = Handler(copy[r][j].handle)
           /\ \A g \in Fields :
                chain[j][g] = IF <<j, g>> \in pending[r]
                              THEN copy[r][j][g] ELSE copy[r][3 - j][g]
  BY <1>2 DEF Swapping
<1>4. DOMAIN chain = 1..2 /\ chain[1] \in Filter /\ chain[2] \in Filter
  BY <1>1, ChainFacts
<1>5. /\ Len(chain') = 2 /\ DOMAIN chain' = 1..2
      /\ \A j \in 1..2, g \in Fields :
           chain'[j][g] = IF j = i /\ g = field THEN copy[r][3 - i][field]
                          ELSE chain[j][g]
      /\ chain'[1] \in Filter /\ chain'[2] \in Filter
  <2>1. PICK e \in Filter :
          /\ e = [chain[i] EXCEPT ![field] = copy[r][3 - i][field]]
          /\ \A g \in Fields : e[g] = IF g = field THEN copy[r][3 - i][field]
                                      ELSE chain[i][g]
    BY <1>1 DEF Filter, Fields
  <2>2. chain' = [chain EXCEPT ![i] = e] /\ chain \in Seq(Filter)
    BY <1>1, <2>1 DEF FiltersTypeOK
  <2>3. i \in 1..Len(chain)
    BY <1>1
  <2>4. chain' \in Seq(Filter) /\ Len(chain') = Len(chain)
    BY <2>2, <2>3, ExceptSeq
  <2>5. \A j \in 1..2 : chain'[j] = IF j = i THEN e ELSE chain[j]
    BY <1>4, <2>2
  <2>6. Len(chain') = 2 /\ DOMAIN chain' = 1..2
    BY <1>1, <2>4, LenProperties
  <2>7. \A j \in 1..2 : chain'[j] \in Filter
    BY <1>4, <2>5
  <2>8. \A j \in 1..2, g \in Fields :
          chain'[j][g] = IF j = i /\ g = field THEN copy[r][3 - i][field]
                         ELSE chain[j][g]
    BY <2>1, <2>5
  <2>9. QED
    BY <2>6, <2>7, <2>8
<1>6. \A j \in 1..2, g \in Fields :
        chain'[j][g] = IF <<j, g>> \in pending'[r]
                       THEN copy[r][j][g] ELSE copy[r][3 - j][g]
  BY <1>1, <1>2, <1>3, <1>5
<1>7. CASE pending[r] # {<<i, field>>}
  <2>1. stage'[r] = "store" /\ copy' = copy
    BY <1>1, <1>7 DEF Goes, FiltersTypeOK
  <2>2. pending'[r] # {}
    BY <1>1, <1>2, <1>7
  <2>3. QED
    BY <1>1, <1>3, <1>5, <1>6, <2>1, <2>2 DEF Swapping
<1>8. CASE pending[r] = {<<i, field>>}
  <2>1. stage'[r] = "dispatch" /\ pending'[r] = {}
    BY <1>1, <1>2, <1>8 DEF Goes, FiltersTypeOK
  <2>2. copy[r] \in Seq(Filter) /\ 1 \in 1..Len(copy[r]) /\ 2 \in 1..Len(copy[r])
    BY <1>1 DEF FiltersTypeOK
  <2>3. copy[r][1] \in Filter /\ copy[r][2] \in Filter
    BY <2>2, ElementOfSeq
  <2>4. /\ chain'[1].priority = copy[r][2].priority
        /\ chain'[1].handle = copy[r][2].handle
        /\ chain'[2].priority = copy[r][1].priority
        /\ chain'[2].handle = copy[r][1].handle
    BY <1>6, <2>1 DEF Fields
  <2>5. chain'[1] = copy[r][2] /\ chain'[2] = copy[r][1]
    BY <1>5, <2>3, <2>4 DEF Filter
  <2>6. /\ chain'[1] = Handler(chain'[1].handle) /\ chain'[2] = Handler(chain'[2].handle)
        /\ chain'[1].priority > chain'[2].priority
    BY <1>3, <2>5
  <2>7. Settled(chain')
    BY <1>5, <2>6 DEF Settled
  <2>8. QED
    BY <2>1, <2>7
<1>9. QED
  BY <1>7, <1>8

\* Only a swap changes the chain.
LEMMA ChainKept ==
  ASSUME NEW r \in Requests, Arrive(r) \/ Serve(r), ~Store(r)
  PROVE  UNCHANGED chain
  BY DEF Arrive, Serve, Compare, Load, Dispatch, RunCors, NoIPAddr, Reserve,
     Judge, Cancel, Proxied, Done, servedVars, sortVars

\* From which stage to which each step takes its request.
LEMMA StageFacts ==
  ASSUME FiltersTypeOK, NEW r \in Requests, Arrive(r) \/ Serve(r)
  PROVE  /\ Arrive(r) => stage[r] = "idle" /\ stage'[r] = "compare"
         /\ Serve(r) => stage[r] \notin {"idle", "done"} /\ stage'[r] # "idle"
         /\ Compare(r) => /\ stage[r] = "compare" /\ UNCHANGED ran
                          /\ stage'[r] = IF Unsorted THEN "load" ELSE "dispatch"
         /\ Load(r) => /\ stage[r] = "load" /\ stage'[r] = "store"
                       /\ UNCHANGED ran
         /\ Store(r) => /\ stage[r] = "store" /\ stage'[r] \in {"store", "dispatch"}
                        /\ UNCHANGED ran
         /\ Dispatch(r) => /\ stage[r] = "dispatch"
                           /\ stage'[r] \in {"cors", "ratelimit", "proxy"}
         /\ RunCors(r) \/ NoIPAddr(r) \/ Reserve(r) \/ Judge(r) \/ Cancel(r)
              \/ Proxied(r) \/ Done(r)
              => /\ stage[r] \notin {"compare", "load", "store"}
                 /\ stage'[r] \in {"reserved", "dispatch", "return", "done"}
                 /\ UNCHANGED ran
<1>1. Arrive(r) => Goes(r, "idle", "compare")
  BY DEF Arrive
<1>2. Compare(r) => UNCHANGED ran /\ Goes(r, "compare", IF Unsorted THEN "load" ELSE "dispatch")
  BY DEF Compare, Unsorted, servedVars
<1>3. Load(r) => Goes(r, "load", "store") /\ UNCHANGED ran
  BY DEF Load
<1>4. Store(r) => /\ Goes(r, "store", "dispatch") \/ Goes(r, "store", "store")
                  /\ UNCHANGED ran
  BY DEF Store
<1>5. Dispatch(r) => /\ stage[r] = "dispatch"
                     /\ stage'[r] \in {"cors", "ratelimit", "proxy"}
  BY DispatchesTo DEF Names
<1>6. RunCors(r) \/ NoIPAddr(r) \/ Reserve(r) \/ Judge(r) \/ Cancel(r)
        \/ Proxied(r) \/ Done(r)
        => /\ UNCHANGED ran
           /\ \E from \in {"cors", "ratelimit", "reserved", "return", "proxy"},
                 to \in {"reserved", "dispatch", "return", "done"} : Goes(r, from, to)
  BY DEF RunCors, NoIPAddr, Reserve, Judge, Cancel, Proxied, Done, servedVars
<1>7. QED
  BY <1>1, <1>2, <1>3, <1>4, <1>5, <1>6, GoesFacts DEF Serve

\* No filter runs before the sort, and every one has before the proxy.
LEMMA InTurnStep ==
  ASSUME FiltersTypeOK, FiltersTypeOK', InTurn, [FiltersNext]_filterVars
  PROVE  InTurn'
<1>a. Len(chain') = Len(chain)
  BY LengthKept
<1>1. CASE UNCHANGED filterVars \/ Tick
  BY <1>a, <1>1 DEF InTurn, Sorting, Tick, filterVars, servedVars
<1>2. ASSUME NEW r \in Requests, Arrive(r) \/ Serve(r) PROVE InTurn'
  <2> DEFINE Turn(q) ==
        /\ stage'[q] \in {"idle", "compare", "load", "store"} => ran'[q] = <<>>
        /\ stage'[q] = "proxy" => Len(ran'[q]) = Len(chain')
  <2>1. \A q \in Requests \ {r} : Turn(q)
    BY <1>a, <1>2, OthersRest DEF InTurn, Sorting
  <2>2. Turn(r)
    <3>1. CASE Arrive(r)
      <4>1. stage[r] = "idle" /\ stage'[r] = "compare" /\ UNCHANGED ran
        BY <3>1, StageFacts DEF Arrive
      <4>2. QED
        BY <4>1 DEF InTurn
    <3>2. CASE Compare(r) \/ Load(r) \/ Store(r)
      <4>1. /\ stage[r] \in {"compare", "load", "store"} /\ UNCHANGED ran
            /\ stage'[r] \in {"load", "store", "dispatch"}
        BY <3>2, StageFacts DEF Serve
      <4>2. QED
        BY <4>1 DEF InTurn, Sorting
    <3>3. CASE Dispatch(r)
      <4>1. stage'[r] \in {"cors", "ratelimit"}
            \/ /\ stage'[r] = "proxy" /\ UNCHANGED ran
               /\ Len(ran[r]) = Len(chain)
        BY <3>3, DispatchesTo DEF Names
      <4>2. QED
        BY <1>a, <4>1
    <3>4. CASE RunCors(r) \/ NoIPAddr(r) \/ Reserve(r) \/ Judge(r) \/ Cancel(r)
                 \/ Proxied(r) \/ Done(r)
      BY <1>2, <3>4, StageFacts
    <3>5. QED
      BY <1>2, <3>1, <3>2, <3>3, <3>4 DEF Serve
  <2>3. QED
    BY <2>1, <2>2 DEF InTurn, Sorting
<1>3. QED
  BY <1>1, <1>2 DEF FiltersNext

\* That requests have met is not forgotten.
LEMMA RacedGrows ==
  ASSUME [FiltersNext]_filterVars, ~raced'
  PROVE  ~raced
<1>1. ASSUME NEW r \in Requests, Arrive(r) PROVE ~raced
  BY <1>1 DEF Arrive
<1>2. ASSUME NEW r \in Requests, Serve(r) PROVE ~raced
  BY <1>2 DEF Serve, Compare, Load, Store, Dispatch, RunCors, NoIPAddr,
     Reserve, Judge, Cancel, Proxied, Done, servedVars, sortVars
<1>3. QED
  BY <1>1, <1>2 DEF FiltersNext, Tick, filterVars, servedVars, sortVars

\* The three ways of InOrder to be as it should.
Sorted == Settled(chain) /\ \A r \in Requests : stage[r] \notin {"load", "store"}
Untouched == Whole /\ \A r \in Requests : stage[r] = "idle"
OneSwaps(r) == Swapping(r) /\ \A q \in Requests \ {r} : stage[q] = "idle"

\* A sorted slice stays sorted: nobody swaps.
LEMMA SortedStep ==
  ASSUME FiltersTypeOK, Sorted, NEW r \in Requests, Arrive(r) \/ Serve(r)
  PROVE  Sorted' /\ ~Store(r)
<1>1. ~Store(r) /\ ~Load(r)
  BY StageFacts DEF Sorted, Serve
<1>2. Settled(chain) /\ UNCHANGED chain
  BY <1>1, ChainKept DEF Sorted
<1>3. Settled(chain)'
  BY <1>2 DEF Settled
<1>4. ~Unsorted
  <2> SUFFICES ASSUME Unsorted PROVE FALSE
    OBVIOUS
  <2>1. 2 \in DOMAIN chain /\ 1 \in 1..(2 - 1)
    BY ChainFacts DEF Unsorted
  <2>2. chain[1].priority \in 1..2 /\ chain[2].priority \in 1..2
    BY ChainFacts DEF Unsorted
  <2>3. QED
    BY <1>2, <2>1, <2>2 DEF Settled, Unsorted
<1>5. stage'[r] \notin {"load", "store"}
  BY <1>1, <1>4, StageFacts DEF Serve
<1>6. \A q \in Requests \ {r} : stage'[q] = stage[q]
  BY OthersRest
<1>7. QED
  BY <1>1, <1>3, <1>5, <1>6 DEF Sorted

\* The first to find the slice out of order is the only one to swap.
LEMMA UntouchedStep ==
  ASSUME FiltersTypeOK, Untouched, NEW r \in Requests, Arrive(r) \/ Serve(r)
  PROVE  OneSwaps(r)' /\ ~Store(r)
<1>1. Arrive(r) /\ ~Store(r)
  BY StageFacts DEF Untouched, Serve
<1>2. UNCHANGED chain
  BY <1>1, ChainKept
<1>3. stage'[r] = "compare"
  BY <1>1, StageFacts
<1>4. \A q \in Requests \ {r} : stage'[q] = "idle"
  BY OthersRest DEF Untouched
<1>5. Whole'
  BY <1>2 DEF Untouched, Whole
<1>6. QED
  BY <1>1, <1>3, <1>4, <1>5 DEF OneSwaps, Swapping

\* Until the next meets it, its swap goes on or is complete.
LEMMA OneSwapsStep ==
  ASSUME FiltersTypeOK, Equipped, NEW s \in Requests, OneSwaps(s), ~raced',
         NEW r \in Requests, Arrive(r) \/ Serve(r)
  PROVE  Sorted' \/ OneSwaps(s)'
<1>a. stage[s] \in {"compare", "load", "store"}
  BY DEF OneSwaps, Swapping
<1>1. CASE r # s
  <2>1. Arrive(r)
    BY <1>1, StageFacts DEF OneSwaps
  <2>2. Settled(chain)
    BY <1>a, <2>1 DEF Arrive, Sorting
  <2>3. stage[s] = "compare"
    BY <2>2, SwapUnfinished DEF OneSwaps
  <2>4. Sorted
    BY <2>2, <2>3 DEF Sorted, OneSwaps
  <2>5. QED
    BY <2>4, SortedStep
<1>2. CASE r = s
  <2>1. Serve(s) /\ \A q \in Requests \ {s} : stage'[q] = "idle"
    BY <1>2, <1>a, StageFacts, OthersRest DEF OneSwaps
  <2>2. CASE Store(s)
    <3>1. \/ Settled(chain') /\ stage'[s] = "dispatch"
          \/ Swapping(s)'
      BY <2>2, SwapStores DEF OneSwaps
    <3>2. Settled(chain') => Settled(chain)'
      BY DEF Settled
    <3>3. QED
      BY <2>1, <3>1, <3>2 DEF Sorted, OneSwaps
  <2>3. CASE Compare(s)
    <3>1. UNCHANGED chain /\ Whole
      BY <2>1, <2>3, ChainKept, StageFacts DEF OneSwaps, Swapping
    <3>2. stage'[s] = IF Unsorted THEN "load" ELSE "dispatch"
      BY <2>1, <2>3, StageFacts
    <3>3. CASE Unsorted
      <4>1. Whole' /\ Unsorted'
        BY <3>1, <3>3 DEF Whole, Unsorted
      <4>2. QED
        BY <2>1, <3>2, <3>3, <4>1 DEF OneSwaps, Swapping
    <3>4. CASE ~Unsorted
      <4>1. Settled(chain)
        BY <3>1, <3>4, WholeIsSettled
      <4>2. Settled(chain)'
        BY <3>1, <4>1 DEF Settled
      <4>3. QED
        BY <2>1, <3>2, <3>4, <4>2 DEF Sorted
    <3>5. QED
      BY <3>3, <3>4
  <2>4. CASE Load(s)
    <3>1. /\ UNCHANGED chain /\ Whole /\ Unsorted /\ stage'[s] = "store"
          /\ copy'[s] = chain /\ pending'[s] = (1..2) \X Fields
      BY <2>1, <2>4, ChainKept, StageFacts
         DEF OneSwaps, Swapping, Load, FiltersTypeOK
    <3>2. Len(chain) = 2 /\ DOMAIN chain = 1..2
      BY <3>1, ChainFacts DEF Unsorted
    <3>3. <<1, "handle">> \in pending'[s] /\ pending'[s] # {}
      BY <3>1 DEF Fields
    <3>4. /\ Len(chain') = 2 /\ Len(copy'[s]) = 2
          /\ copy'[s][2].priority > copy'[s][1].priority
          /\ \A i \in 1..2 : copy'[s][i] = Handler(copy'[s][i].handle)
          /\ \A i \in 1..2, field \in Fields :
               <<i, field>> \in pending'[s] /\ chain'[i][field] = copy'[s][i][field]
      BY <3>1, <3>2 DEF Whole, Unsorted
    <3>5. Swapping(s)'
      BY <3>1, <3>3, <3>4 DEF Swapping
    <3>6. QED
      BY <2>1, <3>5 DEF OneSwaps
  <2>5. QED
    BY <1>a, <2>1, <2>2, <2>3, <2>4, StageFacts DEF Serve
<1>3. QED
  BY <1>1, <1>2

\* So the slice is in order, untouched, or being swapped by one.
LEMMA InOrderStep ==
  ASSUME FiltersTypeOK, Equipped, InOrder, [FiltersNext]_filterVars
  PROVE  InOrder'
<1> SUFFICES ASSUME ~raced' PROVE Sorted' \/ Untouched' \/ \E r \in Requests : OneSwaps(r)'
  BY DEF InOrder, Sorted, Untouched, OneSwaps
<1>1. Sorted \/ Untouched \/ \E r \in Requests : OneSwaps(r)
  BY RacedGrows DEF InOrder, Sorted, Untouched, OneSwaps
<1>2. CASE UNCHANGED filterVars \/ Tick
  <2>1. UNCHANGED <<chain, stage, pending, copy>>
    BY <1>2 DEF Tick, filterVars, servedVars, sortVars
  <2>2. QED
    BY <1>1, <2>1 DEF Sorted, Untouched, OneSwaps, Swapping, Settled, Whole, Unsorted
<1>3. ASSUME NEW r \in Requests, Arrive(r) \/ Serve(r)
      PROVE  Sorted' \/ Untouched' \/ \E q \in Requests : OneSwaps(q)'
  BY <1>1, <1>3, SortedStep, UntouchedStep, OneSwapsStep
<1>4. QED
  BY <1>2, <1>3 DEF FiltersNext

\* Once a filter has run, the chain stays as it is.
LEMMA RanFrontStep ==
  ASSUME FiltersTypeOK, Equipped, InTurn, InOrder, ~raced, RanFront,
         [FiltersNext]_filterVars
  PROVE  RanFront'
<1>1. CASE UNCHANGED filterVars \/ Tick
  BY <1>1 DEF RanFront, Tick, filterVars, servedVars, sortVars
<1>2. ASSUME NEW r \in Requests, Arrive(r) \/ Serve(r) PROVE RanFront'
  <2>1. CASE Store(r)
    <3>1. ~Sorted /\ ~Untouched
      BY <1>2, <2>1, SortedStep, UntouchedStep
    <3>2. PICK s \in Requests : OneSwaps(s)
      BY <3>1 DEF InOrder, Sorted, Untouched, OneSwaps
    <3>3. \A q \in Requests : ran[q] = <<>>
      BY <3>2 DEF OneSwaps, Swapping, InTurn, Sorting
    <3>4. UNCHANGED ran
      BY <2>1 DEF Store
    <3>5. QED
      BY <3>3, <3>4 DEF RanFront
  <2>2. CASE ~Store(r)
    <3>1. UNCHANGED chain
      BY <1>2, <2>2, ChainKept
    <3>2. ASSUME NEW name \in Names, Len(ran[r]) + 1 \in 1..Len(chain),
                 name = chain[Len(ran[r]) + 1].handle,
                 ran' = [ran EXCEPT ![r] = Append(@, name)]
          PROVE  RanFront'
      <4>1. /\ ran[r] \in Seq(Names) /\ ran'[r] = Append(ran[r], name)
            /\ \A q \in Requests \ {r} : ran'[q] = ran[q]
        BY <3>2 DEF FiltersTypeOK
      <4>2. \A i \in DOMAIN ran'[r] : ran'[r][i] = chain[i].handle
        <5>1. PICK k \in Nat : k = Len(ran[r]) /\ DOMAIN ran[r] = 1..k
          BY <4>1, LenProperties
        <5>2. /\ DOMAIN ran'[r] = 1..(k + 1) /\ ran'[r][k + 1] = name
              /\ \A i \in 1..k : ran'[r][i] = ran[r][i]
          BY <4>1, <5>1
        <5>3. \A i \in 1..(k + 1) : i \in 1..k \/ i = k + 1
          OBVIOUS
        <5>4. QED
          BY <3>2, <5>1, <5>2, <5>3 DEF RanFront
      <4>3. QED
        BY <3>1, <4>1, <4>2 DEF RanFront
    <3>3. CASE Dispatch(r)
      BY <3>1, <3>2, <3>3, DispatchesTo DEF RanFront
    <3>4. CASE ~Dispatch(r)
      <4>1. UNCHANGED ran
        BY <1>2, <2>2, <3>4, StageFacts DEF Serve, Arrive
      <4>2. QED
        BY <3>1, <4>1 DEF RanFront
    <3>5. QED
      BY <3>3, <3>4
  <2>3. QED
    BY <2>1, <2>2
<1>3. QED
  BY <1>1, <1>2 DEF FiltersNext

-----------------------------------------------------------------------------
(* Theorems.                                                               *)

\* The invariant at the start.
LEMMA FilterInvInit == FiltersInit => FilterInv
<1> SUFFICES ASSUME FiltersInit PROVE FilterInv
  OBVIOUS
<1>1. FiltersTypeOK
  BY FiltersTypeInit
<1>2. /\ \A r \in Requests : /\ stage[r] = "idle" /\ ran[r] = <<>>
                             /\ held[r] = <<>> /\ out[r] = {}
      /\ chain = [i \in DOMAIN instance.filters |-> Handler(instance.filters[i])]
      /\ instance \in Instances
  BY DEF FiltersInit
<1>3. Equipped /\ Answered /\ InTurn
  BY <1>2 DEF Equipped, Answered, InTurn, Sorting
<1>4. Whole
  <2>1. /\ instance.filters \in Seq(Names)
        /\ \A i, j \in DOMAIN instance.filters :
             instance.filters[i] = instance.filters[j] => i = j
    BY <1>2, InstanceFacts
  <2>2. \A i \in DOMAIN instance.filters : instance.filters[i] \in Names
    BY <2>1
  <2>3. DOMAIN chain = DOMAIN instance.filters
    BY <1>2
  <2>4. \A i \in DOMAIN chain : /\ chain[i] = Handler(instance.filters[i])
                                /\ chain[i].handle = instance.filters[i]
    BY <1>2, <2>2, HandlerFacts
  <2>5. QED
    BY <2>1, <2>3, <2>4 DEF Whole
<1>5. InOrder /\ RanFront
  BY <1>2, <1>4 DEF InOrder, RanFront
<1>6. QED
  BY <1>1, <1>3, <1>5 DEF FilterInv

\* The invariant is inductive.
LEMMA FilterInvStep == FilterInv /\ [FiltersNext]_filterVars => FilterInv'
<1> SUFFICES ASSUME FilterInv, [FiltersNext]_filterVars PROVE FilterInv'
  OBVIOUS
<1>1. FiltersTypeOK'
  BY FiltersTypeStep DEF FilterInv
<1>2. Equipped' /\ Answered' /\ InTurn'
  BY <1>1, EquippedStep, AnsweredStep, InTurnStep DEF FilterInv
<1>3. InOrder' /\ (~raced' => RanFront')
  BY RacedGrows, InOrderStep, RanFrontStep DEF FilterInv
<1>4. QED
  BY <1>1, <1>2, <1>3 DEF FilterInv

\* The filters of the process are the filters: what the process does besides
\* leaves them alone.
LEMMA ProcessRunsFilters == Next => [FiltersNext]_filterVars
  BY DEF Next, Start, Signal, Return, Exit, Listen, ServerClosed, Shutdown,
     Bind, Accept, Stopped, ProfStops, Serving, FiltersNext

\* The process around the requests only takes steps of the filters, or none:
\* what holds of the filters alone holds in the gateway.
THEOREM GatewayRunsFilters == Spec => FiltersSpec
<1>1. Init => FiltersInit
  BY DEF Init
<1>2. [Next]_vars => [FiltersNext]_filterVars
  BY ProcessRunsFilters DEF vars
<1>3. QED
  BY <1>1, <1>2, PTL DEF Spec, FiltersSpec

\* The inductive invariant of the filters.
THEOREM FiltersSafe == FiltersSpec => []FilterInv
  BY FilterInvInit, FilterInvStep, PTL DEF FiltersSpec

\* Whichever of the two filters WithFilters is given, in whichever order, and
\* however many the requests: each passes the filters once each and by
\* priority, unless two have met while the slice was out of order.
THEOREM RunInOrder == Spec => []FiltersRunInOrder
<1>1. FilterInv => FiltersRunInOrder
  <2> SUFFICES ASSUME FilterInv, ~raced, NEW r \in Requests
               PROVE  /\ \A i, j \in DOMAIN ran[r] :
                           i < j => Priority(ran[r][i]) > Priority(ran[r][j])
                      /\ stage[r] = "proxy" => Len(ran[r]) = Len(chain)
    BY DEF FiltersRunInOrder
  <2>a. FiltersTypeOK
    BY DEF FilterInv
  <2>1. ASSUME NEW i \in DOMAIN ran[r], NEW j \in DOMAIN ran[r], i < j
        PROVE  Priority(ran[r][i]) > Priority(ran[r][j])
    <3>1. Settled(chain)
      BY <2>1 DEF FilterInv, InOrder, InTurn, Sorting, Swapping
    <3>2. /\ ran[r] \in Seq(Names) /\ Len(ran[r]) <= Len(chain)
          /\ Len(ran[r]) \in Nat /\ DOMAIN ran[r] = 1..Len(ran[r])
          /\ DOMAIN chain = 1..Len(chain) /\ Len(chain) \in Nat
      BY <2>a, ChainFacts DEF FiltersTypeOK
    <3>3. i \in DOMAIN chain /\ j \in DOMAIN chain /\ i \in 1..(j - 1)
      BY <2>1, <3>2
    <3>4. /\ chain[i] = Handler(chain[i].handle) /\ chain[j] = Handler(chain[j].handle)
          /\ chain[i].priority > chain[j].priority
      BY <3>1, <3>3 DEF Settled
    <3>5. chain[i].handle \in Names /\ chain[j].handle \in Names
      BY <2>a, <3>2, <3>3, ChainFacts
    <3>6. ran[r][i] = chain[i].handle /\ ran[r][j] = chain[j].handle
      BY <2>1 DEF FilterInv, RanFront
    <3>7. QED
      BY <3>4, <3>5, <3>6, HandlerFacts
  <2>2. QED
    BY <2>1 DEF FilterInv, InTurn
<1>2. QED
  BY <1>1, GatewayRunsFilters, FiltersSafe, PTL

\* A request has one answer, or is left without by the filter that gave up or
\* by the proxy.
THEOREM AnsweredOnce == Spec => []OneAnswer
<1>1. FilterInv => OneAnswer
  <2>1. ASSUME FilterInv, NEW r \in Requests PROVE Cardinality(out[r]) <= 1
    <3>1. out[r] = {} \/ \E a \in {"origin", "preflight", "limit", "upstream"} : out[r] = {a}
      BY <2>1 DEF FilterInv, Answered
    <3>2. CASE out[r] = {}
      <4>1. Cardinality(out[r]) = 0
        BY <3>2, FS_EmptySet
      <4>2. QED
        BY <4>1
    <3>3. ASSUME NEW a, out[r] = {a} PROVE Cardinality(out[r]) <= 1
      <4>1. Cardinality(out[r]) = 1
        BY <3>3, FS_Singleton
      <4>2. QED
        BY <4>1
    <3>4. QED
      BY <3>1, <3>2, <3>3
  <2>2. QED
    BY <2>1 DEF FilterInv, Answered, OneAnswer
<1>2. QED
  BY <1>1, GatewayRunsFilters, FiltersSafe, PTL

\* Where the process and its goroutines may be together.
ProcessInv ==
  /\ main \in {"starting", "waiting", "closing", "leaving", "exited", "fatal"}
  /\ listener \in {"none", "starting", "binding", "bound", "open", "closed",
                  "returned", "failed"}
  /\ stopper \in {"none", "waiting", "shutdown", "stopped"}
  /\ prof \in {"none", "up", "down"}
  /\ main = "starting" => stopper = "none"
  /\ ShutDown => /\ listener # "open"
                 /\ main = "fatal" => listener = "failed"

\* The goroutines of the process agree on where they are: once Shutdown has
\* begun the server does not serve, whether it had been listening or not, and
\* main learns of a failure only from a bind.
THEOREM ProcessSafe == Spec => []ProcessInv
<1>1. Init => ProcessInv
  BY DEF Init, ProcessInv, ShutDown
<1>2. ProcessInv /\ [Next]_vars => ProcessInv'
  BY DEF ProcessInv, ShutDown, Next, Start, Signal, Return, Exit, Closed,
     Listen, Bind, Accept, ServerClosed, Shutdown, Stopped, ProfStops,
     Serving, vars, processVars, Running
<1>3. QED
  BY <1>1, <1>2, PTL DEF Spec

\* The gateway keeps its types: every bucket stays within its capacity, and
\* no filter is added to the chain or lost from it.
THEOREM GatewayTypeCorrect == Spec => []GatewayTypeOK
<1>1. FilterInv /\ ProcessInv => GatewayTypeOK
  BY DEF FilterInv, ProcessInv, GatewayTypeOK
<1>2. QED
  BY <1>1, GatewayRunsFilters, FiltersSafe, ProcessSafe, PTL

\* Once Shutdown has returned no request is left: none arrives at a server
\* that is shut down.
THEOREM NobodyIsLeft ==
  Spec => [](stopper = "stopped" => \A r \in Requests : ~InFlight(r))
<1> DEFINE Left == stopper = "stopped" => \A r \in Requests : ~InFlight(r)
<1>1. Init => Left
  BY DEF Init
<1>2. FiltersTypeOK /\ ProcessInv /\ Left /\ [Next]_vars => Left'
  <2> SUFFICES ASSUME FiltersTypeOK, ProcessInv, Left, [Next]_vars,
                      stopper' = "stopped"
               PROVE  \A r \in Requests : ~InFlight(r)'
    OBVIOUS
  <2>1. CASE Stopped
    BY <2>1 DEF Stopped, InFlight, filterVars
  <2>2. CASE Serving
    <3>1. /\ stopper = "stopped" /\ listener # "open"
          /\ \A r \in Requests : stage[r] \in {"idle", "done"}
      BY <2>2 DEF Serving, processVars, ProcessInv, ShutDown, InFlight
    <3>2. \A r \in Requests : ~Serve(r)
      BY <3>1, StageFacts
    <3>3. Tick
      BY <2>2, <3>1, <3>2 DEF Serving
    <3>4. QED
      BY <3>1, <3>3 DEF Tick, InFlight
  <2>3. CASE ~Stopped /\ ~Serving
    BY <2>3 DEF Next, Start, Signal, Return, Exit, Listen, Bind, Accept,
       ServerClosed, Shutdown, ProfStops, vars, processVars, filterVars,
       InFlight
  <2>4. QED
    BY <2>1, <2>2, <2>3
<1>3. FilterInv => FiltersTypeOK
  BY DEF FilterInv
<1>4. QED
  BY <1>1, <1>2, <1>3, GatewayRunsFilters, FiltersSafe, ProcessSafe, PTL
     DEF Spec

\* Whatever ListenAndServe is doing when Shutdown begins, the server stops
\* serving, and nothing but a bind that fails ends the process as a failure.
THEOREM ShutdownSucceeds == Spec => []ShutdownIsClean
<1> DEFINE Left == stopper = "stopped" => \A r \in Requests : ~InFlight(r)
<1>1. ProcessInv /\ Left => ShutdownIsClean
  BY DEF ProcessInv, ShutdownIsClean
<1>2. QED
  BY <1>1, ProcessSafe, NobodyIsLeft, PTL

=============================================================================
