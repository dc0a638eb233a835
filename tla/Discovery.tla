----------------------------- MODULE Discovery -----------------------------
(***************************************************************************)
(* The gateway's view of the services registered in etcd (EtcdDiscovery).  *)
(*                                                                         *)
(* A background goroutine (watch) copies registrations into the map        *)
(* e.service: from the events of an etcd watch, and every three seconds    *)
(* from a full read (sync). Every request reads etcd as well (GetService)  *)
(* and copies what it found. All copies go through PutServer, which keeps  *)
(* the value it finds for a name. etcd and its client library are          *)
(* external.                                                               *)
(***************************************************************************)
EXTENDS Sequences, Arrange

CONSTANTS
  Services,     \* the names services register under
  KeyOrder,     \* Services in the order of their keys, in which etcd lists them
  Values,       \* the registrations a name may hold
  Requests,     \* the requests that call GetService
  MaxChanges    \* bound: how often the registrations change

ASSUME KeyOrderAssumption ==
  /\ KeyOrder \in Seq(Services)
  /\ \A s \in Services : \E i \in DOMAIN KeyOrder : KeyOrder[i] = s
ASSUME MaxChangesAssumption == MaxChanges \in Nat

Absent == "absent"     \* no key, or no entry in e.service
Garbled == "garbled"   \* a key whose value is not the JSON of a service

VARIABLES
  store,     \* store[s]: what etcd holds for s
  events,    \* events on their way to the watch channel
  wch,       \* the watch channel: "unmade", "open" or "closed"
  up,        \* etcd can be reached
  changes,   \* how often the registrations have changed
  cache,     \* e.service
  loop,      \* the goroutine watch: "start", "select", "reading", "putting", "exit"
  todo,      \* the events the goroutine has still to handle
  closing,   \* a caller of Close waits to send on e.done
  stage,     \* stage[r]: how far the GetService of r has got; "done": see
             \*   NextTarget, which calls it
  list,      \* list[r]: servers, the services GetService returns
  left       \* left[r]: the positions of list[r] it has not put yet

discoveryVars == <<store, events, wch, up, changes, cache, loop, todo,
                   closing, stage, list, left>>

Entry == [name : Services, value : Values]
Event == [type : {"put", "delete"}, name : Services,
          value : Values \cup {Garbled}]

TypeOK ==
  /\ store \in [Services -> Values \cup {Absent, Garbled}]
  /\ events \in Seq(Event)
  /\ wch \in {"unmade", "open", "closed"}
  /\ up \in BOOLEAN
  /\ changes \in 0..MaxChanges
  /\ cache \in [Services -> Values \cup {Absent}]
  /\ loop \in {"start", "select", "reading", "putting", "exit"}
  /\ todo \in Seq(Event)
  /\ closing \in BOOLEAN
  /\ stage \in [Requests -> {"start", "putting", "listed", "failed", "done"}]
  /\ list \in [Requests -> Seq(Entry)]
  /\ left \in [Requests -> SUBSET Nat]
  /\ \A r \in Requests : left[r] \subseteq DOMAIN list[r]

\* New: the services registered before the gateway starts are in etcd only.
DiscoveryInit ==
  /\ store \in [Services -> Values \cup {Absent}]
  /\ events = <<>>
  /\ wch = "unmade"
  /\ up = TRUE
  /\ changes = 0
  /\ cache = [s \in Services |-> Absent]
  /\ loop = "start"
  /\ todo = <<>>
  /\ closing = FALSE
  /\ stage = [r \in Requests |-> "start"]
  /\ list = [r \in Requests |-> <<>>]
  /\ left = [r \in Requests |-> {}]

-----------------------------------------------------------------------------
(* etcd.                                                                   *)

etcdVars == <<store, events, wch, up, changes>>
loopVars == <<cache, loop, todo, closing>>
callVars == <<stage, list, left>>

\* A key is written or deleted, and an open watch is told. The event of a
\* deletion carries no value.
StoreChanges(s, v) ==
  /\ changes < MaxChanges /\ store[s] # v
  /\ changes' = changes + 1
  /\ store' = [store EXCEPT ![s] = v]
  /\ events' =
       IF wch # "open" THEN events
       ELSE Append(events, IF v = Absent
                           THEN [type |-> "delete", name |-> s, value |-> Garbled]
                           ELSE [type |-> "put", name |-> s, value |-> v])
  /\ UNCHANGED <<wch, up, loopVars, callVars>>

\* The library closes a watch it cannot resume, for one after a compaction.
WatchCloses ==
  /\ wch = "open"
  /\ wch' = "closed"
  /\ events' = <<>>
  /\ UNCHANGED <<store, up, changes, loopVars, callVars>>

EtcdComesAndGoes ==
  /\ up' = ~up
  /\ UNCHANGED <<store, events, wch, changes, loopVars, callVars>>

KeyNr(s) == CHOOSE i \in DOMAIN KeyOrder : KeyOrder[i] = s

InKeyOrder(names) ==
  Arrange([s \in names |-> {t \in names : KeyNr(t) <= KeyNr(s)}])

\* Get with the prefix: the keys there are, in order.
Registered == InKeyOrder({s \in Services : store[s] # Absent})

\* ... those of them that json.Unmarshal accepts, decoded.
Decoded ==
  LET good == InKeyOrder({s \in Services : store[s] \in Values})
  IN  [i \in DOMAIN good |-> [name |-> good[i], value |-> store[good[i]]]]

\* A request of the client is answered: not without etcd, nor after Close.
Answered == up /\ loop # "exit"

-----------------------------------------------------------------------------
(* PutServer and DelServer, each one critical section.                     *)

PutServer(s, v) ==
  cache' = IF cache[s] = Absent THEN [cache EXCEPT ![s] = v] ELSE cache

DelServer(s) ==
  cache' = [cache EXCEPT ![s] = Absent]

-----------------------------------------------------------------------------
(* The goroutine watch.                                                    *)

\* client.Watch: the channel reports what changes from now on.
OpenWatch ==
  /\ loop = "start"
  /\ loop' = "select"
  /\ wch' = "open"
  /\ UNCHANGED <<store, events, up, changes, cache, todo, closing, callVars>>

\* case res, ok := <-wch, ok: a response may hold several events.
TakeEvents ==
  /\ loop = "select"
  /\ \E n \in 1..Len(events) :
       /\ todo' = SubSeq(events, 1, n)
       /\ events' = SubSeq(events, n + 1, Len(events))
  /\ loop' = "putting"
  /\ UNCHANGED <<store, wch, up, changes, cache, closing, callVars>>

\* case <-ticker.C: sync sends its Get, whose context has no deadline.
StartSync ==
  /\ loop = "select"
  /\ loop' = "reading"
  /\ UNCHANGED <<etcdVars, cache, todo, closing, callVars>>

\* The Get of sync is answered.
ReadAll ==
  /\ loop = "reading" /\ Answered
  /\ todo' = [i \in DOMAIN Registered |->
                LET s == Registered[i]
                IN  [type |-> "put", name |-> s, value |-> store[s]]]
  /\ loop' = "putting"
  /\ UNCHANGED <<etcdVars, cache, closing, callVars>>

\* The Get of sync fails: the error is logged.
ReadFails ==
  /\ loop = "reading" /\ ~Answered
  /\ loop' = "select"
  /\ UNCHANGED <<etcdVars, cache, todo, closing, callVars>>

\* A variant that gives up at the first value it cannot decode.
HandleOrStop ==
  LET e == Head(todo)
  IN  /\ loop = "putting" /\ todo # <<>>
      /\ \/ e.value = Garbled /\ todo' = <<>> /\ UNCHANGED cache
         \/ /\ e.value # Garbled /\ e.type = "put" /\ todo' = Tail(todo)
            /\ PutServer(e.name, e.value)
      /\ UNCHANGED <<etcdVars, loop, closing, callVars>>

\* A variant that tries again what it cannot decode.
HandleOrRetry ==
  LET e == Head(todo)
  IN  /\ loop = "putting" /\ todo # <<>>
      /\ \/ e.value = Garbled /\ UNCHANGED <<cache, todo>>
         \/ /\ e.value # Garbled /\ e.type = "put" /\ todo' = Tail(todo)
            /\ PutServer(e.name, e.value)
      /\ UNCHANGED <<etcdVars, loop, closing, callVars>>

\* One turn of the loop of eventCallback or of sync. A value that cannot be
\* decoded is skipped, whatever the type of its event.
HandleEvent ==
  LET e == Head(todo)
  IN  /\ loop = "putting" /\ todo # <<>>
      /\ todo' = Tail(todo)
      /\ \/ e.value = Garbled /\ UNCHANGED cache
         \/ e.value # Garbled /\ e.type = "put" /\ PutServer(e.name, e.value)
         \/ e.value # Garbled /\ e.type = "delete" /\ DelServer(e.name)
      /\ UNCHANGED <<etcdVars, loop, closing, callVars>>

Handled ==
  /\ loop = "putting" /\ todo = <<>>
  /\ loop' = "select"
  /\ UNCHANGED <<etcdVars, cache, todo, closing, callVars>>

\* A caller of Close: e.done has no buffer, so the send waits for the loop.
\* Bound: it is called once (nobody would ever hear a second call).
Close ==
  /\ ~closing /\ loop # "exit"
  /\ closing' = TRUE
  /\ UNCHANGED <<etcdVars, cache, loop, todo, callVars>>

\* case <-e.done: the client is closed, its watch channel with it.
TakeDone ==
  /\ loop = "select" /\ closing
  /\ closing' = FALSE
  /\ loop' = "exit"
  /\ wch' = "closed"
  /\ events' = <<>>
  /\ UNCHANGED <<store, up, changes, cache, todo, callVars>>

-----------------------------------------------------------------------------
(* GetService, called by each request.                                     *)

\* The Get is answered.
Fetch(r) ==
  /\ stage[r] = "start" /\ Answered
  /\ list' = [list EXCEPT ![r] = Decoded]
  /\ left' = [left EXCEPT ![r] = DOMAIN Decoded]
  /\ stage' = [stage EXCEPT ![r] = "putting"]
  /\ UNCHANGED <<etcdVars, loopVars>>

\* The Get fails: GetService returns the error.
FetchFails(r) ==
  /\ stage[r] = "start" /\ ~Answered
  /\ stage' = [stage EXCEPT ![r] = "failed"]
  /\ UNCHANGED <<etcdVars, loopVars, list, left>>

\* One turn of its loop: the services are put in the order of the list.
PutFetched(r) ==
  LET i == CHOOSE j \in left[r] : \A k \in left[r] : j <= k
  IN  /\ stage[r] = "putting" /\ left[r] # {}
      /\ PutServer(list[r][i].name, list[r][i].value)
      /\ left' = [left EXCEPT ![r] = @ \ {i}]
      /\ UNCHANGED <<etcdVars, loop, todo, closing, stage, list>>

GotService(r) ==
  /\ stage[r] = "putting" /\ left[r] = {}
  /\ stage' = [stage EXCEPT ![r] = "listed"]
  /\ UNCHANGED <<etcdVars, loopVars, list, left>>

-----------------------------------------------------------------------------
Etcd ==
  \/ \E s \in Services, v \in Values \cup {Absent, Garbled} : StoreChanges(s, v)
  \/ WatchCloses
  \/ EtcdComesAndGoes

Watcher ==
  \/ OpenWatch \/ TakeEvents \/ StartSync \/ ReadAll \/ ReadFails
  \/ HandleEvent \/ Handled \/ TakeDone

GetService(r) == Fetch(r) \/ FetchFails(r) \/ PutFetched(r) \/ GotService(r)

DiscoveryNext == Etcd \/ Watcher \/ Close \/ \E r \in Requests : GetService(r)

DiscoverySpec == DiscoveryInit /\ [][DiscoveryNext]_discoveryVars

(***************************************************************************)
(* Fairness: the goroutine runs; its select chooses among the ready cases  *)
(* at random, so none that is ready again and again is passed over for     *)
(* ever: TakeEvents, StartSync and TakeDone are strongly fair. A request   *)
(* to etcd is answered or fails.                                           *)
(***************************************************************************)
Fairness ==
  /\ WF_discoveryVars(OpenWatch)
  /\ SF_discoveryVars(TakeEvents)
  /\ SF_discoveryVars(StartSync)
  /\ SF_discoveryVars(TakeDone)
  /\ WF_discoveryVars(ReadAll \/ ReadFails)
  /\ WF_discoveryVars(HandleEvent \/ Handled)

DiscoveryFairSpec == DiscoverySpec /\ Fairness

-----------------------------------------------------------------------------
(* Properties.                                                             *)

\* A service that stays registered is known in the end, even when it came
\* before the watch, its event was lost with the watch channel, or another
\* key cannot be decoded: sync makes up for the events.
RegisteredIsKnown ==
  \A s \in Services :
    <>[](store[s] \in Values /\ up /\ loop # "exit") => <>[](cache[s] # Absent)

\* Close is heard by the goroutine whatever it is doing, provided etcd does
\* not stop answering.
CloseIsHeard == <>[]up => (closing ~> ~closing)

\* "Watch del server change: %s" (discovery.go:174): a service whose key is
\* gone for good leaves e.service in the end.
DeletedIsForgotten ==
  \A s \in Services :
    <>[](store[s] = Absent /\ up /\ wch = "open") => <>[](cache[s] = Absent)
=============================================================================
