--------------------------- MODULE RegistryProofs ---------------------------
(***************************************************************************)
(* The types of a service process and of the gateway, for any services of  *)
(* this process and of others.                                             *)
(***************************************************************************)
EXTENDS Registry, SetLemmas

\* The others hold what they held.
RegistryInv == TypeOK /\ other \in [Others -> {Absent, Garbled, Value}]

GEvent == Gateway!Event

-----------------------------------------------------------------------------
(* What etcd lists.                                                        *)

\* The order of the keys gives each service a number of its own.
LEMMA KeyNrFacts ==
  /\ IsFiniteSet(Names)
  /\ \A s \in Names : Gateway!KeyNr(s) \in Nat
  /\ \A s, t \in Names : Gateway!KeyNr(s) = Gateway!KeyNr(t) => s = t
<1>1. \A s \in Names : /\ Gateway!KeyNr(s) \in DOMAIN KeyOrder
                       /\ KeyOrder[Gateway!KeyNr(s)] = s
  BY EveryKeyAssumption DEF Gateway!KeyNr, Names
<1>2. DOMAIN KeyOrder = 1..Len(KeyOrder) /\ Len(KeyOrder) \in Nat
  BY EveryKeyAssumption
<1>3. \A s \in Names : Gateway!KeyNr(s) \in 1..Len(KeyOrder)
  BY <1>1, <1>2
<1>4. IsFiniteSet(Names)
  <2> DEFINE nr == [s \in Names |-> Gateway!KeyNr(s)]
  <2>1. nr \in Injection(Names, 1..Len(KeyOrder))
    BY <1>1, <1>3 DEF Injection, IsInjective
  <2>2. IsFiniteSet(1..Len(KeyOrder))
    BY <1>2, FS_Interval
  <2>3. QED
    BY <2>1, <2>2, FS_Injection
<1>5. QED
  BY <1>1, <1>2, <1>3, <1>4

\* The keys of a set of services, in order, are a sequence of them.
LEMMA InKeyOrderFacts ==
  ASSUME NEW S \in SUBSET Names
  PROVE  /\ Cardinality(S) \in Nat
         /\ Gateway!InKeyOrder(S) \in [1..Cardinality(S) -> S]
<1> DEFINE nr == [s \in S |-> Gateway!KeyNr(s)]
           upTo == [s \in S |-> {t \in S : nr[t] <= nr[s]}]
<1>1. IsFiniteSet(S) /\ nr \in [S -> Int] /\ \A s, t \in S : nr[s] = nr[t] => s = t
  BY KeyNrFacts, FS_Subset
<1>2. IsUpTo(upTo, S)
  <2> HIDE DEF nr
  <2>1. QED
    BY <1>1, UpToOfNumbers
<1>3. Gateway!InKeyOrder(S) = Gateway!Arrange(upTo)
  BY DEF Gateway!InKeyOrder
<1> HIDE DEF upTo
<1>4. Gateway!Arrange(upTo) = Arrange(upTo)
  BY Zenon DEF Gateway!Arrange, Arrange, Gateway!Cardinality, Cardinality
<1>5. QED
  BY <1>2, <1>3, <1>4, ArrangeFacts

-----------------------------------------------------------------------------
(* The steps.                                                              *)

\* What etcd holds: the key of the process and those of others.
LEMMA StoreType ==
  ASSUME other \in [Others -> {Absent, Garbled, Value}]
  PROVE  store \in [Names -> {Value} \cup {Absent, Garbled}]
  BY DEF store, Names

\* A lease ends with its key, and a key is stored only under a live lease.
LEMMA ProcessTypeStep ==
  ASSUME Process!TypeOK, Process!Next
  PROVE  Process!TypeOK'
<1> USE DEF Process!TypeOK
<1>1. ASSUME NEW s \in Services, Process!Grant(s) PROVE Process!TypeOK'
  BY <1>1 DEF Process!Grant, Process!Fails
<1>2. ASSUME NEW s \in Services, Process!Put(s) PROVE Process!TypeOK'
  <2> DEFINE stored == [key EXCEPT ![s] = "leased"]
  <2>1. /\ key' = key \/ (key' = stored /\ lease[s] = "live")
        /\ UNCHANGED <<lease, channel, worker, closer, process, link>>
    BY <1>2 DEF Process!Put, Process!Fails
  <2>2. pc' \in [Services -> {"idle", "granted", "put", "registered", "failed"}]
    BY <1>2 DEF Process!Put, Process!Fails
  <2>3. QED
    BY <2>1, <2>2
<1>3. ASSUME NEW s \in Services,
             Process!KeepAlive(s) \/ Process!ReceiveNil(s) \/ Process!Leave(s)
      PROVE  Process!TypeOK'
  BY <1>3 DEF Process!KeepAlive, Process!ReceiveNil, Process!Leave
<1>4. ASSUME NEW s \in Services, Process!LeaseExpires(s) PROVE Process!TypeOK'
  BY <1>4 DEF Process!LeaseExpires
<1>5. ASSUME NEW s \in Services, Process!ChannelCloses(s) PROVE Process!TypeOK'
  BY <1>5 DEF Process!ChannelCloses
<1>6. CASE Process!CloseClient \/ Process!Cancel
  BY <1>6 DEF Process!CloseClient, Process!Cancel
<1>7. CASE Process!ProcessEnds \/ Process!LinkChanges
  BY <1>7 DEF Process!ProcessEnds, Process!LinkChanges
<1>8. QED
  BY <1>1, <1>2, <1>3, <1>4, <1>5, <1>6, <1>7 DEF Process!Next

\* The gateway is told of keys that it may hold.
LEMMA ToldType ==
  ASSUME events \in Seq(GEvent), Told
  PROVE  events' \in Seq(GEvent)
<1>1. ASSUME NEW s \in Services PROVE EventOf(s) \in GEvent
  BY DEF EventOf, GEvent, Gateway!Event, Gateway!Garbled, Garbled, Names
<1>2. QED
  BY <1>1 DEF Told

\* A step of the service process keeps the types, the events it causes included.
LEMMA ProcessStep ==
  ASSUME RegistryInv, InProcess(Process!Next)
  PROVE  RegistryInv'
<1>1. /\ Process!Next /\ Told /\ UNCHANGED <<gatewayVars, other>>
      /\ Process!TypeOK /\ Gateway!TypeOK
  BY DEF InProcess, RegistryInv, TypeOK
<1>2. Process!TypeOK'
  BY <1>1, ProcessTypeStep
<1>3. events' \in Seq(Gateway!Event)
  BY <1>1, ToldType DEF Gateway!TypeOK, GEvent
<1>4. store' \in [Names -> {Value} \cup {Gateway!Absent, Gateway!Garbled}]
  BY <1>1 DEF RegistryInv, store, Names, Absent, Garbled, Gateway!Absent,
     Gateway!Garbled
<1>5. Gateway!TypeOK'
  BY <1>1, <1>3, <1>4 DEF Gateway!TypeOK, gatewayVars
<1>6. QED
  BY <1>1, <1>2, <1>5 DEF RegistryInv, TypeOK

\* What sync reads are puts of the keys there are.
LEMMA ReadType ==
  ASSUME RegistryInv, Gateway!ReadAll
  PROVE  todo' \in Seq(Gateway!Event)
<1> DEFINE S == {s \in Names : store[s] # Gateway!Absent}
<1>1. Cardinality(S) \in Nat /\ Gateway!Registered \in [1..Cardinality(S) -> S]
  BY InKeyOrderFacts DEF Gateway!Registered
<1>2. \A s \in S : /\ s \in Names
                   /\ [type |-> "put", name |-> s, value |-> store[s]] \in Gateway!Event
  BY StoreType DEF RegistryInv, Gateway!Event, Absent, Gateway!Absent, Garbled,
     Gateway!Garbled
<1> HIDE DEF S
<1>3. todo' = [i \in 1..Cardinality(S) |->
                 [type |-> "put", name |-> Gateway!Registered[i],
                  value |-> store[Gateway!Registered[i]]]]
  BY <1>1 DEF Gateway!ReadAll
<1>4. todo' \in [1..Cardinality(S) -> Gateway!Event]
  BY <1>1, <1>2, <1>3
<1>5. QED
  BY <1>1, <1>4

\* A step of the gateway's watch keeps the types.
LEMMA WatcherStep ==
  ASSUME RegistryInv, UNCHANGED <<processVars, other>>,
         \/ Gateway!WatchCloses \/ Gateway!EtcdComesAndGoes
         \/ Gateway!Watcher \/ Gateway!Close
  PROVE  RegistryInv'
<1>1. Process!TypeOK'
  BY DEF RegistryInv, TypeOK, Process!TypeOK, processVars
<1>2. store' \in [Names -> {Value} \cup {Gateway!Absent, Gateway!Garbled}]
  BY DEF RegistryInv, store, Names, Absent, Garbled, Gateway!Absent,
     Gateway!Garbled, processVars
<1>3. Gateway!TypeOK'
  <2>0. Gateway!TypeOK
    BY DEF RegistryInv, TypeOK
  <2> USE DEF Gateway!TypeOK, Gateway!callVars, Gateway!loopVars, Gateway!etcdVars
  <2>1. CASE Gateway!WatchCloses \/ Gateway!EtcdComesAndGoes \/ Gateway!Close
    <3>1. events' \in Seq(Gateway!Event)
      <4>1. events' = <<>> \/ events' = events
        BY <2>1 DEF Gateway!WatchCloses, Gateway!EtcdComesAndGoes, Gateway!Close
      <4>2. <<>> \in Seq(Gateway!Event) /\ events \in Seq(Gateway!Event)
        BY <2>0
      <4>3. QED
        BY <4>1, <4>2
    <3>2. QED
      BY <1>2, <2>0, <2>1, <3>1
         DEF Gateway!WatchCloses, Gateway!EtcdComesAndGoes, Gateway!Close
  <2>2. CASE Gateway!OpenWatch \/ Gateway!StartSync \/ Gateway!ReadFails
               \/ Gateway!Handled
    BY <1>2, <2>0, <2>2 DEF Gateway!OpenWatch, Gateway!StartSync,
       Gateway!ReadFails, Gateway!Handled
  <2>3. CASE Gateway!TakeEvents
    <3>1. PICK n \in 1..Len(events) :
            /\ todo' = SubSeq(events, 1, n)
            /\ events' = SubSeq(events, n + 1, Len(events))
      BY <2>3 DEF Gateway!TakeEvents
    <3>2. events \in Seq(Gateway!Event) /\ Len(events) \in Nat
      BY <2>0
    <3>3. todo' \in Seq(Gateway!Event) /\ events' \in Seq(Gateway!Event)
      BY <3>1, <3>2
    <3>4. QED
      BY <1>2, <2>0, <2>3, <3>3 DEF Gateway!TakeEvents
  <2>4. CASE Gateway!ReadAll
    <3>1. todo' \in Seq(Gateway!Event)
      BY <2>4, ReadType
    <3>2. QED
      BY <1>2, <2>0, <2>4, <3>1 DEF Gateway!ReadAll
  <2>5. CASE Gateway!HandleEvent
    <3>1. todo \in Seq(Gateway!Event) /\ todo # <<>>
      BY <2>0, <2>5 DEF Gateway!HandleEvent
    <3>2. PICK e \in Gateway!Event : e = Head(todo)
      BY <3>1
    <3>3. Tail(todo) \in Seq(Gateway!Event)
      BY <3>1
    <3>4. e.name \in Names /\ (e.value # Gateway!Garbled => e.value \in {Value})
      BY <3>2 DEF Gateway!Event
    <3>5. cache' \in [Names -> {Value} \cup {Gateway!Absent}]
      BY <2>0, <2>5, <3>2, <3>4
         DEF Gateway!HandleEvent, Gateway!PutServer, Gateway!DelServer
    <3>6. QED
      BY <1>2, <2>0, <2>5, <3>3, <3>5 DEF Gateway!HandleEvent
  <2>6. CASE Gateway!TakeDone
    <3>1. events' \in Seq(Gateway!Event)
      BY <2>6 DEF Gateway!TakeDone
    <3>2. QED
      BY <1>2, <2>0, <2>6, <3>1 DEF Gateway!TakeDone
  <2>7. QED
    BY <2>1, <2>2, <2>3, <2>4, <2>5, <2>6 DEF Gateway!Watcher
<1>4. QED
  BY <1>1, <1>3 DEF RegistryInv, TypeOK

-----------------------------------------------------------------------------
\* A key is there only under a live lease; what is on its way to the gateway
\* and what the gateway knows are registrations of known names.
THEOREM TypeCorrect == Spec => []TypeOK
<1>1. Init => RegistryInv
  <2> SUFFICES ASSUME Init PROVE RegistryInv
    OBVIOUS
  <2>1. other \in [Others -> {Absent, Garbled, Value}] /\ Process!TypeOK
    BY DEF Init, Process!Init, Process!TypeOK
  <2>2. store \in [Names -> {Value} \cup {Gateway!Absent, Gateway!Garbled}]
    BY <2>1, StoreType DEF Absent, Garbled, Gateway!Absent, Gateway!Garbled
  <2>3. /\ events \in Seq(Gateway!Event) /\ todo \in Seq(Gateway!Event)
        /\ cache \in [Names -> {Value} \cup {Gateway!Absent}]
    BY DEF Init, Absent, Gateway!Absent
  <2>4. ASSUME NEW T PROVE <<>> \in [{} -> T]
    OBVIOUS
  <2>5. stage \in [{} -> {"start", "putting", "listed", "failed", "done"}]
    BY <2>4 DEF Init
  <2>6. list \in [{} -> Seq(Gateway!Entry)] /\ left \in [{} -> SUBSET Nat]
    BY <2>4 DEF Init
  <2>7. changes = 0 /\ up = TRUE /\ closing = FALSE
    BY DEF Init
  <2>8. changes \in 0..0
    BY <2>7
  <2>9. up \in BOOLEAN /\ closing \in BOOLEAN
    BY <2>7
  <2>10. wch = "unmade" /\ loop = "start"
    BY DEF Init
  <2>11. Gateway!TypeOK
    BY <2>2, <2>3, <2>5, <2>6, <2>9, <2>10, <2>8 DEF Gateway!TypeOK
  <2>12. QED
    BY <2>1, <2>11 DEF RegistryInv, TypeOK
<1>2. RegistryInv /\ [Next]_vars => RegistryInv'
  <2> SUFFICES ASSUME RegistryInv, [Next]_vars PROVE RegistryInv'
    OBVIOUS
  <2>1. CASE UNCHANGED vars
    BY <2>1 DEF vars, processVars, gatewayVars, RegistryInv, TypeOK,
       Process!TypeOK, Gateway!TypeOK, store
  <2>2. CASE Next
    BY <2>2, ProcessStep, WatcherStep DEF Next, InGateway
  <2>3. QED
    BY <2>1, <2>2
<1>3. RegistryInv => TypeOK
  BY DEF RegistryInv
<1>4. QED
  BY <1>1, <1>2, <1>3, PTL DEF Spec

=============================================================================
