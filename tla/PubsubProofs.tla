---------------------------- MODULE PubsubProofs ----------------------------
(***************************************************************************)
(* What Pubsub guarantees for any set of connections, any topics, any      *)
(* number of buckets and any hash: who receives a message, in which order, *)
(* and that the broker of buckets and goroutines implements TopicBroker.   *)
(***************************************************************************)
EXTENDS Pubsub, SequenceTheorems, TLAPS

\* A node is kept in the bucket of its hash only.
InOwnBucket ==
  \A t \in Topics, b \in Buckets, c \in Nodes :
    c \in subs[t][b] => b = getShareBucket(c)

\* A goroutine has connections to write to only while it loops.
IdleWorkers ==
  \A n \in Nodes, b \in Buckets :
    task[n][b] # "loop" => todo[n][b] = {} /\ writing[n][b] = None

\* Calls name topics that exist.
KnownTopics == \A n \in Nodes : op[n] # "read" => topic[n] \in topics

\* The inductive invariant.
PubsubInv ==
  /\ TypeOK /\ InOwnBucket /\ IdleWorkers /\ KnownTopics /\ MutexHeld
  /\ WriteImpliesSubscribed /\ OneTopicIsSafe

\* getShareBucket yields a bucket.
LEMMA BucketInRange ==
  ASSUME NEW n \in Nodes
  PROVE  getShareBucket(n) \in Buckets
<1>1. \A h \in Nat, k \in Nat \ {0} : h % k \in 0..(k - 1)
  OBVIOUS
<1>2. fnv32[n] \in Nat
  BY PubsubAssumption
<1>3. QED
  BY <1>1, <1>2, PubsubAssumption DEF getShareBucket, Buckets

\* The invariant at the start.
LEMMA InitPubsubInv == Init => PubsubInv
<1> SUFFICES ASSUME Init PROVE PubsubInv
  OBVIOUS
<1> USE PubsubAssumption DEF Init
<1>1. inbox \in [Nodes -> Seq(Messages)]
  OBVIOUS
<1>2. pushed \in [Nodes -> Nat] /\ \A n \in Nodes : pushed[n] <= MaxPush[n]
  OBVIOUS
<1>3. TypeOK
  BY <1>1, <1>2 DEF TypeOK
<1>4. InOwnBucket /\ IdleWorkers /\ KnownTopics /\ OneTopicIsSafe
  BY DEF InOwnBucket, IdleWorkers, KnownTopics, OneTopicIsSafe
<1>5. MutexHeld /\ WriteImpliesSubscribed
  BY DEF MutexHeld, WriteImpliesSubscribed, Targets
<1>6. QED
  BY <1>3, <1>4, <1>5 DEF PubsubInv

\* A publication in progress has a topic and a bucket to work on.
LEMMA WorkerFacts ==
  ASSUME TypeOK, NEW n \in Nodes, NEW b \in Buckets, task[n][b] # "none"
  PROVE  op[n] = "publish" /\ topic[n] \in Topics
  BY DEF TypeOK

\* Every step keeps the types.
LEMMA StepTypeOK == TypeOK /\ [Next]_vars => TypeOK'
<1> SUFFICES ASSUME TypeOK, [Next]_vars PROVE TypeOK'
  OBVIOUS
<1> USE PubsubAssumption DEF TypeOK
<1>1. ASSUME NEW n \in Nodes, NEW t \in Topics, AddTopic(n, t) PROVE TypeOK'
  BY <1>1 DEF AddTopic, Starts, workers, conns, history
<1>2. ASSUME NEW n \in Nodes, Add(n) PROVE TypeOK'
  <2>1. getShareBucket(n) \in Buckets /\ topic[n] \in Topics
    BY <1>2, BucketInRange DEF Add
  <2>2. subs' \in [Topics -> [Buckets -> SUBSET Nodes]]
    BY <1>2, <2>1 DEF Add
  <2>3. QED
    BY <1>2, <2>2 DEF Add, Returns, workers, conns, history
<1>3. ASSUME NEW n \in Nodes, NEW t \in Topics, FindTopic(n, t) PROVE TypeOK'
  BY <1>3 DEF FindTopic, Starts, tables, workers, conns, history
<1>4. ASSUME NEW n \in Nodes, Remove(n) PROVE TypeOK'
  <2>1. getShareBucket(n) \in Buckets /\ topic[n] \in Topics
    BY <1>4, BucketInRange DEF Remove
  <2>2. subs' \in [Topics -> [Buckets -> SUBSET Nodes]]
    BY <1>4, <2>1 DEF Remove
  <2>3. owed' \in [Nodes -> SUBSET Nodes]
    BY <1>4 DEF Remove, NoLongerOwed
  <2>4. /\ op' \in [Nodes -> {"read", "add", "remove", "publish"}]
        /\ topic' \in [Nodes -> Topics \cup {None}]
        /\ \A m \in Nodes :
             /\ topic'[m] = None <=> op'[m] = "read"
             /\ op'[m] # "publish" => \A b \in Buckets : task'[m][b] = "none"
    BY <1>4 DEF Remove, Returns, workers
  <2>5. QED
    BY <1>4, <2>2, <2>3, <2>4 DEF Remove, workers, conns
<1>5. ASSUME NEW n \in Nodes, NEW t \in Topics, StartPublish(n, t)
      PROVE  TypeOK'
  <2>1. owed' \in [Nodes -> SUBSET Nodes]
    BY <1>5 DEF StartPublish
  <2>2. /\ pushed' \in [Nodes -> Nat]
        /\ \A m \in Nodes : pushed'[m] <= MaxPush[m]
    BY <1>5 DEF StartPublish
  <2>3. task' \in [Nodes -> [Buckets -> {"none", "wait", "loop", "done"}]]
    BY <1>5 DEF StartPublish
  <2>4. /\ op' \in [Nodes -> {"read", "add", "remove", "publish"}]
        /\ topic' \in [Nodes -> Topics \cup {None}]
        /\ \A m \in Nodes :
             /\ topic'[m] = None <=> op'[m] = "read"
             /\ op'[m] # "publish" => \A b \in Buckets : task'[m][b] = "none"
    BY <1>5 DEF StartPublish, Starts
  <2>5. QED
    BY <1>5, <2>1, <2>2, <2>3, <2>4 DEF StartPublish, tables, conns
<1>6. ASSUME NEW n \in Nodes, EndPublish(n) PROVE TypeOK'
  BY <1>6 DEF EndPublish, Returns, tables, conns, history
<1>7. ASSUME NEW n \in Nodes, NEW b \in Buckets, LockBucket(n, b)
      PROVE  TypeOK'
  <2>1. op[n] = "publish" /\ topic[n] \in Topics
    BY <1>7, WorkerFacts DEF LockBucket
  <2>2. task' \in [Nodes -> [Buckets -> {"none", "wait", "loop", "done"}]]
    BY <1>7 DEF LockBucket
  <2>3. mu' \in [Topics -> [Buckets -> Nodes \cup {None}]]
    BY <1>7, <2>1 DEF LockBucket
  <2>4. todo' \in [Nodes -> [Buckets -> SUBSET Nodes]]
    BY <1>7, <2>1 DEF LockBucket
  <2>5. \A m \in Nodes :
          op[m] # "publish" => \A d \in Buckets : task'[m][d] = "none"
    BY <1>7, <2>1 DEF LockBucket
  <2>6. QED
    BY <1>7, <2>2, <2>3, <2>4, <2>5 DEF LockBucket, tables, calls, conns, history
<1>8. ASSUME NEW n \in Nodes, NEW b \in Buckets, StartWrite(n, b)
      PROVE  TypeOK'
  <2>1. PICK c \in todo[n][b] :
          /\ todo' = [todo EXCEPT ![n][b] = @ \ {c}]
          /\ writing' = [writing EXCEPT ![n][b] = c]
          /\ IF Writers(c) = {}
             THEN UNCHANGED <<garbled, panicked, owed>>
             ELSE \/ panicked' = TRUE /\ UNCHANGED <<garbled, owed>>
                  \/ /\ garbled' = garbled \cup {c}
                     /\ owed' = [m \in Nodes |-> owed[m] \ {c}]
                     /\ UNCHANGED panicked
    BY <1>8 DEF StartWrite
  <2>2. c \in Nodes
    OBVIOUS
  <2>3. /\ todo' \in [Nodes -> [Buckets -> SUBSET Nodes]]
        /\ writing' \in [Nodes -> [Buckets -> Nodes \cup {None}]]
    BY <2>1, <2>2
  <2>4. /\ garbled' \subseteq Nodes /\ panicked' \in BOOLEAN
        /\ owed' \in [Nodes -> SUBSET Nodes]
    <3>1. CASE UNCHANGED <<garbled, panicked, owed>>
      BY <3>1
    <3>2. CASE panicked' = TRUE /\ UNCHANGED <<garbled, owed>>
      BY <3>2
    <3>3. CASE /\ garbled' = garbled \cup {c}
               /\ owed' = [m \in Nodes |-> owed[m] \ {c}]
               /\ UNCHANGED panicked
      BY <2>2, <3>3
    <3>4. QED
      BY <2>1, <3>1, <3>2, <3>3
  <2>5. /\ UNCHANGED <<topics, subs, op, topic, pushed, mu, task, open, inbox>>
    BY <1>8 DEF StartWrite, tables, calls
  <2>6. QED
    BY <2>3, <2>4, <2>5
<1>9. ASSUME NEW n \in Nodes, NEW b \in Buckets, EndWrite(n, b)
      PROVE  TypeOK'
  <2>1. /\ writing' \in [Nodes -> [Buckets -> Nodes \cup {None}]]
        /\ owed' \in [Nodes -> SUBSET Nodes]
    BY <1>9 DEF EndWrite
  <2>2. inbox' \in [Nodes -> Seq(Messages)]
    <3>1. [from |-> n, nr |-> pushed[n]] \in Messages
      BY DEF Messages
    <3>2. \A s \in Seq(Messages), m \in Messages : Append(s, m) \in Seq(Messages)
      OBVIOUS
    <3>3. QED
      BY <1>9, <3>1, <3>2 DEF EndWrite
  <2>3. QED
    BY <1>9, <2>1, <2>2 DEF EndWrite, tables, calls, conns
<1>10. ASSUME NEW n \in Nodes, NEW b \in Buckets, FinishBucket(n, b)
       PROVE  TypeOK'
  <2>1. op[n] = "publish" /\ topic[n] \in Topics
    BY <1>10, WorkerFacts DEF FinishBucket
  <2>2. /\ task' \in [Nodes -> [Buckets -> {"none", "wait", "loop", "done"}]]
        /\ mu' \in [Topics -> [Buckets -> Nodes \cup {None}]]
    BY <1>10, <2>1 DEF FinishBucket
  <2>3. \A m \in Nodes :
          op[m] # "publish" => \A d \in Buckets : task'[m][d] = "none"
    BY <1>10, <2>1 DEF FinishBucket
  <2>4. QED
    BY <1>10, <2>2, <2>3 DEF FinishBucket, tables, calls, conns, history
<1>11. ASSUME NEW c \in Nodes, Disconnect(c) PROVE TypeOK'
  BY <1>11 DEF Disconnect, tables, calls, workers
<1>12. CASE UNCHANGED vars
  BY <1>12 DEF vars, tables, calls, workers, conns, history
<1>13. QED
  BY <1>1, <1>2, <1>3, <1>4, <1>5, <1>6, <1>7, <1>8, <1>9, <1>10, <1>11,
     <1>12 DEF Next, Call, Worker

\* The goroutines that write to a connection at the same time are of
\* different topics: the core of the argument below.
LEMMA NoTwoWriters ==
  ASSUME PubsubInv,
         NEW n \in Nodes, NEW b \in Buckets, NEW m \in Nodes, NEW d \in Buckets,
         NEW c \in Nodes, c \in Targets(n, b), c \in Targets(m, d),
         topic[n] = topic[m]
  PROVE  n = m /\ b = d
<1> USE DEF PubsubInv
<1>1. /\ task[n][b] = "loop" /\ task[m][d] = "loop"
      /\ topic[n] \in Topics
  BY WorkerFacts DEF IdleWorkers, Targets
<1>2. c \in subs[topic[n]][b] /\ c \in subs[topic[n]][d]
  BY DEF WriteImpliesSubscribed
<1>3. b = d
  BY <1>1, <1>2 DEF InOwnBucket
<1>4. mu[topic[n]][b] = n /\ mu[topic[n]][b] = m
  BY <1>1, <1>3 DEF MutexHeld
<1>5. QED
  BY <1>3, <1>4

\* Topics are never deleted, so a broker with one topic always had one.
LEMMA SafetyKept ==
  ASSUME OneTopicIsSafe, topics \subseteq topics',
         UNCHANGED <<panicked, garbled>>
  PROVE  OneTopicIsSafe'
  BY DEF OneTopicIsSafe, OneTopic

\* The invariant is inductive.
LEMMA StepPubsubInv == PubsubInv /\ [Next]_vars => PubsubInv'
<1> SUFFICES ASSUME PubsubInv, [Next]_vars PROVE PubsubInv'
  OBVIOUS
<1> USE DEF PubsubInv
<1>a. TypeOK /\ TypeOK'
  BY StepTypeOK
<1> DEFINE Rest == /\ InOwnBucket /\ IdleWorkers /\ KnownTopics /\ MutexHeld
                   /\ WriteImpliesSubscribed /\ OneTopicIsSafe
<1>1. ASSUME NEW n \in Nodes, NEW t \in Topics,
             AddTopic(n, t) \/ FindTopic(n, t)
      PROVE  Rest'
  <2>1. /\ op[n] = "read" /\ topics \subseteq topics' /\ t \in topics'
        /\ op' \in [Nodes -> {"read", "add", "remove", "publish"}]
        /\ topic' = [topic EXCEPT ![n] = t]
        /\ \A m \in Nodes \ {n} : op'[m] = op[m]
        /\ op'[n] \in {"add", "remove"}
        /\ UNCHANGED <<subs, workers, conns, history>>
    BY <1>1, <1>a DEF AddTopic, FindTopic, Starts, tables, TypeOK
  <2>2. \A m \in Nodes, d \in Buckets : task[m][d] = "loop" => m # n
    BY <1>a, <2>1 DEF TypeOK
  <2>3. InOwnBucket' /\ IdleWorkers'
    BY <2>1 DEF InOwnBucket, IdleWorkers, workers
  <2>4. KnownTopics'
    BY <1>a, <2>1 DEF KnownTopics, TypeOK
  <2>5. MutexHeld'
    BY <1>a, <2>1, <2>2 DEF MutexHeld, workers, TypeOK
  <2>6. WriteImpliesSubscribed'
    BY <1>a, <2>1, <2>2 DEF WriteImpliesSubscribed, Targets, IdleWorkers,
       workers, TypeOK
  <2>7. OneTopicIsSafe'
    BY <2>1, SafetyKept DEF conns
  <2>8. QED
    BY <2>3, <2>4, <2>5, <2>6, <2>7
<1>2. ASSUME NEW n \in Nodes, Add(n) PROVE Rest'
  <2>1. /\ topic[n] \in Topics /\ getShareBucket(n) \in Buckets
        /\ \A m \in Nodes, d \in Buckets : task[m][d] = "loop" => m # n
    <3>1. topic[n] \in Topics /\ op[n] # "publish"
      BY <1>2, <1>a DEF Add, TypeOK
    <3>2. QED
      BY <1>a, <3>1, BucketInRange, WorkerFacts
  <2>2. \A t \in Topics, d \in Buckets :
          /\ subs[t][d] \subseteq subs'[t][d]
          /\ subs'[t][d] \subseteq subs[t][d] \cup {n}
          /\ d # getShareBucket(n) => subs'[t][d] = subs[t][d]
    BY <1>2, <1>a, <2>1 DEF Add, TypeOK
  <2>3. InOwnBucket'
    BY <2>2 DEF InOwnBucket, getShareBucket
  <2>4. IdleWorkers' /\ KnownTopics'
    BY <1>2, <1>a DEF Add, Returns, IdleWorkers, KnownTopics, workers, TypeOK
  <2>5. MutexHeld'
    BY <1>2, <1>a, <2>1 DEF Add, Returns, MutexHeld, workers, TypeOK
  <2>6. WriteImpliesSubscribed'
    <3> SUFFICES ASSUME NEW m \in Nodes, NEW d \in Buckets,
                        NEW c \in Targets(m, d)'
                 PROVE  c \in subs'[topic'[m]][d]
      BY DEF WriteImpliesSubscribed
    <3>1. c \in Targets(m, d)
      BY <1>2 DEF Add, Targets, workers
    <3>2. task[m][d] = "loop"
      BY <3>1 DEF IdleWorkers, Targets
    <3>3. topic'[m] = topic[m] /\ topic[m] \in Topics
      BY <1>2, <1>a, <2>1, <3>2, WorkerFacts DEF Add, Returns, TypeOK
    <3>4. QED
      BY <2>2, <3>1, <3>3 DEF WriteImpliesSubscribed
  <2>7. OneTopicIsSafe'
    BY <1>2, SafetyKept DEF Add, conns
  <2>8. QED
    BY <2>3, <2>4, <2>5, <2>6, <2>7
<1>3. ASSUME NEW n \in Nodes, Remove(n) PROVE Rest'
  <2>1. /\ topic[n] \in Topics /\ getShareBucket(n) \in Buckets
        /\ \A m \in Nodes, d \in Buckets : task[m][d] = "loop" => m # n
    <3>1. topic[n] \in Topics /\ op[n] # "publish"
      BY <1>3, <1>a DEF Remove, TypeOK
    <3>2. QED
      BY <1>a, <3>1, BucketInRange, WorkerFacts
  <2>2. \A t \in Topics, d \in Buckets :
          /\ subs'[t][d] \subseteq subs[t][d]
          /\ mu[t][d] # None => subs'[t][d] = subs[t][d]
    BY <1>3, <1>a, <2>1 DEF Remove, TypeOK
  <2>3. InOwnBucket'
    BY <2>2 DEF InOwnBucket, getShareBucket
  <2>4. IdleWorkers' /\ KnownTopics'
    BY <1>3, <1>a DEF Remove, Returns, IdleWorkers, KnownTopics, workers, TypeOK
  <2>5. MutexHeld'
    BY <1>3, <1>a, <2>1 DEF Remove, Returns, MutexHeld, workers, TypeOK
  <2>6. WriteImpliesSubscribed'
    <3> SUFFICES ASSUME NEW m \in Nodes, NEW d \in Buckets,
                        NEW c \in Targets(m, d)'
                 PROVE  c \in subs'[topic'[m]][d]
      BY DEF WriteImpliesSubscribed
    <3>1. c \in Targets(m, d)
      BY <1>3 DEF Remove, Targets, workers
    <3>2. task[m][d] = "loop"
      BY <3>1 DEF IdleWorkers, Targets
    <3>3. topic'[m] = topic[m] /\ topic[m] \in Topics
      BY <1>3, <1>a, <2>1, <3>2, WorkerFacts DEF Remove, Returns, TypeOK
    <3>4. mu[topic[m]][d] # None
      BY <3>2, PubsubAssumption DEF MutexHeld
    <3>5. QED
      BY <2>2, <3>1, <3>3, <3>4 DEF WriteImpliesSubscribed
  <2>7. OneTopicIsSafe'
    BY <1>3, SafetyKept DEF Remove, conns
  <2>8. QED
    BY <2>3, <2>4, <2>5, <2>6, <2>7
<1>4. ASSUME NEW n \in Nodes, NEW t \in Topics, StartPublish(n, t) PROVE Rest'
  <2>1. \A m \in Nodes, d \in Buckets :
          /\ task[m][d] = "loop" => m # n
          /\ task'[m][d] = "loop" <=> task[m][d] = "loop"
    <3>1. /\ op[n] = "read"
          /\ task' = [task EXCEPT ![n] = [d \in Buckets |-> "wait"]]
      BY <1>4 DEF StartPublish, Starts
    <3>2. \A m \in Nodes, d \in Buckets : task[m][d] = "loop" => m # n
      BY <1>a, <3>1, WorkerFacts
    <3>3. \A m \in Nodes, d \in Buckets :
            task'[m][d] = IF m = n THEN "wait" ELSE task[m][d]
      BY <1>a, <3>1 DEF TypeOK
    <3>4. QED
      BY <3>2, <3>3
  <2>2. InOwnBucket' /\ IdleWorkers'
    BY <1>4, <2>1 DEF StartPublish, tables, InOwnBucket, IdleWorkers
  <2>3. KnownTopics'
    BY <1>4, <1>a DEF StartPublish, Starts, tables, KnownTopics, TypeOK
  <2>4. MutexHeld'
    BY <1>4, <1>a, <2>1 DEF StartPublish, Starts, MutexHeld, TypeOK
  <2>5. WriteImpliesSubscribed'
    BY <1>4, <1>a, <2>1 DEF StartPublish, Starts, tables, IdleWorkers,
       WriteImpliesSubscribed, Targets, TypeOK
  <2>6. OneTopicIsSafe'
    BY <1>4, SafetyKept DEF StartPublish, tables, conns
  <2>7. QED
    BY <2>2, <2>3, <2>4, <2>5, <2>6
<1>5. ASSUME NEW n \in Nodes, EndPublish(n) PROVE Rest'
  <2>1. \A m \in Nodes, d \in Buckets :
          /\ task[m][d] = "loop" => m # n
          /\ task'[m][d] = "loop" <=> task[m][d] = "loop"
    BY <1>5, <1>a DEF EndPublish, TypeOK
  <2>2. InOwnBucket' /\ IdleWorkers'
    BY <1>5, <2>1 DEF EndPublish, tables, InOwnBucket, IdleWorkers
  <2>3. KnownTopics'
    BY <1>5, <1>a DEF EndPublish, Returns, tables, KnownTopics, TypeOK
  <2>4. MutexHeld'
    BY <1>5, <1>a, <2>1 DEF EndPublish, Returns, MutexHeld, TypeOK
  <2>5. WriteImpliesSubscribed'
    BY <1>5, <1>a, <2>1 DEF EndPublish, Returns, tables, IdleWorkers,
       WriteImpliesSubscribed, Targets, TypeOK
  <2>6. OneTopicIsSafe'
    BY <1>5, SafetyKept DEF EndPublish, tables, conns
  <2>7. QED
    BY <2>2, <2>3, <2>4, <2>5, <2>6
<1>6. ASSUME NEW n \in Nodes, NEW b \in Buckets, LockBucket(n, b) PROVE Rest'
  <2>1. op[n] = "publish" /\ topic[n] \in Topics
    BY <1>6, <1>a, WorkerFacts DEF LockBucket
  <2>2. InOwnBucket' /\ KnownTopics'
    BY <1>6 DEF LockBucket, tables, calls, InOwnBucket, KnownTopics
  <2>3. IdleWorkers'
    BY <1>6, <1>a DEF LockBucket, IdleWorkers, TypeOK
  <2>4. MutexHeld'
    BY <1>6, <1>a, <2>1, PubsubAssumption DEF LockBucket, calls, MutexHeld, TypeOK
  <2>5. WriteImpliesSubscribed'
    <3>1. \A m \in Nodes, d \in Buckets :
            /\ writing'[m][d] = writing[m][d]
            /\ ~(m = n /\ d = b) => todo'[m][d] = todo[m][d]
      BY <1>6, <1>a DEF LockBucket, TypeOK
    <3>2. todo'[n][b] = subs[topic[n]][b] /\ writing[n][b] = None
      BY <1>6, <1>a DEF LockBucket, IdleWorkers, TypeOK
    <3>3. QED
      BY <1>6, <3>1, <3>2
         DEF LockBucket, tables, calls, WriteImpliesSubscribed, Targets
  <2>6. OneTopicIsSafe'
    BY <1>6, SafetyKept DEF LockBucket, tables, conns
  <2>7. QED
    BY <2>2, <2>3, <2>4, <2>5, <2>6
<1>7. ASSUME NEW n \in Nodes, NEW b \in Buckets, StartWrite(n, b) PROVE Rest'
  <2>1. PICK c \in todo[n][b] :
          /\ todo' = [todo EXCEPT ![n][b] = @ \ {c}]
          /\ writing' = [writing EXCEPT ![n][b] = c]
          /\ Writers(c) = {} => UNCHANGED <<garbled, panicked>>
    BY <1>7 DEF StartWrite
  <2>2. /\ task[n][b] = "loop" /\ writing[n][b] = None /\ c \in Nodes
        /\ UNCHANGED <<tables, calls, mu, task>>
    BY <1>7, <1>a DEF StartWrite, TypeOK
  <2>3. InOwnBucket' /\ KnownTopics' /\ MutexHeld'
    BY <2>2 DEF tables, calls, InOwnBucket, KnownTopics, MutexHeld
  <2>4. IdleWorkers'
    BY <1>a, <2>1, <2>2 DEF IdleWorkers, TypeOK
  <2>5. WriteImpliesSubscribed'
    <3>1. \A m \in Nodes, d \in Buckets : Targets(m, d)' \subseteq Targets(m, d)
      BY <1>a, <2>1, <2>2 DEF Targets, TypeOK
    <3>2. QED
      BY <2>2, <3>1 DEF WriteImpliesSubscribed, tables, calls
  <2>6. OneTopicIsSafe'
    <3>1. CASE Writers(c) = {}
      BY <2>1, <2>2, <3>1, SafetyKept DEF tables
    <3>2. CASE Writers(c) # {}
      <4>1. PICK m \in Nodes, d \in Buckets : writing[m][d] = c
        BY <3>2 DEF Writers
      <4>2. c \in Targets(n, b) /\ c \in Targets(m, d)
        BY <2>2, <4>1, PubsubAssumption DEF Targets
      <4>3. ~(n = m /\ b = d)
        BY <2>2, <4>1, PubsubAssumption
      <4>4. topic[n] # topic[m]
        BY <2>2, <4>2, <4>3, NoTwoWriters
      <4>5. task[m][d] = "loop"
        BY <4>2 DEF IdleWorkers, Targets
      <4>6. topic[n] \in topics /\ topic[m] \in topics
        BY <1>a, <2>2, <4>5, WorkerFacts DEF KnownTopics
      <4>7. QED
        BY <2>2, <4>4, <4>6 DEF OneTopicIsSafe, OneTopic, tables
    <3>3. QED
      BY <3>1, <3>2
  <2>7. QED
    BY <2>3, <2>4, <2>5, <2>6
<1>8. ASSUME NEW n \in Nodes, NEW b \in Buckets, EndWrite(n, b) PROVE Rest'
  <2>1. /\ writing' = [writing EXCEPT ![n][b] = None]
        /\ UNCHANGED <<tables, calls, mu, task, todo, conns>>
    BY <1>8 DEF EndWrite
  <2>2. InOwnBucket' /\ KnownTopics' /\ MutexHeld'
    BY <2>1 DEF tables, calls, InOwnBucket, KnownTopics, MutexHeld
  <2>3. IdleWorkers'
    BY <1>a, <2>1 DEF IdleWorkers, TypeOK
  <2>4. WriteImpliesSubscribed'
    <3>1. \A m \in Nodes, d \in Buckets : Targets(m, d)' \subseteq Targets(m, d)
      BY <1>a, <2>1 DEF Targets, TypeOK
    <3>2. QED
      BY <2>1, <3>1 DEF WriteImpliesSubscribed, tables, calls
  <2>5. OneTopicIsSafe'
    BY <2>1, SafetyKept DEF tables, conns
  <2>6. QED
    BY <2>2, <2>3, <2>4, <2>5
<1>9. ASSUME NEW n \in Nodes, NEW b \in Buckets, FinishBucket(n, b) PROVE Rest'
  <2>1. /\ task[n][b] = "loop" /\ todo[n][b] = {} /\ writing[n][b] = None
        /\ task' = [task EXCEPT ![n][b] = "done"]
        /\ mu' = [mu EXCEPT ![topic[n]][b] = None]
        /\ UNCHANGED <<tables, calls, todo, writing, conns>>
    BY <1>9 DEF FinishBucket
  <2>2. topic[n] \in Topics
    BY <1>a, <2>1, WorkerFacts
  <2>3. InOwnBucket' /\ KnownTopics' /\ WriteImpliesSubscribed'
    BY <2>1 DEF tables, calls, InOwnBucket, KnownTopics,
       WriteImpliesSubscribed, Targets
  <2>4. IdleWorkers'
    BY <1>a, <2>1 DEF IdleWorkers, TypeOK
  <2>5. MutexHeld'
    <3> SUFFICES ASSUME NEW m \in Nodes, NEW d \in Buckets,
                        task'[m][d] = "loop"
                 PROVE  topic[m] # None /\ mu'[topic[m]][d] = m
      BY <2>1 DEF MutexHeld, calls
    <3>1. task[m][d] = "loop" /\ ~(m = n /\ d = b)
      BY <1>a, <2>1 DEF TypeOK
    <3>2. topic[m] \in Topics /\ mu[topic[m]][d] = m /\ mu[topic[n]][b] = n
      BY <1>a, <2>1, <3>1, WorkerFacts DEF MutexHeld
    <3>3. QED
      BY <1>a, <2>1, <2>2, <3>1, <3>2, PubsubAssumption DEF TypeOK
  <2>6. OneTopicIsSafe'
    BY <2>1, SafetyKept DEF tables, conns
  <2>7. QED
    BY <2>3, <2>4, <2>5, <2>6
<1>10. ASSUME NEW c \in Nodes, Disconnect(c) PROVE Rest'
  <2>1. UNCHANGED <<tables, calls, workers, garbled, panicked>>
    BY <1>10 DEF Disconnect
  <2>2. /\ InOwnBucket' /\ IdleWorkers' /\ KnownTopics' /\ MutexHeld'
        /\ WriteImpliesSubscribed'
    BY <2>1 DEF tables, calls, workers, InOwnBucket, IdleWorkers, KnownTopics,
       MutexHeld, WriteImpliesSubscribed, Targets
  <2>3. QED
    BY <2>1, <2>2, SafetyKept DEF tables
<1>11. CASE UNCHANGED vars
  <2>1. UNCHANGED <<tables, calls, workers, garbled, panicked>>
    BY <1>11 DEF vars, conns
  <2>2. /\ InOwnBucket' /\ IdleWorkers' /\ KnownTopics' /\ MutexHeld'
        /\ WriteImpliesSubscribed'
    BY <2>1 DEF tables, calls, workers, InOwnBucket, IdleWorkers, KnownTopics,
       MutexHeld, WriteImpliesSubscribed, Targets
  <2>3. OneTopicIsSafe'
    BY <2>1, SafetyKept DEF tables
  <2>4. QED
    BY <1>a, <2>2, <2>3
<1>12. QED
  BY <1>a, <1>1, <1>2, <1>3, <1>4, <1>5, <1>6, <1>7, <1>8, <1>9, <1>10,
     <1>11 DEF Next, Call, Worker

\* Types, mutexes and targets in every reachable state.
THEOREM PubsubSafe == Spec => []PubsubInv
  BY InitPubsubInv, StepPubsubInv, PTL DEF Spec

\* Every table, call and goroutine keeps its type, whatever calls overlap.
THEOREM TypeCorrect == Spec => []TypeOK
<1>1. PubsubInv => TypeOK
  BY DEF PubsubInv
<1>2. QED
  BY <1>1, PubsubSafe, PTL

\* A bucket's mutex is held by the one goroutine that loops over it.
THEOREM MutualExclusion == Spec => []MutexHeld
<1>1. PubsubInv => MutexHeld
  BY DEF PubsubInv
<1>2. QED
  BY <1>1, PubsubSafe, PTL

\* A mutex that is taken is held by a goroutine inside its loop, which takes
\* no other: it waits for its write at most.
HeldInLoop ==
  \A t \in Topics, b \in Buckets : mu[t][b] # None =>
    topic[mu[t][b]] = t /\ task[mu[t][b]][b] = "loop"

\* waiter.Add: a publication has a goroutine for each bucket till it returns.
AllStarted ==
  \A n \in Nodes, b \in Buckets : op[n] = "publish" => task[n][b] # "none"

\* Bookkeeping of mutexes that are not touched.
LEMMA MutexesKept ==
  ASSUME TypeOK, HeldInLoop, AllStarted, UNCHANGED mu,
         \A n \in Nodes, b \in Buckets :
           /\ task[n][b] = "loop" => task'[n][b] = "loop" /\ topic'[n] = topic[n]
           /\ op'[n] = "publish" => task'[n][b] # "none"
  PROVE  HeldInLoop' /\ AllStarted'
<1>1. AllStarted'
  BY DEF AllStarted
<1>2. \A t \in Topics, b \in Buckets : mu[t][b] # None => mu[t][b] \in Nodes
  BY DEF TypeOK
<1>3. ASSUME NEW t \in Topics, NEW b \in Buckets, mu'[t][b] # None
      PROVE  topic'[mu'[t][b]] = t /\ task'[mu'[t][b]][b] = "loop"
  <2>1. PICK h \in Nodes : h = mu[t][b] /\ mu'[t][b] = h
    BY <1>2, <1>3
  <2>2. topic[h] = t /\ task[h][b] = "loop"
    BY <1>3, <2>1 DEF HeldInLoop
  <2>3. topic'[h] = topic[h] /\ task'[h][b] = "loop"
    BY <2>1, <2>2
  <2>4. QED
    BY <2>1, <2>2, <2>3
<1>4. QED
  BY <1>1, <1>3 DEF HeldInLoop

\* A mutex is taken by the one who begins its loop, and given back at its end.
LEMMA StepHeldInLoop ==
  PubsubInv /\ HeldInLoop /\ AllStarted /\ [Next]_vars
    => HeldInLoop' /\ AllStarted'
<1> SUFFICES ASSUME PubsubInv, HeldInLoop, AllStarted, [Next]_vars
             PROVE  HeldInLoop' /\ AllStarted'
  OBVIOUS
<1>a. TypeOK
  BY DEF PubsubInv
<1>1. ASSUME NEW n \in Nodes, NEW call, NEW s, op[n] # "publish", call # "publish",
             op' = [op EXCEPT ![n] = call], topic' = [topic EXCEPT ![n] = s],
             mu' = mu, task' = task
      PROVE  HeldInLoop' /\ AllStarted'
  <2>1. op'[n] = call
    BY <1>a, <1>1 DEF TypeOK
  <2>2. \A m \in Nodes : m # n => op'[m] = op[m] /\ topic'[m] = topic[m]
    BY <1>a, <1>1 DEF TypeOK
  <2>3. \A b \in Buckets : task[n][b] = "none"
    BY <1>a, <1>1 DEF TypeOK
  <2>4. \A m \in Nodes, b \in Buckets :
          /\ task[m][b] = "loop" => task'[m][b] = "loop" /\ topic'[m] = topic[m]
          /\ op'[m] = "publish" => task'[m][b] # "none"
    BY <1>1, <2>1, <2>2, <2>3 DEF AllStarted
  <2>5. QED
    BY <1>a, <1>1, <2>4, MutexesKept
<1>2. ASSUME NEW n \in Nodes, NEW t \in Topics, AddTopic(n, t) \/ FindTopic(n, t)
      PROVE  HeldInLoop' /\ AllStarted'
  <2>1. CASE AddTopic(n, t)
    <3>1. /\ op[n] # "publish" /\ "add" # "publish" /\ mu' = mu /\ task' = task
          /\ op' = [op EXCEPT ![n] = "add"] /\ topic' = [topic EXCEPT ![n] = t]
      BY <2>1 DEF AddTopic, Starts, workers
    <3>2. QED
      BY <1>1, <3>1
  <2>2. CASE FindTopic(n, t)
    <3>1. /\ op[n] # "publish" /\ "remove" # "publish" /\ mu' = mu /\ task' = task
          /\ op' = [op EXCEPT ![n] = "remove"] /\ topic' = [topic EXCEPT ![n] = t]
      BY <2>2 DEF FindTopic, Starts, workers
    <3>2. QED
      BY <1>1, <3>1
  <2>3. QED
    BY <1>2, <2>1, <2>2
<1>3. ASSUME NEW n \in Nodes, Add(n) \/ Remove(n)
      PROVE  HeldInLoop' /\ AllStarted'
  <2>1. /\ op[n] # "publish" /\ "read" # "publish" /\ mu' = mu /\ task' = task
        /\ op' = [op EXCEPT ![n] = "read"] /\ topic' = [topic EXCEPT ![n] = None]
    BY <1>3 DEF Add, Remove, Returns, workers
  <2>2. QED
    BY <1>1, <2>1
<1>4. ASSUME NEW n \in Nodes, NEW t \in Topics, StartPublish(n, t)
      PROVE  HeldInLoop' /\ AllStarted'
  <2>1. /\ op[n] = "read" /\ op' = [op EXCEPT ![n] = "publish"]
        /\ topic' = [topic EXCEPT ![n] = t] /\ UNCHANGED mu
        /\ task' = [task EXCEPT ![n] = [b \in Buckets |-> "wait"]]
    BY <1>4 DEF StartPublish, Starts
  <2>2. \A b \in Buckets : task[n][b] = "none"
    BY <1>a, <2>1 DEF TypeOK
  <2>3. task'[n] = [b \in Buckets |-> "wait"]
    BY <1>a, <2>1 DEF TypeOK
  <2>4. \A b \in Buckets : task'[n][b] = "wait"
    BY <2>3
  <2>5. \A m \in Nodes :
          m # n => task'[m] = task[m] /\ topic'[m] = topic[m] /\ op'[m] = op[m]
    BY <1>a, <2>1 DEF TypeOK
  <2>6. \A m \in Nodes, b \in Buckets :
          /\ task[m][b] = "loop" => task'[m][b] = "loop" /\ topic'[m] = topic[m]
          /\ op'[m] = "publish" => task'[m][b] # "none"
    BY <2>2, <2>4, <2>5 DEF AllStarted
  <2>7. QED
    BY <1>a, <2>1, <2>6, MutexesKept
<1>5. ASSUME NEW n \in Nodes, EndPublish(n) PROVE HeldInLoop' /\ AllStarted'
  <2>1. /\ \A b \in Buckets : task[n][b] = "done"
        /\ op' = [op EXCEPT ![n] = "read"] /\ topic' = [topic EXCEPT ![n] = None]
        /\ task' = [task EXCEPT ![n] = [b \in Buckets |-> "none"]] /\ UNCHANGED mu
    BY <1>5 DEF EndPublish, Returns
  <2>2. \A m \in Nodes, b \in Buckets :
          /\ m = n => task[m][b] # "loop" /\ op'[m] = "read"
          /\ m # n => task'[m] = task[m] /\ topic'[m] = topic[m] /\ op'[m] = op[m]
    BY <1>a, <2>1 DEF TypeOK
  <2>3. QED
    BY <1>a, <2>1, <2>2, MutexesKept DEF AllStarted
<1>6. ASSUME NEW n \in Nodes, NEW d \in Buckets, LockBucket(n, d)
      PROVE  HeldInLoop' /\ AllStarted'
  <2>1. /\ task[n][d] = "wait" /\ task' = [task EXCEPT ![n][d] = "loop"]
        /\ mu' = [mu EXCEPT ![topic[n]][d] = n] /\ UNCHANGED <<op, topic>>
    BY <1>6 DEF LockBucket, calls
  <2>2. \A m \in Nodes, b \in Buckets :
          task'[m][b] = IF m = n /\ b = d THEN "loop" ELSE task[m][b]
    BY <1>a, <2>1 DEF TypeOK
  <2>3. topic[n] \in Topics
    BY <1>a, <2>1, WorkerFacts
  <2>4. \A t \in Topics, b \in Buckets :
          mu'[t][b] = IF t = topic[n] /\ b = d THEN n ELSE mu[t][b]
    BY <1>a, <2>1, <2>3 DEF TypeOK
  <2>5. HeldInLoop'
    <3>1. ASSUME NEW t \in Topics, NEW b \in Buckets, mu'[t][b] # None
          PROVE  topic'[mu'[t][b]] = t /\ task'[mu'[t][b]][b] = "loop"
      <4>1. CASE t = topic[n] /\ b = d
        BY <2>1, <2>2, <2>4, <4>1
      <4>2. CASE ~(t = topic[n] /\ b = d)
        <5>1. mu'[t][b] = mu[t][b]
          BY <2>4, <4>2
        <5>2. PICK h \in Nodes : h = mu[t][b]
          BY <1>a, <3>1, <5>1 DEF TypeOK
        <5>3. topic[h] = t /\ task[h][b] = "loop"
          BY <3>1, <5>1, <5>2 DEF HeldInLoop
        <5>4. QED
          BY <2>1, <2>2, <5>1, <5>2, <5>3
      <4>3. QED
        BY <4>1, <4>2
    <3>2. QED
      BY <3>1 DEF HeldInLoop
  <2>6. QED
    BY <2>1, <2>2, <2>5 DEF AllStarted
<1>7. ASSUME NEW n \in Nodes, NEW d \in Buckets, FinishBucket(n, d)
      PROVE  HeldInLoop' /\ AllStarted'
  <2>1. /\ task[n][d] = "loop" /\ task' = [task EXCEPT ![n][d] = "done"]
        /\ mu' = [mu EXCEPT ![topic[n]][d] = None] /\ UNCHANGED <<op, topic>>
    BY <1>7 DEF FinishBucket, calls
  <2>2. \A m \in Nodes, b \in Buckets :
          task'[m][b] = IF m = n /\ b = d THEN "done" ELSE task[m][b]
    BY <1>a, <2>1 DEF TypeOK
  <2>3. topic[n] \in Topics
    BY <1>a, <2>1, WorkerFacts
  <2>4. \A t \in Topics, b \in Buckets :
          mu'[t][b] = IF t = topic[n] /\ b = d THEN None ELSE mu[t][b]
    BY <1>a, <2>1, <2>3 DEF TypeOK
  <2>5. HeldInLoop'
    <3>1. ASSUME NEW t \in Topics, NEW b \in Buckets, mu'[t][b] # None
          PROVE  topic'[mu'[t][b]] = t /\ task'[mu'[t][b]][b] = "loop"
      <4>1. mu'[t][b] = mu[t][b] /\ ~(t = topic[n] /\ b = d)
        BY <2>4, <3>1
      <4>2. PICK h \in Nodes : h = mu[t][b]
        BY <1>a, <3>1, <4>1 DEF TypeOK
      <4>3. topic[h] = t /\ task[h][b] = "loop"
        BY <3>1, <4>1, <4>2 DEF HeldInLoop
      <4>4. QED
        BY <2>1, <2>2, <4>1, <4>2, <4>3
    <3>2. QED
      BY <3>1 DEF HeldInLoop
  <2>6. QED
    BY <2>1, <2>2, <2>5 DEF AllStarted
<1>8. ASSUME UNCHANGED <<op, topic, mu, task>> PROVE HeldInLoop' /\ AllStarted'
  BY <1>8 DEF HeldInLoop, AllStarted
<1>9. ASSUME NEW n \in Nodes, NEW b \in Buckets, StartWrite(n, b) \/ EndWrite(n, b)
      PROVE  HeldInLoop' /\ AllStarted'
  BY <1>8, <1>9 DEF StartWrite, EndWrite, calls
<1>10. ASSUME NEW c \in Nodes, Disconnect(c) PROVE HeldInLoop' /\ AllStarted'
  BY <1>8, <1>10 DEF Disconnect, calls, workers
<1>11. CASE UNCHANGED vars
  BY <1>8, <1>11 DEF vars, calls, workers
<1>12. QED
  BY <1>2, <1>3, <1>4, <1>5, <1>6, <1>7, <1>9, <1>10, <1>11
     DEF Next, Call, Worker

\* Whoever is not served yet waits for a mutex that is free, or for one whose
\* holder is inside its loop and needs no other.
Obtainable(t, b) == mu[t][b] = None \/ task[mu[t][b]][b] = "loop"
NoCircularWait ==
  \A n \in Nodes :
    /\ op[n] \in {"add", "remove"} => Obtainable(topic[n], getShareBucket(n))
    /\ op[n] = "publish" => \A b \in Buckets :
         \/ task[n][b] \in {"loop", "done"}
         \/ task[n][b] = "wait" /\ Obtainable(topic[n], b)

\* Readers, publications and the goroutines of buckets never wait for each
\* other in a circle: what holds up a call is always a write to the network.
THEOREM NobodyWaitsInACircle == Spec => []NoCircularWait
<1>1. Init => HeldInLoop /\ AllStarted
  BY DEF Init, HeldInLoop, AllStarted
<1>2. PubsubInv /\ HeldInLoop /\ AllStarted => NoCircularWait
  <2> SUFFICES ASSUME PubsubInv, HeldInLoop, AllStarted, NEW n \in Nodes
               PROVE  /\ op[n] \in {"add", "remove"} =>
                           Obtainable(topic[n], getShareBucket(n))
                      /\ op[n] = "publish" => \A b \in Buckets :
                           \/ task[n][b] \in {"loop", "done"}
                           \/ task[n][b] = "wait" /\ Obtainable(topic[n], b)
    BY DEF NoCircularWait
  <2>1. \A t \in Topics, b \in Buckets : Obtainable(t, b)
    BY DEF Obtainable, HeldInLoop
  <2>2. op[n] # "read" => topic[n] \in Topics
    BY DEF PubsubInv, TypeOK
  <2>3. \A b \in Buckets : task[n][b] \in {"none", "wait", "loop", "done"}
    BY DEF PubsubInv, TypeOK
  <2>4. getShareBucket(n) \in Buckets
    BY BucketInRange
  <2>5. QED
    BY <2>1, <2>2, <2>3, <2>4 DEF AllStarted
<1>3. QED
  BY <1>1, <1>2, PubsubSafe, StepHeldInLoop, PTL DEF Spec

\* Nothing of a topic is written to a connection after UnSubscribe returned.
THEOREM NoGhostWrites == Spec => []WriteImpliesSubscribed
<1>1. PubsubInv => WriteImpliesSubscribed
  BY DEF PubsubInv
<1>2. QED
  BY <1>1, PubsubSafe, PTL

\* Two writes that meet on one connection belong to different topics.
THEOREM OverlapNeedsTwoTopics == Spec => []OverlapOnlyAcrossTopics
<1>1. PubsubInv => OverlapOnlyAcrossTopics
  <2> SUFFICES ASSUME PubsubInv, NEW c \in Nodes,
                      NEW v \in Writers(c), NEW w \in Writers(c),
                      topic[v[1]] = topic[w[1]]
               PROVE  v = w
    BY DEF OverlapOnlyAcrossTopics
  <2>1. PICK n \in Nodes, b \in Buckets : v = <<n, b>> /\ writing[n][b] = c
    BY DEF Writers
  <2>2. PICK m \in Nodes, d \in Buckets : w = <<m, d>> /\ writing[m][d] = c
    BY DEF Writers
  <2>3. c \in Targets(n, b) /\ c \in Targets(m, d)
    BY <2>1, <2>2, PubsubAssumption DEF Targets
  <2>4. topic[n] = topic[m]
    BY <2>1, <2>2
  <2>5. QED
    BY <2>1, <2>2, <2>3, <2>4, NoTwoWriters
<1>2. QED
  BY <1>1, PubsubSafe, PTL

\* A broker with one topic never panics and never garbles a connection.
THEOREM SingleTopicSafe == Spec => []OneTopicIsSafe
<1>1. PubsubInv => OneTopicIsSafe
  BY DEF PubsubInv
<1>2. QED
  BY <1>1, PubsubSafe, PTL

-----------------------------------------------------------------------------
(* In which order the messages arrive.                                     *)

\* The message that n is publishing, or has published last.
Current(n) == [from |-> n, nr |-> pushed[n]]

\* No message is ahead of what its sender has published.
NoneAhead ==
  \A c \in Nodes : \A i \in DOMAIN inbox[c] :
    inbox[c][i].nr <= pushed[inbox[c][i].from]

\* The connections of bucket b that n's goroutine has not served yet. Those
\* of a goroutine that waits for the mutex are all that hash into b.
Unserved(n, b) ==
  {c \in Nodes : \/ task[n][b] = "wait" /\ getShareBucket(c) = b
                 \/ c \in Targets(n, b)}

\* Nobody has a message already that it is still to be sent.
UnservedHaveNot ==
  \A n \in Nodes, b \in Buckets :
    /\ writing[n][b] \notin todo[n][b]
    /\ \A c \in Unserved(n, b) : Current(n) \notin Received(c)

\* What a goroutine sends while it holds the mutex is the last in every inbox
\* of the bucket that has it.
CurrentIsLast ==
  OneTopic =>
    \A n \in Nodes, b \in Buckets : task[n][b] = "loop" =>
      \A c \in Nodes : getShareBucket(c) = b =>
        \A i \in DOMAIN inbox[c] :
          inbox[c][i] = Current(n) => i = Len(inbox[c])

\* Who is owed a publication is connected, and a goroutine will write to it.
OwedIsPending ==
  \A n \in Nodes : \A c \in owed[n] :
    LET b == getShareBucket(c)
    IN  /\ c \in open \ garbled
        /\ op[n] = "publish" =>
             \/ task[n][b] = "wait" /\ c \in subs[topic[n]][b]
             \/ c \in Targets(n, b)

\* Strengthens PubsubInv.
OrderInv ==
  /\ NoneAhead /\ UnservedHaveNot /\ SenderOrder
  /\ CurrentIsLast /\ BucketOrder /\ OwedIsPending

-----------------------------------------------------------------------------
(* What the steps do.                                                      *)

\* A connection that n's goroutine for b writes to hashes into b.
LEMMA TargetFacts ==
  ASSUME PubsubInv, NEW n \in Nodes, NEW b \in Buckets, NEW c \in Targets(n, b)
  PROVE  /\ c \in Nodes /\ getShareBucket(c) = b
         /\ task[n][b] = "loop" /\ op[n] = "publish" /\ topic[n] \in Topics
<1> USE DEF PubsubInv
<1>1. task[n][b] = "loop"
  BY DEF IdleWorkers, Targets
<1>2. op[n] = "publish" /\ topic[n] \in Topics
  BY <1>1, WorkerFacts
<1>3. c \in Nodes /\ c \in subs[topic[n]][b]
  BY <1>2 DEF WriteImpliesSubscribed, TypeOK
<1>4. QED
  BY <1>1, <1>2, <1>3 DEF InOwnBucket

\* What Append makes of a sequence of messages.
LEMMA AppendFacts ==
  ASSUME NEW s \in Seq(Messages), NEW x \in Messages
  PROVE  /\ Len(s) \in Nat /\ DOMAIN s = 1..Len(s)
         /\ Append(s, x) \in Seq(Messages)
         /\ Len(Append(s, x)) = Len(s) + 1
         /\ DOMAIN Append(s, x) = 1..(Len(s) + 1)
         /\ \A i \in DOMAIN s : s[i] \in Messages /\ Append(s, x)[i] = s[i]
         /\ Append(s, x)[Len(s) + 1] = x
  OBVIOUS

\* What an inbox holds.
LEMMA InboxFacts ==
  ASSUME TypeOK, NEW c \in Nodes
  PROVE  /\ inbox[c] \in Seq(Messages)
         /\ Len(inbox[c]) \in Nat /\ DOMAIN inbox[c] = 1..Len(inbox[c])
         /\ \A i \in DOMAIN inbox[c] :
              /\ inbox[c][i] \in Messages
              /\ inbox[c][i].from \in Nodes /\ inbox[c][i].nr \in Nat
<1>1. inbox[c] \in Seq(Messages)
  BY DEF TypeOK
<1>2. Len(inbox[c]) \in Nat /\ DOMAIN inbox[c] = 1..Len(inbox[c])
  BY <1>1
<1>3. \A i \in DOMAIN inbox[c] : inbox[c][i] \in Messages
  BY <1>1
<1>4. QED
  BY <1>1, <1>2, <1>3 DEF Messages

\* The publication under way is a message.
LEMMA CurrentType ==
  ASSUME TypeOK, NEW n \in Nodes
  PROVE  /\ Current(n) \in Messages
         /\ Current(n).from = n /\ Current(n).nr = pushed[n] /\ pushed[n] \in Nat
  BY DEF TypeOK, Messages, Current

\* The end of a WriteMessage appends the current message to one inbox, or
\* fails and appends nothing.
Delivers(n, c) ==
  /\ inbox' = [inbox EXCEPT ![c] = Append(@, Current(n))]
  /\ owed' = [owed EXCEPT ![n] = @ \ {c}]

\* The end of a write changes the inbox of its target or nothing.
LEMMA WriteFacts ==
  ASSUME PubsubInv, NEW n \in Nodes, NEW b \in Buckets, EndWrite(n, b)
  PROVE  LET c == writing[n][b]
         IN  /\ c \in Targets(n, b)
             /\ writing' = [writing EXCEPT ![n][b] = None]
             /\ UNCHANGED <<tables, calls, mu, task, todo, conns>>
             /\ \/ c \in open \ garbled /\ Delivers(n, c)
                \/ c \notin open \ garbled /\ UNCHANGED <<inbox, owed>>
<1>1. writing[n][b] \in Targets(n, b)
  BY DEF EndWrite, Targets
<1>2. QED
  BY <1>1 DEF EndWrite, Delivers, Current

\* The inboxes afterwards.
LEMMA DeliveredFacts ==
  ASSUME TypeOK, NEW n \in Nodes, NEW c \in Nodes, Delivers(n, c)
  PROVE  /\ \A d \in Nodes \ {c} : inbox'[d] = inbox[d]
         /\ inbox'[c] = Append(inbox[c], Current(n))
         /\ Len(inbox'[c]) = Len(inbox[c]) + 1
         /\ DOMAIN inbox'[c] = 1..(Len(inbox[c]) + 1)
         /\ \A i \in DOMAIN inbox[c] : inbox'[c][i] = inbox[c][i]
         /\ inbox'[c][Len(inbox[c]) + 1] = Current(n)
<1>1. /\ inbox'[c] = Append(inbox[c], Current(n))
      /\ \A d \in Nodes \ {c} : inbox'[d] = inbox[d]
  BY DEF Delivers, TypeOK
<1>2. QED
  BY <1>1, AppendFacts, CurrentType, InboxFacts

\* Only the start of a publication and the end of a write touch messages.
LEMMA InboxSteps ==
  ASSUME [Next]_vars
  PROVE  \/ UNCHANGED <<inbox, pushed>>
         \/ \E n \in Nodes, t \in Topics : StartPublish(n, t)
         \/ \E n \in Nodes, b \in Buckets : EndWrite(n, b)
  BY DEF Next, vars, Call, Worker, AddTopic, Add, FindTopic, Remove, EndPublish,
     LockBucket, StartWrite, FinishBucket, Disconnect, calls, history

-----------------------------------------------------------------------------
(* The order of one sender's messages.                                     *)

\* No message is received before it is published.
LEMMA StepNoneAhead == PubsubInv /\ NoneAhead /\ [Next]_vars => NoneAhead'
<1> SUFFICES ASSUME PubsubInv, NoneAhead, [Next]_vars PROVE NoneAhead'
  OBVIOUS
<1>a. TypeOK
  BY DEF PubsubInv
<1>1. CASE UNCHANGED <<inbox, pushed>>
  BY <1>1 DEF NoneAhead
<1>2. ASSUME NEW n \in Nodes, NEW t \in Topics, StartPublish(n, t)
      PROVE  NoneAhead'
  <2>1. /\ inbox' = inbox
        /\ \A m \in Nodes : pushed[m] <= pushed'[m] /\ pushed'[m] \in Nat
    BY <1>2, <1>a DEF StartPublish, TypeOK
  <2>2. QED
    BY <1>a, <2>1, InboxFacts DEF NoneAhead, TypeOK
<1>3. ASSUME NEW n \in Nodes, NEW b \in Buckets, EndWrite(n, b)
      PROVE  NoneAhead'
  <2>1. pushed' = pushed /\ writing[n][b] \in Nodes
    BY <1>3, WriteFacts, TargetFacts DEF calls
  <2>2. CASE UNCHANGED inbox
    BY <2>1, <2>2 DEF NoneAhead
  <2>3. CASE Delivers(n, writing[n][b])
    <3> DEFINE c == writing[n][b]
    <3>1. SUFFICES ASSUME NEW d \in Nodes, NEW i \in DOMAIN inbox'[d]
                   PROVE  inbox'[d][i].nr <= pushed[inbox'[d][i].from]
      BY <2>1 DEF NoneAhead
    <3>2. CASE d # c \/ i \in DOMAIN inbox[c]
      <4>1. i \in DOMAIN inbox[d] /\ inbox'[d][i] = inbox[d][i]
        BY <1>a, <2>1, <2>3, <3>2, DeliveredFacts
      <4>2. QED
        BY <4>1 DEF NoneAhead
    <3>3. CASE d = c /\ i \notin DOMAIN inbox[c]
      <4>1. inbox'[d][i] = Current(n)
        BY <1>a, <2>1, <2>3, <3>3, DeliveredFacts, InboxFacts
      <4>2. QED
        BY <1>a, <4>1, CurrentType
    <3>4. QED
      BY <3>2, <3>3
  <2>4. QED
    BY <1>3, <2>2, <2>3, WriteFacts
<1>4. QED
  BY <1>1, <1>2, <1>3, InboxSteps

\* The order of each sender is kept, since a target that waits has not the
\* message yet.
LEMMA StepSenderOrder ==
  PubsubInv /\ NoneAhead /\ UnservedHaveNot /\ SenderOrder /\ [Next]_vars
    => SenderOrder'
<1> SUFFICES ASSUME PubsubInv, NoneAhead, UnservedHaveNot, SenderOrder,
                    [Next]_vars
             PROVE  SenderOrder'
  OBVIOUS
<1>a. TypeOK
  BY DEF PubsubInv
<1>1. CASE UNCHANGED inbox
  BY <1>1 DEF SenderOrder
<1>2. ASSUME NEW n \in Nodes, NEW b \in Buckets, EndWrite(n, b)
      PROVE  SenderOrder'
  <2> DEFINE c == writing[n][b]
  <2>1. c \in Nodes /\ c \in Targets(n, b)
    BY <1>2, WriteFacts, TargetFacts
  <2>2. CASE Delivers(n, c)
    <3>1. \A i \in DOMAIN inbox[c] :
            inbox[c][i].from = n => inbox[c][i].nr < pushed[n]
      <4> SUFFICES ASSUME NEW i \in DOMAIN inbox[c], inbox[c][i].from = n
                   PROVE  inbox[c][i].nr < pushed[n]
        OBVIOUS
      <4>1. inbox[c][i].nr <= pushed[n]
        BY <2>1 DEF NoneAhead
      <4>2. inbox[c][i] # Current(n)
        BY <2>1 DEF UnservedHaveNot, Unserved, Received
      <4>3. inbox[c][i].nr # pushed[n]
        BY <1>a, <2>1, <4>2, InboxFacts DEF Current, Messages
      <4>4. QED
        BY <1>a, <2>1, <4>1, <4>3, InboxFacts, CurrentType
    <3>2. SUFFICES ASSUME NEW d \in Nodes,
                          NEW i \in DOMAIN inbox'[d], NEW j \in DOMAIN inbox'[d],
                          i < j, inbox'[d][i].from = inbox'[d][j].from
                   PROVE  inbox'[d][i].nr < inbox'[d][j].nr
      BY DEF SenderOrder
    <3>3. CASE d # c
      BY <1>a, <2>1, <2>2, <3>2, <3>3, DeliveredFacts DEF SenderOrder
    <3>4. CASE d = c /\ j \in DOMAIN inbox[c]
      <4>1. i \in DOMAIN inbox[c]
        BY <1>a, <2>1, <2>2, <3>2, <3>4, DeliveredFacts, InboxFacts
      <4>2. QED
        BY <1>a, <2>1, <2>2, <3>2, <3>4, <4>1, DeliveredFacts DEF SenderOrder
    <3>5. CASE d = c /\ j \notin DOMAIN inbox[c]
      <4>1. i \in DOMAIN inbox[c] /\ j = Len(inbox[c]) + 1
        BY <1>a, <2>1, <2>2, <3>2, <3>5, DeliveredFacts, InboxFacts
      <4>2. inbox'[d][i] = inbox[c][i] /\ inbox'[d][j] = Current(n)
        BY <1>a, <2>1, <2>2, <3>5, <4>1, DeliveredFacts
      <4>3. QED
        BY <1>a, <2>1, <3>1, <3>2, <4>1, <4>2, CurrentType
    <3>6. QED
      BY <3>3, <3>4, <3>5
  <2>3. QED
    BY <1>1, <1>2, <2>2, WriteFacts
<1>3. QED
  BY <1>1, <1>2, InboxSteps DEF StartPublish

-----------------------------------------------------------------------------
(* Nobody is sent a message twice.                                         *)

\* It is enough that nobody new is unserved and nobody got a message.
LEMMA UnservedShrinks ==
  ASSUME UnservedHaveNot, UNCHANGED <<inbox, pushed>>,
         \A n \in Nodes, b \in Buckets :
           /\ writing'[n][b] \notin todo'[n][b]
           /\ Unserved(n, b)' \subseteq Unserved(n, b)
  PROVE  UnservedHaveNot'
  BY DEF UnservedHaveNot, Received, Current

\* Whoever is still to be written to does not have the message.
LEMMA StepUnserved ==
  PubsubInv /\ NoneAhead /\ UnservedHaveNot /\ [Next]_vars => UnservedHaveNot'
<1> SUFFICES ASSUME PubsubInv, NoneAhead, UnservedHaveNot, [Next]_vars
             PROVE  UnservedHaveNot'
  OBVIOUS
<1>a. TypeOK
  BY DEF PubsubInv
<1>1. CASE UNCHANGED <<inbox, pushed, task, todo, writing>>
  BY <1>1 DEF UnservedHaveNot, Unserved, Targets, Received, Current
<1>2. ASSUME NEW n \in Nodes, NEW t \in Topics, StartPublish(n, t)
      PROVE  UnservedHaveNot'
  <2>1. /\ UNCHANGED <<inbox, todo, writing>>
        /\ pushed' = [pushed EXCEPT ![n] = @ + 1]
        /\ \A m \in Nodes \ {n} : task'[m] = task[m]
    BY <1>2, <1>a DEF StartPublish, TypeOK
  <2>2. SUFFICES ASSUME NEW m \in Nodes, NEW b \in Buckets,
                        NEW c \in Unserved(m, b)'
                 PROVE  Current(m)' \notin Received(c)'
    BY <2>1 DEF UnservedHaveNot
  <2>3. c \in Nodes /\ Received(c)' = Received(c)
    BY <2>1 DEF Unserved, Received
  <2>4. CASE m = n
    <3>1. \A i \in DOMAIN inbox[c] :
            inbox[c][i].from = n => inbox[c][i].nr < pushed'[n]
      BY <1>a, <2>1, <2>3, InboxFacts, CurrentType DEF NoneAhead, TypeOK
    <3>2. Current(n)'.from = n /\ Current(n)'.nr = pushed'[n] /\ pushed'[n] \in Nat
      BY <1>a, <2>1 DEF Current, TypeOK
    <3>3. ASSUME NEW i \in DOMAIN inbox[c], inbox[c][i] = Current(n)' PROVE FALSE
      BY <1>a, <2>3, <3>1, <3>2, <3>3, InboxFacts
    <3>4. QED
      BY <2>3, <2>4, <3>3 DEF Received
  <2>5. CASE m # n
    <3>1. c \in Unserved(m, b) /\ Current(m)' = Current(m)
      BY <1>a, <2>1, <2>5 DEF Unserved, Targets, Current, TypeOK
    <3>2. QED
      BY <2>3, <3>1 DEF UnservedHaveNot
  <2>6. QED
    BY <2>4, <2>5
<1>3. ASSUME NEW n \in Nodes, EndPublish(n) PROVE UnservedHaveNot'
  <2>1. /\ UNCHANGED <<inbox, pushed, todo, writing>>
        /\ \A m \in Nodes, b \in Buckets : task'[m][b] = "wait" => task[m][b] = "wait"
    BY <1>3, <1>a DEF EndPublish, history, TypeOK
  <2>2. QED
    BY <2>1, UnservedShrinks DEF Unserved, Targets, UnservedHaveNot
<1>4. ASSUME NEW n \in Nodes, NEW b \in Buckets, LockBucket(n, b)
      PROVE  UnservedHaveNot'
  <2>1. /\ task[n][b] = "wait" /\ UNCHANGED <<inbox, pushed, writing>>
        /\ writing[n][b] = None
        /\ \A m \in Nodes, d \in Buckets : ~(m = n /\ d = b) =>
             task'[m][d] = task[m][d] /\ todo'[m][d] = todo[m][d]
        /\ task'[n][b] = "loop" /\ todo'[n][b] = subs[topic[n]][b]
    BY <1>4, <1>a DEF LockBucket, calls, history, TypeOK, PubsubInv, IdleWorkers
  <2>2. op[n] = "publish" /\ topic[n] \in Topics
    BY <1>a, <2>1, WorkerFacts
  <2>3. /\ todo'[n][b] \subseteq {c \in Nodes : getShareBucket(c) = b}
        /\ None \notin todo'[n][b]
    BY <1>a, <2>1, <2>2, PubsubAssumption DEF PubsubInv, InOwnBucket, TypeOK
  <2>4. \A m \in Nodes, d \in Buckets : Unserved(m, d)' \subseteq Unserved(m, d)
    BY <2>1, <2>3 DEF Unserved, Targets, getShareBucket
  <2>5. \A m \in Nodes, d \in Buckets : writing'[m][d] \notin todo'[m][d]
    BY <2>1, <2>3 DEF UnservedHaveNot
  <2>6. QED
    BY <2>1, <2>4, <2>5, UnservedShrinks
<1>5. ASSUME NEW n \in Nodes, NEW b \in Buckets, StartWrite(n, b)
      PROVE  UnservedHaveNot'
  <2>1. PICK c \in todo[n][b] :
          /\ todo' = [todo EXCEPT ![n][b] = @ \ {c}]
          /\ writing' = [writing EXCEPT ![n][b] = c]
    BY <1>5 DEF StartWrite
  <2>2. UNCHANGED <<inbox, pushed, task>>
    BY <1>5 DEF StartWrite, calls
  <2>3. \A m \in Nodes, d \in Buckets :
          /\ writing'[m][d] \notin todo'[m][d]
          /\ Targets(m, d)' \subseteq Targets(m, d)
    BY <1>a, <2>1 DEF Targets, TypeOK, UnservedHaveNot
  <2>4. QED
    BY <2>2, <2>3, UnservedShrinks DEF Unserved, getShareBucket
<1>6. ASSUME NEW n \in Nodes, NEW b \in Buckets, EndWrite(n, b)
      PROVE  UnservedHaveNot'
  <2> DEFINE c == writing[n][b]
  <2>1. /\ c \in Nodes /\ c \in Targets(n, b) /\ getShareBucket(c) = b
        /\ task[n][b] = "loop" /\ c \notin todo[n][b]
        /\ UNCHANGED <<pushed, task, todo>>
        /\ writing' = [writing EXCEPT ![n][b] = None]
    BY <1>6, WriteFacts, TargetFacts DEF UnservedHaveNot, calls
  <2>2. \A m \in Nodes, d \in Buckets :
          /\ writing'[m][d] \notin todo'[m][d]
          /\ Unserved(m, d)' \subseteq Unserved(m, d)
    <3>1. \A m \in Nodes, d \in Buckets :
            writing'[m][d] = IF m = n /\ d = b THEN None ELSE writing[m][d]
      BY <1>a, <2>1 DEF TypeOK
    <3>2. \A m \in Nodes, d \in Buckets : None \notin todo[m][d]
      BY <1>a, PubsubAssumption DEF TypeOK
    <3>3. \A m \in Nodes, d \in Buckets : Targets(m, d)' \subseteq Targets(m, d)
      BY <2>1, <3>1 DEF Targets
    <3>4. QED
      BY <2>1, <3>1, <3>2, <3>3 DEF Unserved, getShareBucket, UnservedHaveNot
  <2>3. CASE UNCHANGED inbox
    BY <2>1, <2>2, <2>3, UnservedShrinks
  <2>4. CASE Delivers(n, c)
    <3>1. SUFFICES ASSUME NEW m \in Nodes, NEW d \in Buckets,
                          NEW e \in Unserved(m, d)'
                   PROVE  Current(m)' \notin Received(e)'
      BY <2>2 DEF UnservedHaveNot
    <3>2. e \in Nodes /\ Current(m)' = Current(m) /\ Current(m) \notin Received(e)
      BY <2>1, <2>2 DEF Unserved, UnservedHaveNot, Current
    <3>3. e = c => m # n
      <4> SUFFICES ASSUME e = c, m = n PROVE FALSE
        OBVIOUS
      <4>1. d # b => c \notin Unserved(n, d)
        <5> SUFFICES ASSUME d # b, c \in Unserved(n, d) PROVE FALSE
          OBVIOUS
        <5>1. getShareBucket(c) = d
          BY TargetFacts DEF Unserved
        <5>2. QED
          BY <2>1, <5>1
      <4>2. c \notin Unserved(n, b)'
        BY <1>a, <2>1, PubsubAssumption DEF Unserved, Targets, TypeOK
      <4>3. QED
        BY <2>2, <4>1, <4>2
    <3>4. Received(e)' \subseteq Received(e) \cup (IF e = c THEN {Current(n)} ELSE {})
      <4>1. CASE e # c
        BY <1>a, <2>1, <2>4, <3>2, <4>1, DeliveredFacts DEF Received
      <4>2. CASE e = c
        <5>1. \A i \in DOMAIN inbox'[c] :
                i \in DOMAIN inbox[c] \/ i = Len(inbox[c]) + 1
          BY <1>a, <2>1, <2>4, DeliveredFacts, InboxFacts
        <5>2. QED
          BY <1>a, <2>1, <2>4, <4>2, <5>1, DeliveredFacts DEF Received
      <4>3. QED
        BY <4>1, <4>2
    <3>5. m # n => Current(m) # Current(n)
      BY <1>a, CurrentType
    <3>6. QED
      BY <3>2, <3>3, <3>4, <3>5
  <2>5. QED
    BY <1>6, <2>3, <2>4, WriteFacts
<1>7. ASSUME NEW n \in Nodes, NEW b \in Buckets, FinishBucket(n, b)
      PROVE  UnservedHaveNot'
  <2>1. /\ UNCHANGED <<inbox, pushed, todo, writing>>
        /\ \A m \in Nodes, d \in Buckets : task'[m][d] = "wait" => task[m][d] = "wait"
    BY <1>7, <1>a DEF FinishBucket, calls, history, TypeOK
  <2>2. QED
    BY <2>1, UnservedShrinks DEF Unserved, Targets, UnservedHaveNot
<1>8. QED
  BY <1>1, <1>2, <1>3, <1>4, <1>5, <1>6, <1>7
     DEF Next, vars, Call, Worker, AddTopic, Add, FindTopic, Remove, Disconnect,
         calls, workers, history

-----------------------------------------------------------------------------
(* The order within a bucket.                                              *)

\* Topics are not forgotten, so with one now there was never a second.
LEMMA OneTopicKept == [Next]_vars /\ OneTopic' => OneTopic
<1>1. [Next]_vars => topics \subseteq topics'
  BY DEF Next, vars, Call, Worker, AddTopic, FindTopic, StartPublish, Add, Remove,
     EndPublish, LockBucket, StartWrite, EndWrite, FinishBucket, Disconnect, tables
<1>2. QED
  BY <1>1 DEF OneTopic

\* With one topic the goroutine that writes to a connection is the only one
\* that loops over its bucket.
LEMMA OneLooper ==
  ASSUME PubsubInv, OneTopic,
         NEW n \in Nodes, NEW m \in Nodes, NEW b \in Buckets,
         task[n][b] = "loop", task[m][b] = "loop"
  PROVE  n = m
<1> USE DEF PubsubInv
<1>1. /\ op[n] = "publish" /\ topic[n] \in Topics
      /\ op[m] = "publish" /\ topic[m] \in Topics
  BY WorkerFacts
<1>2. topic[n] = topic[m]
  BY <1>1 DEF KnownTopics, OneTopic
<1>3. QED
  BY <1>2 DEF MutexHeld

\* An inbox as it was, or with the message just delivered at its end.
LEMMA PlaceAfter ==
  ASSUME TypeOK, NEW n \in Nodes, NEW c \in Nodes, Delivers(n, c),
         NEW d \in Nodes, NEW i \in DOMAIN inbox'[d]
  PROVE  \/ i \in DOMAIN inbox[d] /\ inbox'[d][i] = inbox[d][i]
         \/ d = c /\ i = Len(inbox[c]) + 1 /\ i = Len(inbox'[c])
            /\ inbox'[d][i] = Current(n)
<1>1. CASE d # c
  BY <1>1, DeliveredFacts
<1>2. CASE d = c
  <2>1. i \in DOMAIN inbox[c] \/ i = Len(inbox[c]) + 1
    BY <1>2, DeliveredFacts, InboxFacts
  <2>2. QED
    BY <1>2, <2>1, DeliveredFacts
<1>3. QED
  BY <1>1, <1>2

\* Whoever has the message of a loop that goes on has nothing after it.
LEMMA StepCurrentIsLast ==
  PubsubInv /\ UnservedHaveNot /\ CurrentIsLast /\ [Next]_vars => CurrentIsLast'
<1> SUFFICES ASSUME PubsubInv, UnservedHaveNot, CurrentIsLast, [Next]_vars,
                    OneTopic',
                    NEW n \in Nodes, NEW b \in Buckets, task'[n][b] = "loop",
                    NEW c \in Nodes, getShareBucket(c) = b,
                    NEW i \in DOMAIN inbox'[c], inbox'[c][i] = Current(n)'
             PROVE  i = Len(inbox'[c])
  BY DEF CurrentIsLast, getShareBucket
<1>a. TypeOK /\ OneTopic
  BY OneTopicKept DEF PubsubInv
\* A goroutine that has just got the mutex has sent nothing yet.
<1>1. task[n][b] # "none" /\ pushed'[n] = pushed[n]
  <2>1. CASE UNCHANGED <<task, pushed>>
    BY <2>1
  <2>2. ASSUME NEW m \in Nodes, NEW t \in Topics, StartPublish(m, t)
        PROVE  task[n][b] # "none" /\ pushed'[n] = pushed[n]
    BY <1>a, <2>2 DEF StartPublish, TypeOK
  <2>3. ASSUME NEW m \in Nodes, EndPublish(m)
        PROVE  task[n][b] # "none" /\ pushed'[n] = pushed[n]
    BY <1>a, <2>3 DEF EndPublish, TypeOK
  <2>4. ASSUME NEW m \in Nodes, NEW d \in Buckets, LockBucket(m, d)
        PROVE  task[n][b] # "none" /\ pushed'[n] = pushed[n]
    BY <1>a, <2>4 DEF LockBucket, calls, TypeOK
  <2>5. ASSUME NEW m \in Nodes, NEW d \in Buckets, FinishBucket(m, d)
        PROVE  task[n][b] # "none" /\ pushed'[n] = pushed[n]
    BY <1>a, <2>5 DEF FinishBucket, calls, TypeOK
  <2>6. QED
    BY <2>1, <2>2, <2>3, <2>4, <2>5
       DEF Next, vars, Call, Worker, AddTopic, Add, FindTopic, Remove,
           StartWrite, EndWrite, Disconnect, calls, workers
<1>2. Current(n)' = Current(n)
  BY <1>1 DEF Current
<1>3. CASE i \in DOMAIN inbox[c] /\ inbox'[c][i] = inbox[c][i]
  <2>1. Current(n) \in Received(c)
    BY <1>2, <1>3 DEF Received
  <2>2. task[n][b] # "wait"
    BY <2>1 DEF UnservedHaveNot, Unserved
  <2>3. task[n][b] = "loop"
    <3>1. CASE task'[n][b] = task[n][b]
      BY <3>1
    <3>2. ASSUME NEW m \in Nodes, NEW d \in Buckets, LockBucket(m, d)
          PROVE  task[n][b] = "loop"
      BY <1>a, <2>2, <3>2 DEF LockBucket, TypeOK
    <3>3. ASSUME NEW m \in Nodes, NEW d \in Buckets, FinishBucket(m, d)
          PROVE  task[n][b] = "loop"
      BY <1>a, <3>3 DEF FinishBucket, TypeOK
    <3>4. ASSUME NEW m \in Nodes, EndPublish(m) PROVE task[n][b] = "loop"
      BY <1>a, <3>4 DEF EndPublish, TypeOK
    <3>5. ASSUME NEW m \in Nodes, NEW t \in Topics, StartPublish(m, t)
          PROVE  task[n][b] = "loop"
      BY <1>a, <3>5 DEF StartPublish, TypeOK
    <3>6. QED
      BY <3>1, <3>2, <3>3, <3>4, <3>5
         DEF Next, vars, Call, Worker, AddTopic, Add, FindTopic, Remove,
             StartWrite, EndWrite, Disconnect, calls, workers
  <2>4. i = Len(inbox[c])
    BY <1>a, <1>2, <1>3, <2>3 DEF CurrentIsLast
  <2>5. CASE UNCHANGED inbox
    BY <2>4, <2>5
  <2>6. ASSUME NEW m \in Nodes, NEW d \in Buckets, EndWrite(m, d),
               Delivers(m, c), c = writing[m][d]
        PROVE  FALSE
    <3>1. c \in Targets(m, d) /\ task[m][d] = "loop" /\ d = b
      BY <2>6, WriteFacts, TargetFacts
    <3>2. m = n
      BY <1>a, <2>3, <3>1, OneLooper
    <3>3. QED
      BY <2>1, <3>1, <3>2 DEF UnservedHaveNot, Unserved
  <2>7. ASSUME NEW m \in Nodes, NEW d \in Buckets, EndWrite(m, d),
               Delivers(m, writing[m][d]), c # writing[m][d]
        PROVE  inbox'[c] = inbox[c]
    BY <1>a, <2>7, WriteFacts, TargetFacts, DeliveredFacts
  <2>8. QED
    BY <2>4, <2>5, <2>6, <2>7, InboxSteps, WriteFacts DEF StartPublish
<1>4. CASE ~(i \in DOMAIN inbox[c] /\ inbox'[c][i] = inbox[c][i])
  <2>1. PICK m \in Nodes, d \in Buckets :
          EndWrite(m, d) /\ Delivers(m, writing[m][d])
    BY <1>4, InboxSteps, WriteFacts DEF StartPublish
  <2>2. writing[m][d] \in Nodes
    BY <2>1, WriteFacts, TargetFacts
  <2>3. QED
    BY <1>4, <1>a, <2>1, <2>2, PlaceAfter
<1>5. QED
  BY <1>3, <1>4

\* Inboxes of one bucket grow in the same order.
LEMMA StepBucketOrder ==
  PubsubInv /\ UnservedHaveNot /\ CurrentIsLast /\ BucketOrder /\ [Next]_vars
    => BucketOrder'
<1> SUFFICES ASSUME PubsubInv, UnservedHaveNot, CurrentIsLast, BucketOrder,
                    [Next]_vars, OneTopic',
                    NEW c \in Nodes, NEW d \in Nodes,
                    getShareBucket(c) = getShareBucket(d),
                    NEW x, NEW y, Before(c, x, y)', Before(d, y, x)'
             PROVE  FALSE
  BY DEF BucketOrder, getShareBucket
<1>a. TypeOK /\ OneTopic
  BY OneTopicKept DEF PubsubInv
<1>1. PICK i \in DOMAIN inbox'[c], j \in DOMAIN inbox'[c] :
        i < j /\ inbox'[c][i] = x /\ inbox'[c][j] = y
  BY DEF Before
<1>2. PICK k \in DOMAIN inbox'[d], l \in DOMAIN inbox'[d] :
        k < l /\ inbox'[d][k] = y /\ inbox'[d][l] = x
  BY DEF Before
<1>3. CASE UNCHANGED inbox
  BY <1>a, <1>1, <1>2, <1>3 DEF BucketOrder, Before, Received
<1>4. ASSUME NEW n \in Nodes, NEW b \in Buckets, EndWrite(n, b),
             Delivers(n, writing[n][b])
      PROVE  FALSE
  <2> DEFINE e == writing[n][b]
             m == Current(n)
  <2>1. e \in Nodes /\ getShareBucket(e) = b /\ task[n][b] = "loop"
    BY <1>4, WriteFacts, TargetFacts
  <2>2. m \notin Received(e)
    BY <1>4, <2>1, WriteFacts DEF UnservedHaveNot, Unserved
  \* The message just delivered comes last wherever it is.
  <2>3. ASSUME NEW f \in Nodes, getShareBucket(f) = b,
               NEW p \in DOMAIN inbox'[f], inbox'[f][p] = m
        PROVE  p = Len(inbox'[f])
    <3>1. CASE p \in DOMAIN inbox[f] /\ inbox'[f][p] = inbox[f][p]
      <4>1. f # e
        BY <2>2, <2>3, <3>1 DEF Received
      <4>2. inbox'[f] = inbox[f]
        BY <1>4, <1>a, <2>1, <4>1, DeliveredFacts
      <4>3. QED
        BY <1>a, <2>1, <2>3, <4>2 DEF CurrentIsLast
    <3>2. QED
      BY <1>4, <1>a, <2>1, <2>3, <3>1, PlaceAfter
  <2>4. \A f \in Nodes :
          /\ Len(inbox'[f]) \in Nat /\ DOMAIN inbox'[f] = 1..Len(inbox'[f])
    <3>1. TypeOK'
      BY <1>a, StepTypeOK
    <3>2. QED
      BY <3>1 DEF TypeOK
  <2>5. CASE getShareBucket(c) = b
    <3>1. x # m /\ y # m
      <4>1. i # Len(inbox'[c])
        BY <1>1, <2>4
      <4>2. k # Len(inbox'[d])
        BY <1>2, <2>4
      <4>3. getShareBucket(d) = b
        BY <2>5
      <4>4. QED
        BY <1>1, <1>2, <2>3, <2>5, <4>1, <4>2, <4>3
    <3>2. /\ i \in DOMAIN inbox[c] /\ inbox[c][i] = x
          /\ j \in DOMAIN inbox[c] /\ inbox[c][j] = y
          /\ k \in DOMAIN inbox[d] /\ inbox[d][k] = y
          /\ l \in DOMAIN inbox[d] /\ inbox[d][l] = x
      BY <1>1, <1>2, <1>4, <1>a, <2>1, <3>1, PlaceAfter
    <3>3. QED
      BY <1>a, <1>1, <1>2, <3>2 DEF BucketOrder, Before, Received
  <2>6. CASE getShareBucket(c) # b
    <3>1. inbox'[c] = inbox[c] /\ inbox'[d] = inbox[d]
      BY <1>4, <1>a, <2>1, <2>6, DeliveredFacts
    <3>2. QED
      BY <1>a, <1>1, <1>2, <3>1 DEF BucketOrder, Before, Received
  <2>7. QED
    BY <2>5, <2>6
<1>5. QED
  BY <1>3, <1>4, InboxSteps, WriteFacts DEF StartPublish

-----------------------------------------------------------------------------
(* What is owed.                                                           *)

\* It is enough that no new debt is made, that those of a call stay with it,
\* and that the goroutines still have the connections before them.
Pending(n, c) ==
  LET b == getShareBucket(c)
  IN  \/ task[n][b] = "wait" /\ c \in subs[topic[n]][b]
      \/ c \in Targets(n, b)

\* Debts that are only paid or struck off stay with their publications.
LEMMA DebtShrinks ==
  ASSUME OwedIsPending,
         \A n \in Nodes : \A c \in owed'[n] :
           /\ c \in owed[n]
           /\ c \in open \ garbled => c \in open' \ garbled'
           /\ op'[n] = "publish" => op[n] = "publish"
           /\ op'[n] = "publish" /\ Pending(n, c) => Pending(n, c)'
  PROVE  OwedIsPending'
  BY DEF OwedIsPending, Pending, getShareBucket

\* What a publication owes, a goroutine of it has still to write.
LEMMA StepOwed ==
  PubsubInv /\ UnservedHaveNot /\ OwedIsPending /\ [Next]_vars => OwedIsPending'
<1> SUFFICES ASSUME PubsubInv, UnservedHaveNot, OwedIsPending, [Next]_vars
             PROVE  OwedIsPending'
  OBVIOUS
<1>a. TypeOK /\ \A n \in Nodes : \A c \in owed[n] :
                 c \in Nodes /\ getShareBucket(c) \in Buckets
  BY BucketInRange DEF PubsubInv, TypeOK
<1>1. ASSUME NEW n \in Nodes, NEW t \in Topics,
             AddTopic(n, t) \/ FindTopic(n, t)
      PROVE  OwedIsPending'
  <2>1. /\ op' \in {[op EXCEPT ![n] = "add"], [op EXCEPT ![n] = "remove"]}
        /\ topic' = [topic EXCEPT ![n] = t]
        /\ UNCHANGED <<subs, workers, conns, history>>
    BY <1>1 DEF AddTopic, FindTopic, Starts, tables
  <2>2. /\ op'[n] # "publish"
        /\ \A m \in Nodes \ {n} : op'[m] = op[m] /\ topic'[m] = topic[m]
    BY <1>a, <2>1 DEF TypeOK
  <2>3. QED
    BY <2>1, <2>2, DebtShrinks DEF Pending, Targets, getShareBucket, workers, conns,
       history
<1>2. ASSUME NEW n \in Nodes, Add(n) PROVE OwedIsPending'
  <2>1. topic[n] \in Topics /\ getShareBucket(n) \in Buckets
    BY <1>2, <1>a, BucketInRange DEF Add, TypeOK
  <2>2. /\ op'[n] # "publish"
        /\ \A m \in Nodes \ {n} : op'[m] = op[m] /\ topic'[m] = topic[m]
        /\ \A t \in Topics, d \in Buckets : subs[t][d] \subseteq subs'[t][d]
        /\ UNCHANGED <<workers, conns, history>>
    BY <1>2, <1>a, <2>1 DEF Add, Returns, TypeOK
  <2>3. \A m \in Nodes : op[m] = "publish" => topic[m] \in Topics
    BY <1>a DEF TypeOK
  <2>4. QED
    BY <1>a, <2>2, <2>3, DebtShrinks DEF Pending, Targets, getShareBucket,
       workers, conns, history
<1>3. ASSUME NEW n \in Nodes, Remove(n) PROVE OwedIsPending'
  <2>1. topic[n] \in Topics /\ getShareBucket(n) \in Buckets
    BY <1>3, <1>a, BucketInRange DEF Remove, TypeOK
  <2>2. /\ op'[n] # "publish"
        /\ \A m \in Nodes \ {n} : op'[m] = op[m] /\ topic'[m] = topic[m]
        /\ \A t \in Topics, d \in Buckets : \A c \in subs[t][d] :
             c \in subs'[t][d] \/ (c = n /\ t = topic[n])
        /\ owed' = NoLongerOwed(n, topic[n])
        /\ UNCHANGED <<workers, conns>>
    BY <1>3, <1>a, <2>1 DEF Remove, Returns, TypeOK
  <2>3. \A m \in Nodes : \A c \in owed'[m] :
          c \in owed[m] /\ ~(c = n /\ op[m] = "publish" /\ topic[m] = topic[n])
    BY <2>2 DEF NoLongerOwed
  <2>4. \A m \in Nodes : op[m] = "publish" => topic[m] \in Topics
    BY <1>a DEF TypeOK
  <2>5. \A m \in Nodes : op'[m] = "publish" => m # n
    BY <2>2
  <2>6. \A m \in Nodes : \A c \in owed'[m] :
          op'[m] = "publish" /\ Pending(m, c) => Pending(m, c)'
    BY <1>a, <2>2, <2>3, <2>4, <2>5 DEF Pending, Targets, getShareBucket, workers
  <2>7. QED
    BY <2>2, <2>3, <2>5, <2>6, DebtShrinks DEF conns
<1>4. ASSUME NEW n \in Nodes, NEW t \in Topics, StartPublish(n, t)
      PROVE  OwedIsPending'
  <2>1. /\ op[n] = "read" /\ topic'[n] = t
        /\ \A m \in Nodes \ {n} :
             op'[m] = op[m] /\ topic'[m] = topic[m] /\ task'[m] = task[m]
             /\ owed'[m] = owed[m]
        /\ \A b \in Buckets : task'[n][b] = "wait"
        /\ owed'[n] = Subscribers(t) \cap (open \ garbled)
        /\ UNCHANGED <<subs, todo, writing, conns>>
    BY <1>4, <1>a DEF StartPublish, Starts, tables, TypeOK
  <2>2. SUFFICES ASSUME NEW m \in Nodes, NEW c \in owed'[m]
                 PROVE  /\ c \in open \ garbled
                        /\ op'[m] = "publish" => Pending(m, c)'
    BY <2>1 DEF OwedIsPending, Pending, conns, getShareBucket
  <2>3. CASE m = n
    <3>1. c \in open \ garbled /\ c \in Subscribers(t)
      BY <2>1, <2>2, <2>3
    <3>2. PICK b \in Buckets : c \in subs[t][b]
      BY <3>1 DEF Subscribers
    <3>3. c \in Nodes /\ b = getShareBucket(c)
      BY <1>a, <3>2 DEF PubsubInv, InOwnBucket, TypeOK
    <3>4. QED
      BY <2>1, <2>3, <3>1, <3>2, <3>3 DEF Pending, getShareBucket
  <2>4. CASE m # n
    <3>1. c \in owed[m] /\ op'[m] = op[m]
      BY <2>1, <2>2, <2>4
    <3>2. op[m] = "publish" => Pending(m, c)
      BY <3>1 DEF OwedIsPending, Pending
    <3>3. QED
      BY <2>1, <2>4, <3>1, <3>2
         DEF OwedIsPending, Pending, Targets, getShareBucket
  <2>5. QED
    BY <2>3, <2>4
<1>5. ASSUME NEW n \in Nodes, EndPublish(n) PROVE OwedIsPending'
  <2>1. /\ op'[n] # "publish"
        /\ \A m \in Nodes \ {n} :
             op'[m] = op[m] /\ topic'[m] = topic[m] /\ task'[m] = task[m]
        /\ UNCHANGED <<subs, todo, writing, conns, owed>>
    BY <1>5, <1>a DEF EndPublish, Returns, tables, history, TypeOK
  <2>2. QED
    BY <2>1, DebtShrinks DEF Pending, Targets, getShareBucket, conns
<1>6. ASSUME NEW n \in Nodes, NEW b \in Buckets, LockBucket(n, b)
      PROVE  OwedIsPending'
  <2>1. /\ task[n][b] = "wait" /\ UNCHANGED <<writing, subs, calls, conns, owed>>
        /\ \A m \in Nodes, d \in Buckets : ~(m = n /\ d = b) =>
             task'[m][d] = task[m][d] /\ todo'[m][d] = todo[m][d]
        /\ todo'[n][b] = subs[topic[n]][b]
    BY <1>6, <1>a DEF LockBucket, tables, history, TypeOK
  <2>2. todo[n][b] = {} /\ writing[n][b] = None
    BY <2>1 DEF PubsubInv, IdleWorkers
  <2>3. \A m \in Nodes : \A c \in owed[m] : Pending(m, c) => Pending(m, c)'
    <3> SUFFICES ASSUME NEW m \in Nodes, NEW c \in owed[m], Pending(m, c)
                 PROVE  Pending(m, c)'
      OBVIOUS
    <3> DEFINE d == getShareBucket(c)
    <3>1. d \in Buckets
      BY <1>a
    <3>2. CASE m = n /\ d = b
      BY <2>1, <2>2, <3>2 DEF Pending, Targets, calls, getShareBucket
    <3>3. CASE ~(m = n /\ d = b)
      BY <2>1, <3>1, <3>3 DEF Pending, Targets, calls, getShareBucket
    <3>4. QED
      BY <3>2, <3>3
  <2>4. QED
    BY <2>1, <2>3, DebtShrinks DEF calls, conns
<1>7. ASSUME NEW n \in Nodes, NEW b \in Buckets, StartWrite(n, b)
      PROVE  OwedIsPending'
  <2>1. PICK c \in todo[n][b] :
          /\ todo' = [todo EXCEPT ![n][b] = @ \ {c}]
          /\ writing' = [writing EXCEPT ![n][b] = c]
          /\ \/ UNCHANGED <<garbled, owed>>
             \/ /\ garbled' = garbled \cup {c}
                /\ owed' = [m \in Nodes |-> owed[m] \ {c}]
    BY <1>7 DEF StartWrite
  <2>2. writing[n][b] = None /\ UNCHANGED <<subs, op, topic, task, open>>
    BY <1>7 DEF StartWrite, tables, calls
  <2>3. c \in Nodes /\ None \notin Nodes
    BY <1>a, PubsubAssumption DEF TypeOK
  <2>4. \A m \in Nodes, d \in Buckets : Targets(m, d)' = Targets(m, d)
    <3>1. \A m \in Nodes, d \in Buckets : ~(m = n /\ d = b) =>
            todo'[m][d] = todo[m][d] /\ writing'[m][d] = writing[m][d]
      BY <1>a, <2>1 DEF TypeOK
    <3>2. todo'[n][b] = todo[n][b] \ {c} /\ writing'[n][b] = c
      BY <1>a, <2>1 DEF TypeOK
    <3>3. QED
      BY <2>1, <2>2, <2>3, <3>1, <3>2 DEF Targets
  <2>5. \A m \in Nodes : \A d \in owed[m] : Pending(m, d) => Pending(m, d)'
    BY <1>a, <2>2, <2>4 DEF Pending, getShareBucket
  <2>6. \A m \in Nodes : \A d \in owed'[m] :
          d \in owed[m] /\ (d \in garbled' => d \in garbled)
    BY <2>1
  <2>7. QED
    BY <2>2, <2>5, <2>6, DebtShrinks
<1>8. ASSUME NEW n \in Nodes, NEW b \in Buckets, EndWrite(n, b)
      PROVE  OwedIsPending'
  <2> DEFINE c == writing[n][b]
  <2>1. /\ c \in Nodes /\ getShareBucket(c) = b
        /\ writing' = [writing EXCEPT ![n][b] = None]
        /\ UNCHANGED <<subs, op, topic, task, todo, open, garbled>>
        /\ \/ owed' = [owed EXCEPT ![n] = @ \ {c}]
           \/ c \notin open \ garbled /\ UNCHANGED owed
    BY <1>8, WriteFacts, TargetFacts DEF tables, calls, conns, Delivers
  <2>2. \A m \in Nodes : \A d \in owed'[m] : d \in owed[m] /\ ~(m = n /\ d = c)
    <3>1. CASE owed' = [owed EXCEPT ![n] = @ \ {c}]
      BY <1>a, <3>1 DEF TypeOK
    <3>2. CASE c \notin open \ garbled /\ UNCHANGED owed
      BY <3>2 DEF OwedIsPending
    <3>3. QED
      BY <2>1, <3>1, <3>2
  <2>3. \A m \in Nodes, e \in Buckets :
          Targets(m, e) \subseteq Targets(m, e)' \cup (IF m = n THEN {c} ELSE {})
    BY <1>a, <2>1 DEF Targets, TypeOK
  <2>4. \A m \in Nodes : \A d \in owed'[m] : Pending(m, d) => Pending(m, d)'
    BY <1>a, <2>1, <2>2, <2>3 DEF Pending, getShareBucket
  <2>5. QED
    BY <2>1, <2>2, <2>4, DebtShrinks
<1>9. ASSUME NEW n \in Nodes, NEW b \in Buckets, FinishBucket(n, b)
      PROVE  OwedIsPending'
  <2>1. /\ \A m \in Nodes, d \in Buckets : task[m][d] = "wait" => task'[m][d] = "wait"
        /\ UNCHANGED <<subs, op, topic, todo, writing, conns, owed>>
    BY <1>9, <1>a DEF FinishBucket, tables, calls, history, TypeOK
  <2>2. QED
    BY <1>a, <2>1, DebtShrinks DEF Pending, Targets, getShareBucket, conns
<1>10. ASSUME NEW c \in Nodes, Disconnect(c) PROVE OwedIsPending'
  <2>1. /\ open' = open \ {c} /\ owed' = [n \in Nodes |-> owed[n] \ {c}]
        /\ UNCHANGED <<subs, op, topic, task, todo, writing, garbled>>
    BY <1>10 DEF Disconnect, tables, calls, workers
  <2>2. QED
    BY <2>1, DebtShrinks DEF Pending, Targets, getShareBucket
<1>11. CASE UNCHANGED vars
  BY <1>11, DebtShrinks DEF Pending, Targets, getShareBucket, vars, tables,
     calls, workers, conns, history
<1>12. QED
  BY <1>1, <1>2, <1>3, <1>4, <1>5, <1>6, <1>7, <1>8, <1>9, <1>10, <1>11
     DEF Next, Call, Worker

-----------------------------------------------------------------------------
\* The invariant about order at the start.
LEMMA InitOrderInv == Init => OrderInv
<1> SUFFICES ASSUME Init PROVE OrderInv
  OBVIOUS
<1>1. NoneAhead /\ SenderOrder /\ CurrentIsLast /\ BucketOrder
  BY DEF Init, NoneAhead, SenderOrder, CurrentIsLast, BucketOrder, Before, Received
<1>2. UnservedHaveNot
  BY DEF Init, UnservedHaveNot, Unserved, Received
<1>3. OwedIsPending
  BY DEF Init, OwedIsPending
<1>4. QED
  BY <1>1, <1>2, <1>3 DEF OrderInv

\* Orders and debts in every reachable state.
THEOREM OrderSafe == Spec => []OrderInv
<1>1. PubsubInv /\ OrderInv /\ [Next]_vars => OrderInv'
  BY StepNoneAhead, StepUnserved, StepSenderOrder, StepCurrentIsLast,
     StepBucketOrder, StepOwed DEF OrderInv
<1>2. QED
  BY <1>1, InitOrderInv, PubsubSafe, PTL DEF Spec

\* What one sender publishes arrives in that order and at most once, at every
\* connection, however the goroutines of its publications are scheduled.
THEOREM InSenderOrder == Spec => []SenderOrder
<1>1. OrderInv => SenderOrder
  BY DEF OrderInv
<1>2. QED
  BY <1>1, OrderSafe, PTL

\* With one topic, two connections of one bucket never disagree on the order
\* of the messages they share.
THEOREM InBucketOrder == Spec => []BucketOrder
<1>1. OrderInv => BucketOrder
  BY DEF OrderInv
<1>2. QED
  BY <1>1, OrderSafe, PTL

-----------------------------------------------------------------------------
(* TopicBroker is implemented.                                             *)

\* The broker starts as the abstract one.
LEMMA InitBroker == Init => Broker!Init
<1> SUFFICES ASSUME Init PROVE Broker!Init
  OBVIOUS
<1> USE DEF Init
<1>1. [t \in Topics |-> Subscribers(t)] = [t \in Topics |-> {}]
  BY DEF Subscribers
<1>2. [n \in Nodes |-> Reached(n)] = [n \in Nodes |-> {}]
  BY DEF Reached
<1>3. [c \in Nodes |-> [i \in DOMAIN inbox[c] |-> inbox[c][i].from]]
        = [c \in Nodes |-> <<>>]
  OBVIOUS
<1>4. [n \in Nodes |-> IF op[n] = "publish" THEN topic[n] ELSE None]
        = [n \in Nodes |-> None]
  OBVIOUS
<1>5. QED
  BY <1>1, <1>2, <1>3, <1>4 DEF Broker!Init

\* The refinement mapping, part by part.
Members == [t \in Topics |-> Subscribers(t)]
Publishing == [n \in Nodes |-> IF op[n] = "publish" THEN topic[n] ELSE None]
Reach == [n \in Nodes |-> Reached(n)]
Senders == [c \in Nodes |-> [i \in DOMAIN inbox[c] |-> inbox[c][i].from]]

\* A step that leaves what the abstract broker sees leaves the abstract broker.
LEMMA BrokerStutters ==
  ASSUME UNCHANGED <<Members, Publishing, Reach, owed, Senders>>
  PROVE  UNCHANGED Broker!vars
  BY DEF Broker!vars, Members, Publishing, Reach, Senders

\* Without new messages, what is reached stays.
LEMMA MessagesKept ==
  ASSUME UNCHANGED <<inbox, pushed>>
  PROVE  UNCHANGED <<Reach, Senders>>
  BY DEF Reach, Reached, Senders

\* Without calls or returns, the same nodes publish.
LEMMA CallsKept ==
  ASSUME UNCHANGED <<op, topic>>
  PROVE  UNCHANGED Publishing
  BY DEF Publishing

\* Without a change of the tables, the members stay.
LEMMA TablesKept ==
  ASSUME UNCHANGED subs
  PROVE  UNCHANGED Members
  BY DEF Members, Subscribers

\* Add is the abstract Join.
LEMMA AddJoins ==
  ASSUME PubsubInv, NEW n \in Nodes, Add(n)
  PROVE  Broker!Next
<1>a. TypeOK
  BY DEF PubsubInv
<1>1. topic[n] \in Topics /\ getShareBucket(n) \in Buckets
  BY <1>a, BucketInRange DEF Add, TypeOK
<1>2. \A t \in Topics :
        Subscribers(t)' = IF t = topic[n] THEN Subscribers(t) \cup {n}
                          ELSE Subscribers(t)
  BY <1>a, <1>1 DEF Add, Subscribers, TypeOK
<1>3. Members' = [Members EXCEPT ![topic[n]] = @ \cup {n}]
  BY <1>1, <1>2 DEF Members
<1>4. UNCHANGED Publishing
  BY <1>a DEF Add, Returns, Publishing, TypeOK
<1>5. UNCHANGED <<Reach, owed, Senders>>
  BY MessagesKept DEF Add, history
<1>6. Broker!Join(n, topic[n])
  BY <1>3, <1>4, <1>5 DEF Broker!Join, Members, Publishing, Reach, Senders
<1>7. QED
  BY <1>1, <1>6 DEF Broker!Next

\* Remove is the abstract Leave.
LEMMA RemoveLeaves ==
  ASSUME PubsubInv, NEW n \in Nodes, Remove(n)
  PROVE  Broker!Next
<1>a. TypeOK
  BY DEF PubsubInv
<1>1. topic[n] \in Topics /\ getShareBucket(n) \in Buckets
  BY <1>a, BucketInRange DEF Remove, TypeOK
<1>2. /\ \A t \in Topics \ {topic[n]} : subs'[t] = subs[t]
      /\ \A d \in Buckets : subs'[topic[n]][d] = subs[topic[n]][d] \ {n}
  <2>1. \A d \in Buckets : n \in subs[topic[n]][d] => d = getShareBucket(n)
    BY <1>1 DEF PubsubInv, InOwnBucket
  <2>2. subs' = [subs EXCEPT ![topic[n]][getShareBucket(n)] = @ \ {n}]
    BY DEF Remove
  <2>3. \A t \in Topics \ {topic[n]} : subs'[t] = subs[t]
    BY <1>a, <1>1, <2>2 DEF TypeOK
  <2>4. \A d \in Buckets : d # getShareBucket(n) =>
          subs'[topic[n]][d] = subs[topic[n]][d]
    BY <1>a, <1>1, <2>2 DEF TypeOK
  <2>5. subs'[topic[n]][getShareBucket(n)]
          = subs[topic[n]][getShareBucket(n)] \ {n}
    BY <1>a, <1>1, <2>2 DEF TypeOK
  <2>6. \A d \in Buckets : subs'[topic[n]][d] = subs[topic[n]][d] \ {n}
    BY <2>1, <2>4, <2>5
  <2>7. QED
    BY <2>3, <2>6
<1>3. \A t \in Topics :
        Subscribers(t)' = IF t = topic[n] THEN Subscribers(t) \ {n}
                          ELSE Subscribers(t)
  <2>1. \A t \in Topics : t # topic[n] => Subscribers(t)' = Subscribers(t)
    BY <1>2 DEF Subscribers
  <2>2. ASSUME NEW t \in Topics, t = topic[n]
        PROVE  Subscribers(t)' = Subscribers(t) \ {n}
    <3>1. Subscribers(t)' = UNION {subs'[t][d] : d \in Buckets}
      BY DEF Subscribers
    <3>2. \A d \in Buckets : subs'[t][d] = subs[t][d] \ {n}
      BY <1>2, <2>2
    <3>3. QED
      BY <3>1, <3>2 DEF Subscribers
  <2>3. QED
    BY <2>1, <2>2
<1>4. Members' = [Members EXCEPT ![topic[n]] = @ \ {n}]
  BY <1>1, <1>3 DEF Members
<1>5. UNCHANGED Publishing
  BY <1>a DEF Remove, Returns, Publishing, TypeOK
<1>6. UNCHANGED <<Reach, Senders>>
  BY MessagesKept DEF Remove
<1>7. owed' = [m \in Nodes |->
                 IF Publishing[m] = topic[n] THEN owed[m] \ {n} ELSE owed[m]]
  <2>1. \A m \in Nodes :
          op[m] = "publish" /\ topic[m] = topic[n] <=> Publishing[m] = topic[n]
    BY <1>1, PubsubAssumption DEF Publishing
  <2>2. QED
    BY <2>1 DEF Remove, NoLongerOwed
<1>8. Broker!Leave(n, topic[n])
  BY <1>4, <1>5, <1>6, <1>7
     DEF Broker!Leave, Members, Publishing, Reach, Senders
<1>9. QED
  BY <1>1, <1>8 DEF Broker!Next

\* The start of a publication is the abstract one.
LEMMA StartPublishBegins ==
  ASSUME PubsubInv, OrderInv, NEW n \in Nodes, NEW t \in Topics, StartPublish(n, t)
  PROVE  Broker!Next
<1>a. TypeOK /\ NoneAhead
  BY DEF PubsubInv, OrderInv
<1>1. /\ op[n] = "read" /\ op' = [op EXCEPT ![n] = "publish"]
      /\ topic' = [topic EXCEPT ![n] = t]
      /\ pushed' = [pushed EXCEPT ![n] = @ + 1]
      /\ owed' = [owed EXCEPT ![n] = Subscribers(t) \cap (open \ garbled)]
      /\ UNCHANGED <<subs, inbox>>
  BY DEF StartPublish, Starts, tables
<1>2. Publishing[n] = None /\ Publishing' = [Publishing EXCEPT ![n] = t]
  BY <1>a, <1>1 DEF Publishing, TypeOK
<1>3. UNCHANGED <<Members, Senders>>
  BY <1>1, TablesKept DEF Senders
<1>4. Reach' = [Reach EXCEPT ![n] = {}]
  <2>1. \A m \in Nodes \ {n} : Reached(m)' = Reached(m)
    BY <1>a, <1>1 DEF Reached, TypeOK
  <2>2. \A c \in Nodes : \A i \in DOMAIN inbox[c] :
          inbox[c][i] # [from |-> n, nr |-> pushed'[n]]
    <3> SUFFICES ASSUME NEW c \in Nodes, NEW i \in DOMAIN inbox[c],
                        inbox[c][i] = [from |-> n, nr |-> pushed'[n]]
                 PROVE  FALSE
      OBVIOUS
    <3>1. inbox[c][i].from = n /\ inbox[c][i].nr = pushed'[n]
      OBVIOUS
    <3>2. inbox[c][i].nr <= pushed[n]
      BY <1>a, <3>1 DEF NoneAhead
    <3>3. pushed'[n] = pushed[n] + 1 /\ pushed[n] \in Nat
      BY <1>a, <1>1 DEF TypeOK
    <3>4. QED
      BY <3>1, <3>2, <3>3
  <2>3. Reached(n)' = {}
    BY <1>1, <2>2 DEF Reached
  <2>4. QED
    BY <2>1, <2>3 DEF Reach
<1>5. Members[t] = Subscribers(t)
  BY DEF Members
<1>6. \E C \in SUBSET Members[t] : owed' = [owed EXCEPT ![n] = C]
  BY <1>1, <1>5
<1>7. Broker!Begin(n, t)
  BY <1>2, <1>3, <1>4, <1>6
     DEF Broker!Begin, Members, Publishing, Reach, Senders
<1>8. QED
  BY <1>7 DEF Broker!Next

\* All goroutines are done, so nobody is owed anything any more.
LEMMA EndPublishEnds ==
  ASSUME PubsubInv, OrderInv, NEW n \in Nodes, EndPublish(n)
  PROVE  Broker!Next
<1>a. TypeOK
  BY DEF PubsubInv
<1>1. /\ op[n] = "publish" /\ op' = [op EXCEPT ![n] = "read"]
      /\ topic' = [topic EXCEPT ![n] = None]
      /\ \A b \in Buckets : task[n][b] = "done"
      /\ UNCHANGED <<subs, inbox, pushed, owed>>
  BY DEF EndPublish, Returns, tables, history
<1>2. Publishing[n] # None /\ Publishing' = [Publishing EXCEPT ![n] = None]
  BY <1>a, <1>1 DEF Publishing, TypeOK
<1>3. owed[n] = {}
  <2>1. SUFFICES ASSUME NEW c \in owed[n] PROVE FALSE
    OBVIOUS
  <2>2. getShareBucket(c) \in Buckets
    BY <1>a, BucketInRange DEF TypeOK
  <2>3. c \in Targets(n, getShareBucket(c))
    BY <1>1, <2>2 DEF OrderInv, OwedIsPending
  <2>4. QED
    BY <1>1, <2>2, <2>3 DEF PubsubInv, IdleWorkers, Targets
<1>4. UNCHANGED <<Members, Reach, Senders>>
  BY <1>1, TablesKept, MessagesKept
<1>5. Broker!End(n)
  BY <1>1, <1>2, <1>3, <1>4
     DEF Broker!End, Members, Publishing, Reach, Senders
<1>6. QED
  BY <1>5 DEF Broker!Next

\* A connection that goes is struck off the debts, as the abstract one is.
LEMMA Loses ==
  ASSUME NEW c \in Nodes, UNCHANGED <<subs, op, topic, pushed, inbox>>,
         owed' = [n \in Nodes |-> owed[n] \ {c}]
  PROVE  Broker!Next
<1>1. UNCHANGED <<Members, Publishing, Reach, Senders>>
  BY TablesKept, CallsKept, MessagesKept
<1>2. Broker!Lose(c)
  BY <1>1 DEF Broker!Lose, Members, Publishing, Reach, Senders
<1>3. QED
  BY <1>2 DEF Broker!Next

\* Appending a message appends its sender to the senders.
LEMMA SendersAppend ==
  ASSUME NEW q \in Seq(Messages), NEW m \in Messages
  PROVE  [i \in DOMAIN Append(q, m) |-> Append(q, m)[i].from]
           = Append([i \in DOMAIN q |-> q[i].from], m.from)
<1> DEFINE s == [i \in DOMAIN q |-> q[i].from]
           t == [i \in DOMAIN Append(q, m) |-> Append(q, m)[i].from]
<1>1. PICK k \in Nat : Len(q) = k /\ DOMAIN q = 1..k
  OBVIOUS
<1>2. \A e \in Messages : e.from \in Nodes
  BY DEF Messages
<1>3. /\ Append(q, m) \in Seq(Messages)
      /\ Len(Append(q, m)) = k + 1 /\ DOMAIN Append(q, m) = 1..(k + 1)
      /\ \A i \in 1..k : Append(q, m)[i] = q[i]
      /\ Append(q, m)[k + 1] = m
  BY <1>1
<1>4. \A i \in 1..k : q[i] \in Messages
  BY <1>1
<1>5. s \in [1..k -> Nodes]
  BY <1>1, <1>2, <1>4
<1>6. s \in Seq(Nodes)
  BY <1>1, <1>5, SeqDef
<1>7. Len(s) = k
  BY <1>5, <1>6, LenProperties
<1>8. t \in [1..(k + 1) -> Nodes]
  BY <1>2, <1>3
<1>9. t \in Seq(Nodes)
  BY <1>1, <1>8, SeqDef
<1>10. Len(t) = k + 1
  BY <1>8, <1>9, LenProperties
<1>11. /\ Append(s, m.from) \in Seq(Nodes) /\ Len(Append(s, m.from)) = k + 1
       /\ \A i \in 1..k : Append(s, m.from)[i] = s[i]
       /\ Append(s, m.from)[k + 1] = m.from
  BY <1>2, <1>6, <1>7, AppendProperties
<1>12. ASSUME NEW i \in 1..(k + 1) PROVE t[i] = Append(s, m.from)[i]
  <2>1. CASE i \in 1..k
    BY <1>1, <1>3, <1>11, <2>1
  <2>2. CASE i = k + 1
    BY <1>3, <1>11, <2>2
  <2>3. QED
    BY <1>1, <2>1, <2>2
<1>13. QED
  BY <1>9, <1>10, <1>11, <1>12, SeqEqual

\* A write that arrives is an abstract delivery.
LEMMA EndWriteDelivers ==
  ASSUME PubsubInv, OrderInv, NEW n \in Nodes, NEW b \in Buckets, EndWrite(n, b),
         NEW c \in Nodes, c = writing[n][b], Delivers(n, c)
  PROVE  Broker!Next
<1>a. TypeOK
  BY DEF PubsubInv
<1>1. /\ c \in Nodes /\ c \in Targets(n, b) /\ op[n] = "publish"
      /\ topic[n] \in Topics
      /\ UNCHANGED <<subs, op, topic, pushed>>
  BY WriteFacts, TargetFacts DEF tables, calls
<1>2. Publishing[n] = topic[n] /\ c \in Members[topic[n]]
  <2>1. c \in subs[topic[n]][b]
    BY <1>1 DEF PubsubInv, WriteImpliesSubscribed
  <2>2. QED
    BY <1>1, <2>1 DEF Publishing, Members, Subscribers
<1>3. c \notin Reach[n]
  <2>1. Current(n) \notin Received(c)
    BY <1>1 DEF OrderInv, UnservedHaveNot, Unserved
  <2>2. QED
    BY <2>1 DEF Reach, Reached, Received, Current
<1>4. Senders' = [Senders EXCEPT ![c] = Append(@, n)]
  <2>1. \A d \in Nodes \ {c} : Senders'[d] = Senders[d]
    BY <1>a, <1>1, DeliveredFacts DEF Senders
  <2>2. Senders'[c] = Append(Senders[c], n)
    <3>1. inbox[c] \in Seq(Messages) /\ inbox'[c] = Append(inbox[c], Current(n))
      BY <1>a, InboxFacts, DeliveredFacts
    <3>2. Current(n) \in Messages /\ Current(n).from = n
      BY <1>a, CurrentType
    <3>3. QED
      BY <3>1, <3>2, SendersAppend DEF Senders
  <2>3. QED
    BY <1>1, <2>1, <2>2 DEF Senders
<1>5. Reach' = [Reach EXCEPT ![n] = @ \cup {c}]
  <2>1. \A d \in Nodes \ {c} : inbox'[d] = inbox[d]
    BY <1>a, <1>1, DeliveredFacts
  <2>2. \A m \in Nodes, d \in Nodes \ {c} : d \in Reached(m)' <=> d \in Reached(m)
    BY <1>1, <2>1 DEF Reached
  <2>3. \A i \in DOMAIN inbox'[c] :
          \/ i \in DOMAIN inbox[c] /\ inbox'[c][i] = inbox[c][i]
          \/ inbox'[c][i] = Current(n)
    BY <1>a, <1>1, PlaceAfter
  <2>4. /\ \A i \in DOMAIN inbox[c] : i \in DOMAIN inbox'[c]
                                      /\ inbox'[c][i] = inbox[c][i]
        /\ Len(inbox[c]) + 1 \in DOMAIN inbox'[c]
        /\ inbox'[c][Len(inbox[c]) + 1] = Current(n)
    BY <1>a, <1>1, DeliveredFacts, InboxFacts
  <2>5. \A m \in Nodes \ {n} : Current(m) # Current(n)
    BY <1>a, CurrentType
  <2>6. \A m \in Nodes \ {n} : c \in Reached(m)' <=> c \in Reached(m)
    BY <1>1, <2>3, <2>4, <2>5 DEF Reached, Current
  <2>7. c \in Reached(n)'
    BY <1>1, <2>4 DEF Reached, Current
  <2>8. \A m \in Nodes \ {n} : Reached(m)' = Reached(m)
    BY <2>2, <2>6 DEF Reached
  <2>9. Reached(n)' = Reached(n) \cup {c}
    BY <1>1, <2>2, <2>7 DEF Reached
  <2>10. QED
    BY <2>8, <2>9 DEF Reach
<1>6. UNCHANGED <<Members, Publishing>>
  BY <1>1, TablesKept, CallsKept
<1>7. owed' = [owed EXCEPT ![n] = @ \ {c}]
  BY DEF Delivers
<1>8. Broker!Deliver(n, c)
  <2>1. \E t \in Topics : Publishing[n] = t /\ c \in Members[t]
    BY <1>1, <1>2
  <2>2. QED
    BY <1>3, <1>4, <1>5, <1>6, <1>7, <2>1
       DEF Broker!Deliver, Members, Publishing, Reach, Senders
<1>9. QED
  BY <1>8 DEF Broker!Next

\* Every step of the broker is an abstract one or a stutter.
LEMMA StepBroker ==
  PubsubInv /\ OrderInv /\ [Next]_vars => [Broker!Next]_(Broker!vars)
<1> SUFFICES ASSUME PubsubInv, OrderInv, [Next]_vars
             PROVE  Broker!Next \/ UNCHANGED Broker!vars
  OBVIOUS
<1>a. TypeOK
  BY DEF PubsubInv
<1>1. CASE UNCHANGED <<subs, op, topic, pushed, inbox, owed>>
  BY <1>1, TablesKept, CallsKept, MessagesKept, BrokerStutters
<1>2. ASSUME NEW n \in Nodes, NEW t \in Topics,
             AddTopic(n, t) \/ FindTopic(n, t)
      PROVE  UNCHANGED Broker!vars
  <2>1. /\ op[n] = "read" /\ UNCHANGED <<subs, pushed, inbox, owed>>
        /\ op' \in {[op EXCEPT ![n] = "add"], [op EXCEPT ![n] = "remove"]}
        /\ topic' = [topic EXCEPT ![n] = t]
    BY <1>2 DEF AddTopic, FindTopic, Starts, tables, history
  <2>2. \A m \in Nodes :
          (IF op'[m] = "publish" THEN topic'[m] ELSE None)
            = (IF op[m] = "publish" THEN topic[m] ELSE None)
    BY <1>a, <2>1 DEF TypeOK
  <2>3. UNCHANGED Publishing
    BY <2>2 DEF Publishing
  <2>4. QED
    BY <2>1, <2>3, TablesKept, MessagesKept, BrokerStutters
<1>3. ASSUME NEW n \in Nodes, NEW b \in Buckets, StartWrite(n, b)
      PROVE  Broker!Next \/ UNCHANGED Broker!vars
  <2>1. UNCHANGED <<subs, op, topic, pushed, inbox>>
    BY <1>3 DEF StartWrite, tables, calls
  <2>2. \/ UNCHANGED owed
        \/ \E c \in Nodes : owed' = [m \in Nodes |-> owed[m] \ {c}]
    BY <1>3, <1>a DEF StartWrite, TypeOK
  <2>3. QED
    BY <1>1, <2>1, <2>2, Loses
<1>4. ASSUME NEW n \in Nodes, NEW b \in Buckets, EndWrite(n, b)
      PROVE  Broker!Next \/ UNCHANGED Broker!vars
  <2>1. UNCHANGED <<subs, op, topic, pushed>>
    BY <1>4, WriteFacts DEF tables, calls
  <2>2. QED
    BY <1>1, <1>4, <2>1, WriteFacts, TargetFacts, EndWriteDelivers
<1>5. ASSUME NEW c \in Nodes, Disconnect(c) PROVE Broker!Next
  BY <1>5, Loses DEF Disconnect, tables, calls
<1>6. ASSUME NEW n \in Nodes, NEW b \in Buckets,
             LockBucket(n, b) \/ FinishBucket(n, b)
      PROVE  UNCHANGED <<subs, op, topic, pushed, inbox, owed>>
  BY <1>6 DEF LockBucket, FinishBucket, tables, calls, history
<1>7. UNCHANGED vars => UNCHANGED <<subs, op, topic, pushed, inbox, owed>>
  BY DEF vars, tables, calls, history
<1>8. QED
  BY <1>1, <1>2, <1>3, <1>4, <1>5, <1>6, <1>7, AddJoins, RemoveLeaves,
     StartPublishBegins, EndPublishEnds DEF Next, Call, Worker

\* The buckets, their mutexes and the goroutines of Publish cannot be told
\* from a broker that reaches its members one by one: members only, each at
\* most once, and all who stayed by the time Publish returns.
THEOREM BrokerRefines == Spec => ImplementsBroker
<1>1. PubsubInv /\ OrderInv /\ [Next]_vars => [Broker!Next]_(Broker!vars)
  BY StepBroker
<1>2. QED
  BY <1>1, InitBroker, PubsubSafe, OrderSafe, PTL
     DEF Spec, ImplementsBroker, Broker!Spec
=============================================================================
