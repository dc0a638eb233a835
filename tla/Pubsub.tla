------------------------------- MODULE Pubsub -------------------------------
(***************************************************************************)
(* The topic broker behind the WebSocket server (package pubsub).          *)
(*                                                                         *)
(* Every connection (Node) has a reader goroutine that calls Subscribe,    *)
(* UnSubscribe and Publish for the frames its client sends. A topic owns   *)
(* SHARE_COUNT buckets of subscribers, each with a mutex. Publish starts   *)
(* one goroutine per bucket; it holds the mutex of its bucket while it     *)
(* writes to the bucket's connections, one after the other.                *)
(*                                                                         *)
(* A step is one critical section, or one end of a WriteMessage: sections  *)
(* of ps.mu never block inside, while those of a bucket span writes. The   *)
(* contents of a message are left out; its sender and number identify it.  *)
(***************************************************************************)
EXTENDS Naturals, Sequences

CONSTANTS
  Nodes,        \* the connections
  Topics,       \* the topics their clients name
  SHARE_COUNT,  \* number of buckets of a topic (32 in the code)
  fnv32,        \* the hash of each node's uid
  MaxPush,      \* bound: MaxPush[n] publications by node n
  None          \* no node

ASSUME PubsubAssumption ==
  /\ SHARE_COUNT \in Nat \ {0}
  /\ fnv32 \in [Nodes -> Nat]
  /\ MaxPush \in [Nodes -> Nat]
  /\ None \notin Nodes \cup Topics

VARIABLES
  topics,     \* the keys of ps.topics
  subs,       \* subs[t][b]: the keys of bucket b's subscribers map
  mu,         \* mu[t][b]: the node whose goroutine holds the bucket's mutex
  op,         \* op[n]: the call n's reader is in
  topic,      \* topic[n]: its argument (None outside a call)
  task,       \* task[n][b]: state of Publish's goroutine for bucket b
  todo,       \* todo[n][b]: the connections its loop has not reached yet
  writing,    \* writing[n][b]: the connection it is writing to
  pushed,     \* pushed[n]: how many messages n has published
  open,       \* the connections that are not closed
  garbled,    \* the connections whose frames overlapped
  panicked,   \* gorilla/websocket panicked: the process is gone
  inbox,      \* history: inbox[c], the messages written to c, in order
  owed        \* history: owed[n], who must still get n's publication

tables  == <<topics, subs>>
calls   == <<op, topic, pushed>>
workers == <<mu, task, todo, writing>>
conns   == <<open, garbled, panicked>>
history == <<inbox, owed>>
vars == <<tables, calls, workers, conns, history>>

Buckets == 0..(SHARE_COUNT - 1)
Messages == [from : Nodes, nr : Nat]

getShareBucket(n) == fnv32[n] % SHARE_COUNT

\* Besides the types: a topic is an argument of a call, and the goroutines
\* of Publish live within it.
TypeOK ==
  /\ topics \subseteq Topics
  /\ subs \in [Topics -> [Buckets -> SUBSET Nodes]]
  /\ mu \in [Topics -> [Buckets -> Nodes \cup {None}]]
  /\ op \in [Nodes -> {"read", "add", "remove", "publish"}]
  /\ topic \in [Nodes -> Topics \cup {None}]
  /\ task \in [Nodes -> [Buckets -> {"none", "wait", "loop", "done"}]]
  /\ todo \in [Nodes -> [Buckets -> SUBSET Nodes]]
  /\ writing \in [Nodes -> [Buckets -> Nodes \cup {None}]]
  /\ pushed \in [Nodes -> Nat]
  /\ \A n \in Nodes : pushed[n] <= MaxPush[n]
  /\ open \subseteq Nodes
  /\ garbled \subseteq Nodes
  /\ panicked \in BOOLEAN
  /\ inbox \in [Nodes -> Seq(Messages)]
  /\ owed \in [Nodes -> SUBSET Nodes]
  /\ \A n \in Nodes :
       /\ topic[n] = None <=> op[n] = "read"
       /\ op[n] # "publish" => \A b \in Buckets : task[n][b] = "none"

Init ==
  /\ topics = {}
  /\ subs = [t \in Topics |-> [b \in Buckets |-> {}]]
  /\ mu = [t \in Topics |-> [b \in Buckets |-> None]]
  /\ op = [n \in Nodes |-> "read"]
  /\ topic = [n \in Nodes |-> None]
  /\ task = [n \in Nodes |-> [b \in Buckets |-> "none"]]
  /\ todo = [n \in Nodes |-> [b \in Buckets |-> {}]]
  /\ writing = [n \in Nodes |-> [b \in Buckets |-> None]]
  /\ pushed = [n \in Nodes |-> 0]
  /\ open = Nodes
  /\ garbled = {}
  /\ panicked = FALSE
  /\ inbox = [n \in Nodes |-> <<>>]
  /\ owed = [n \in Nodes |-> {}]

-----------------------------------------------------------------------------
(* The reader of n: Subscribe and UnSubscribe.                             *)

\* handleMsg takes a message. The connection may have been closed since it was
\* read, so no step of the reader asks whether it is open.
Starts(n, call, t) ==
  /\ op[n] = "read"
  /\ op' = [op EXCEPT ![n] = call]
  /\ topic' = [topic EXCEPT ![n] = t]

Returns(n) ==
  /\ op' = [op EXCEPT ![n] = "read"]
  /\ topic' = [topic EXCEPT ![n] = None]

\* add, up to ps.mu.Unlock(): make the topic unless it is there.
AddTopic(n, t) ==
  /\ Starts(n, "add", t)
  /\ topics' = topics \cup {t}
  /\ UNCHANGED <<subs, pushed, workers, conns, history>>

\* A variant that does not choose the bucket by the hash.
AddAnywhere(n) ==
  LET t == topic[n]
  IN  /\ op[n] = "add"
      /\ \E b \in Buckets :
           /\ mu[t][b] = None
           /\ subs' = [subs EXCEPT ![t][b] = @ \cup {n}]
      /\ Returns(n)
      /\ UNCHANGED <<topics, pushed, workers, conns, history>>

\* add, under bucket.mu. A second subscription is refused.
Add(n) ==
  LET t == topic[n]
      b == getShareBucket(n)
  IN  /\ op[n] = "add"
      /\ mu[t][b] = None
      /\ subs' = [subs EXCEPT ![t][b] = @ \cup {n}]
      /\ Returns(n)
      /\ UNCHANGED <<topics, pushed, workers, conns, history>>

\* remove, up to ps.mu.RUnlock(); an unknown topic is refused.
FindTopic(n, t) ==
  /\ t \in topics
  /\ Starts(n, "remove", t)
  /\ UNCHANGED <<tables, pushed, workers, conns, history>>

NoLongerOwed(c, t) ==
  [n \in Nodes |-> IF op[n] = "publish" /\ topic[n] = t
                   THEN owed[n] \ {c} ELSE owed[n]]

\* A variant that deletes without taking bucket.mu.
RemoveUnlocked(n) ==
  LET t == topic[n]
      b == getShareBucket(n)
  IN  /\ op[n] = "remove"
      /\ subs' = [subs EXCEPT ![t][b] = @ \ {n}]
      /\ owed' = NoLongerOwed(n, t)
      /\ Returns(n)
      /\ UNCHANGED <<topics, pushed, workers, conns, inbox>>

\* remove, under bucket.mu.
Remove(n) ==
  LET t == topic[n]
      b == getShareBucket(n)
  IN  /\ op[n] = "remove"
      /\ mu[t][b] = None
      /\ subs' = [subs EXCEPT ![t][b] = @ \ {n}]
      /\ owed' = NoLongerOwed(n, t)
      /\ Returns(n)
      /\ UNCHANGED <<topics, pushed, workers, conns, inbox>>

-----------------------------------------------------------------------------
(* The reader of n: Publish and its goroutines.                            *)

Subscribers(t) == UNION {subs[t][b] : b \in Buckets}

\* Look the topic up (an unknown one is refused) and start the goroutines.
StartPublish(n, t) ==
  /\ t \in topics
  /\ pushed[n] < MaxPush[n]
  /\ Starts(n, "publish", t)
  /\ pushed' = [pushed EXCEPT ![n] = @ + 1]
  /\ task' = [task EXCEPT ![n] = [b \in Buckets |-> "wait"]]
  /\ owed' = [owed EXCEPT ![n] = Subscribers(t) \cap (open \ garbled)]
  /\ UNCHANGED <<tables, mu, todo, writing, conns, inbox>>

\* A variant that takes the mutex shared, as RLock would.
LockBucketShared(n, b) ==
  /\ task[n][b] = "wait"
  /\ task' = [task EXCEPT ![n][b] = "loop"]
  /\ mu' = [mu EXCEPT ![topic[n]][b] = n]
  /\ todo' = [todo EXCEPT ![n][b] = subs[topic[n]][b]]
  /\ UNCHANGED <<tables, calls, writing, conns, history>>

\* bucket.mu.Lock(), and the range over the map begins.
LockBucket(n, b) ==
  /\ task[n][b] = "wait"
  /\ mu[topic[n]][b] = None
  /\ task' = [task EXCEPT ![n][b] = "loop"]
  /\ mu' = [mu EXCEPT ![topic[n]][b] = n]
  /\ todo' = [todo EXCEPT ![n][b] = subs[topic[n]][b]]
  /\ UNCHANGED <<tables, calls, writing, conns, history>>

\* The goroutines that are inside WriteMessage on c.
Writers(c) == {w \in Nodes \X Buckets : writing[w[1]][w[2]] = c}

\* WriteMessage begins. The map is ranged over in no particular order. A
\* connection supports one concurrent writer: a second one panics, or slips
\* past the check and the two frames overlap.
StartWrite(n, b) ==
  /\ task[n][b] = "loop"
  /\ writing[n][b] = None
  /\ \E c \in todo[n][b] :
       /\ todo' = [todo EXCEPT ![n][b] = @ \ {c}]
       /\ writing' = [writing EXCEPT ![n][b] = c]
       /\ IF Writers(c) = {}
          THEN UNCHANGED <<garbled, panicked, owed>>
          ELSE \/ /\ panicked' = TRUE
                  /\ UNCHANGED <<garbled, owed>>
               \/ /\ garbled' = garbled \cup {c}
                  /\ owed' = [m \in Nodes |-> owed[m] \ {c}]
                  /\ UNCHANGED panicked
  /\ UNCHANGED <<tables, calls, mu, task, open, inbox>>

\* A variant that leaves the loop at the first connection that fails.
EndWriteOrStop(n, b) ==
  LET c == writing[n][b]
      sound == c \in open \ garbled
  IN  /\ c # None
      /\ writing' = [writing EXCEPT ![n][b] = None]
      /\ inbox' = IF sound
                  THEN [inbox EXCEPT ![c] =
                          Append(@, [from |-> n, nr |-> pushed[n]])]
                  ELSE inbox
      /\ owed' = IF sound THEN [owed EXCEPT ![n] = @ \ {c}] ELSE owed
      /\ todo' = IF sound THEN todo ELSE [todo EXCEPT ![n][b] = {}]
      /\ UNCHANGED <<tables, calls, mu, task, conns>>

\* WriteMessage returns; an error (the connection is closed) is logged and
\* the loop goes on.
EndWrite(n, b) ==
  LET c == writing[n][b]
      sound == c \in open \ garbled
  IN  /\ c # None
      /\ writing' = [writing EXCEPT ![n][b] = None]
      /\ inbox' = IF sound
                  THEN [inbox EXCEPT ![c] =
                          Append(@, [from |-> n, nr |-> pushed[n]])]
                  ELSE inbox
      /\ owed' = IF sound THEN [owed EXCEPT ![n] = @ \ {c}] ELSE owed
      /\ UNCHANGED <<tables, calls, mu, task, todo, conns>>

\* A variant without the deferred bucket.mu.Unlock().
FinishBucketLocked(n, b) ==
  /\ task[n][b] = "loop"
  /\ todo[n][b] = {} /\ writing[n][b] = None
  /\ task' = [task EXCEPT ![n][b] = "done"]
  /\ UNCHANGED <<tables, calls, mu, todo, writing, conns, history>>

\* The loop ends: bucket.mu.Unlock() and waiter.Done().
FinishBucket(n, b) ==
  /\ task[n][b] = "loop"
  /\ todo[n][b] = {} /\ writing[n][b] = None
  /\ task' = [task EXCEPT ![n][b] = "done"]
  /\ mu' = [mu EXCEPT ![topic[n]][b] = None]
  /\ UNCHANGED <<tables, calls, todo, writing, conns, history>>

\* A variant that returns without waiter.Wait().
EndPublishUnwaited(n) ==
  /\ op[n] = "publish"
  /\ Returns(n)
  /\ UNCHANGED <<tables, pushed, workers, conns, history>>

\* waiter.Wait(): every goroutine is done.
EndPublish(n) ==
  /\ op[n] = "publish"
  /\ \A b \in Buckets : task[n][b] = "done"
  /\ task' = [task EXCEPT ![n] = [b \in Buckets |-> "none"]]
  /\ Returns(n)
  /\ UNCHANGED <<tables, pushed, mu, todo, writing, conns, history>>

-----------------------------------------------------------------------------
(* The connection of c is closed, by its client or by checkIsAlive; its    *)
(* subscriptions stay (ws.Close does not touch the broker).                *)

Disconnect(c) ==
  /\ c \in open
  /\ open' = open \ {c}
  /\ owed' = [n \in Nodes |-> owed[n] \ {c}]
  /\ UNCHANGED <<tables, calls, workers, garbled, panicked, inbox>>

-----------------------------------------------------------------------------
Call(n) ==
  \/ \E t \in Topics : AddTopic(n, t) \/ FindTopic(n, t) \/ StartPublish(n, t)
  \/ Add(n) \/ Remove(n) \/ EndPublish(n)

Worker(n, b) ==
  LockBucket(n, b) \/ StartWrite(n, b) \/ EndWrite(n, b) \/ FinishBucket(n, b)

Next ==
  /\ ~panicked
  /\ \/ \E n \in Nodes : Call(n)
     \/ \E n \in Nodes, b \in Buckets : Worker(n, b)
     \/ \E c \in Nodes : Disconnect(c)

Spec == Init /\ [][Next]_vars

(***************************************************************************)
(* Fairness: a goroutine that can run does, a Go mutex hands itself to a   *)
(* goroutine that has waited for a millisecond (starvation mode), and      *)
(* WriteMessage ends. The last is an assumption about the clients: the     *)
(* code sets no write deadline, so a client that stops reading without     *)
(* closing holds up the bucket it is in.                                   *)
(***************************************************************************)
Running(A) == ~panicked /\ A

Fairness ==
  /\ \A n \in Nodes :
       /\ SF_vars(Running(Add(n) \/ Remove(n)))
       /\ WF_vars(Running(EndPublish(n)))
  /\ \A n \in Nodes, b \in Buckets :
       /\ SF_vars(Running(LockBucket(n, b)))
       /\ WF_vars(Running(StartWrite(n, b) \/ EndWrite(n, b)
                           \/ FinishBucket(n, b)))

FairSpec == Spec /\ Fairness

-----------------------------------------------------------------------------
(* Safety.                                                                 *)

\* The mutex of a bucket: a goroutine loops over a bucket only while it
\* holds its mutex, so no two do.
MutexHeld ==
  \A n \in Nodes, b \in Buckets :
    task[n][b] = "loop" => topic[n] # None /\ mu[topic[n]][b] = n

\* The connections that n's goroutine for b still writes to.
Targets(n, b) == todo[n][b] \cup ({writing[n][b]} \ {None})

\* What is written, and still to be written, goes to connections that are
\* subscribed to the topic at that moment: UnSubscribe returns only when no
\* write of that topic to the caller is under way or still to come.
WriteImpliesSubscribed ==
  \A n \in Nodes, b \in Buckets :
    \A c \in Targets(n, b) : c \in subs[topic[n]][b]

\* The 32 segments (pubsub.go:27) keep writes of one topic to one connection
\* apart. Writes that meet on a connection are of different topics: the
\* locking is per topic and a connection is not protected by itself.
OverlapOnlyAcrossTopics ==
  \A c \in Nodes : \A v, w \in Writers(c) :
    v # w => topic[v[1]] # topic[w[1]]

\* With one topic in use no connection ever has two writers, so nothing
\* panics and no frame is garbled.
OneTopic == \A s, t \in topics : s = t
OneTopicIsSafe == OneTopic => ~panicked /\ garbled = {}

\* Two subscribers of the same bucket see the messages they both get in the
\* same order, as the mutex serialises whole publications to a bucket. (Two
\* subscribers of different buckets may disagree.)
Before(c, x, y) ==
  \E i, j \in DOMAIN inbox[c] : i < j /\ inbox[c][i] = x /\ inbox[c][j] = y
Received(c) == {inbox[c][i] : i \in DOMAIN inbox[c]}
BucketOrder ==
  OneTopic =>
    \A c, d \in Nodes :
      getShareBucket(c) = getShareBucket(d) =>
        \A x, y \in Received(c) \cap Received(d) :
          Before(c, x, y) => ~Before(d, y, x)

\* The messages of one sender arrive in the order in which it sent them, and
\* none arrives twice: the reader waits for all of a publication's goroutines
\* before it takes the next frame.
SenderOrder ==
  \A c \in Nodes : \A i, j \in DOMAIN inbox[c] :
    i < j /\ inbox[c][i].from = inbox[c][j].from =>
      inbox[c][i].nr < inbox[c][j].nr

-----------------------------------------------------------------------------
(* Liveness, under FairSpec.                                               *)

\* Every call returns, or the process has gone: no circular wait between
\* readers, publications and buckets.
CallsReturn == \A n \in Nodes : op[n] # "read" ~> (op[n] = "read" \/ panicked)

-----------------------------------------------------------------------------
(* Refinement.                                                             *)

Reached(n) ==
  {c \in Nodes : \E i \in DOMAIN inbox[c] :
                   inbox[c][i] = [from |-> n, nr |-> pushed[n]]}

Broker == INSTANCE TopicBroker WITH
  members    <- [t \in Topics |-> Subscribers(t)],
  publishing <- [n \in Nodes |-> IF op[n] = "publish" THEN topic[n] ELSE None],
  reached    <- [n \in Nodes |-> Reached(n)],
  inbox      <- [c \in Nodes |->
                  [i \in DOMAIN inbox[c] |-> inbox[c][i].from]]

\* The sharded, concurrent broker implements TopicBroker: members only, at
\* most once, and a publication that has returned has reached everyone who
\* was subscribed, and connected, throughout.
ImplementsBroker == Broker!Spec
=============================================================================
