---------------------------- MODULE Registration ----------------------------
(***************************************************************************)
(* A service process that registers itself in etcd (EtcdClient).           *)
(*                                                                         *)
(* Register grants a lease, stores the service's key under it and starts a *)
(* goroutine that watches the keep-alive channel of the client library.    *)
(* One goroutine of the process calls Register and, at the end, Close      *)
(* (example/rpc/registry). etcd and its client library are external: a     *)
(* lease that is not renewed expires, and its key with it; the library     *)
(* renews a lease for as long as the channel is open, and closes the       *)
(* channel when the lease is lost or the client is closed.                 *)
(***************************************************************************)
CONSTANT Services   \* the services the process registers, one after another

VARIABLES
  pc,       \* pc[s]: how far Register has got for s
  lease,    \* lease[s]: its lease at etcd
  key,      \* key[s]: its key at etcd, which is always bound to the lease
  channel,  \* channel[s]: its keep-alive channel
  worker,   \* worker[s]: the goroutine of keepAlive
  closer,   \* how far Close has got
  process,  \* "up", "gone", or "panicked"
  link      \* etcd can be reached

vars == <<pc, lease, key, channel, worker, closer, process, link>>

TypeOK ==
  /\ pc \in [Services -> {"idle", "granted", "put", "registered", "failed"}]
  /\ lease \in [Services -> {"none", "live", "lost"}]
  /\ key \in [Services -> {"absent", "leased"}]
  /\ channel \in [Services -> {"none", "open", "closed"}]
  /\ worker \in [Services -> {"none", "select", "exit"}]
  /\ closer \in {"idle", "closing", "closed"}
  /\ process \in {"up", "gone", "panicked"}
  /\ link \in BOOLEAN
  /\ \A s \in Services : key[s] = "leased" => lease[s] = "live"

Init ==
  /\ pc = [s \in Services |-> "idle"]
  /\ lease = [s \in Services |-> "none"]
  /\ key = [s \in Services |-> "absent"]
  /\ channel = [s \in Services |-> "none"]
  /\ worker = [s \in Services |-> "none"]
  /\ closer = "idle"
  /\ process = "up"
  /\ link = TRUE

-----------------------------------------------------------------------------
(* Register. Each request to etcd may fail when etcd cannot be reached.    *)

MayCall(s) ==
  /\ process = "up" /\ closer = "idle"
  /\ \A r \in Services \ {s} : pc[r] \notin {"granted", "put"}

Fails(s) ==
  /\ ~link
  /\ pc' = [pc EXCEPT ![s] = "failed"]

\* A variant that starts to renew the lease before the key is stored.
GrantAndKeep(s) ==
  /\ MayCall(s) /\ pc[s] = "idle"
  /\ \/ /\ link
        /\ lease' = [lease EXCEPT ![s] = "live"]
        /\ channel' = [channel EXCEPT ![s] = "open"]
        /\ worker' = [worker EXCEPT ![s] = "select"]
        /\ pc' = [pc EXCEPT ![s] = "granted"]
     \/ Fails(s) /\ UNCHANGED <<lease, channel, worker>>
  /\ UNCHANGED <<key, closer, process, link>>

Grant(s) ==
  /\ MayCall(s) /\ pc[s] = "idle"
  /\ \/ /\ link
        /\ lease' = [lease EXCEPT ![s] = "live"]
        /\ pc' = [pc EXCEPT ![s] = "granted"]
     \/ Fails(s) /\ UNCHANGED lease
  /\ UNCHANGED <<key, channel, worker, closer, process, link>>

\* A variant without clientv3.WithLease.
PutWithoutLease(s) ==
  /\ MayCall(s) /\ pc[s] = "granted"
  /\ \/ /\ link
        /\ key' = [key EXCEPT ![s] = "plain"]
        /\ pc' = [pc EXCEPT ![s] = "put"]
     \/ Fails(s) /\ key' \in {key, [key EXCEPT ![s] = "plain"]}
  /\ UNCHANGED <<lease, channel, worker, closer, process, link>>

\* Put under the lease, which etcd refuses when the lease has expired. A
\* request that fails may have been carried out: its reply was lost. The
\* lease is left as it is in either case.
Put(s) ==
  LET stored == [key EXCEPT ![s] = "leased"]
  IN  /\ MayCall(s) /\ pc[s] = "granted"
      /\ \/ /\ link /\ lease[s] = "live"
            /\ key' = stored
            /\ pc' = [pc EXCEPT ![s] = "put"]
         \/ /\ link /\ lease[s] # "live"
            /\ pc' = [pc EXCEPT ![s] = "failed"]
            /\ UNCHANGED key
         \/ /\ Fails(s)
            /\ key' \in {key} \cup (IF lease[s] = "live" THEN {stored} ELSE {})
      /\ UNCHANGED <<lease, channel, worker, closer, process, link>>

\* A variant whose goroutine never reads the channel.
KeepAliveUnread(s) ==
  /\ MayCall(s) /\ pc[s] = "put"
  /\ channel' = [channel EXCEPT ![s] = "open"]
  /\ worker' = [worker EXCEPT ![s] = "exit"]
  /\ pc' = [pc EXCEPT ![s] = "registered"]
  /\ UNCHANGED <<lease, key, closer, process, link>>

\* keepAlive: the library makes the channel and the goroutine starts; or the
\* library returns an error, and there is neither. putWithLease drops the
\* error: Register returns nil in both cases.
KeepAlive(s) ==
  /\ MayCall(s) /\ pc[s] = "put"
  /\ \/ /\ channel' = [channel EXCEPT ![s] = "open"]
        /\ worker' = [worker EXCEPT ![s] = "select"]
     \/ UNCHANGED <<channel, worker>>
  /\ pc' = [pc EXCEPT ![s] = "registered"]
  /\ UNCHANGED <<lease, key, closer, process, link>>

-----------------------------------------------------------------------------
(* The goroutine of keepAlive. Receiving a response changes nothing.       *)

\* case res := <-keepAliveCh on the closed channel: res is nil, and res.ID
\* panics.
ReceiveNil(s) ==
  /\ process = "up"
  /\ worker[s] = "select" /\ channel[s] = "closed"
  /\ process' = "panicked"
  /\ UNCHANGED <<pc, lease, key, channel, worker, closer, link>>

\* case <-ctx.Done(): Revoke, whose error is ignored: a closed client sends
\* nothing.
Leave(s) ==
  /\ process = "up"
  /\ worker[s] = "select" /\ closer = "closed"
  /\ worker' = [worker EXCEPT ![s] = "exit"]
  /\ UNCHANGED <<pc, lease, key, channel, closer, process, link>>

-----------------------------------------------------------------------------
(* Close.                                                                  *)

\* client.Close() ends the renewals and closes their channels...
CloseClient ==
  /\ process = "up" /\ closer = "idle"
  /\ \A s \in Services : pc[s] \notin {"granted", "put"}
  /\ closer' = "closing"
  /\ channel' = [s \in Services |->
                   IF channel[s] = "open" THEN "closed" ELSE channel[s]]
  /\ UNCHANGED <<pc, lease, key, worker, process, link>>

\* ... and the deferred cancel() ends the context.
Cancel ==
  /\ process = "up" /\ closer = "closing"
  /\ closer' = "closed"
  /\ UNCHANGED <<pc, lease, key, channel, worker, process, link>>

-----------------------------------------------------------------------------
(* The environment.                                                        *)

\* The process crashes, or ends after Close.
ProcessEnds ==
  /\ process = "up"
  /\ process' = "gone"
  /\ UNCHANGED <<pc, lease, key, channel, worker, closer, link>>

LinkChanges ==
  /\ link' = ~link
  /\ UNCHANGED <<pc, lease, key, channel, worker, closer, process>>

Renewed(s) == process = "up" /\ channel[s] = "open" /\ link

\* The TTL of a lease passes without a renewal.
LeaseExpires(s) ==
  /\ lease[s] = "live" /\ ~Renewed(s)
  /\ lease' = [lease EXCEPT ![s] = "lost"]
  /\ key' = [key EXCEPT ![s] = IF @ = "leased" THEN "absent" ELSE @]
  /\ UNCHANGED <<pc, channel, worker, closer, process, link>>

\* The library learns that the lease is lost, or has waited for a reply for
\* a whole TTL.
ChannelCloses(s) ==
  /\ process = "up"
  /\ channel[s] = "open" /\ (lease[s] # "live" \/ ~link)
  /\ channel' = [channel EXCEPT ![s] = "closed"]
  /\ UNCHANGED <<pc, lease, key, worker, closer, process, link>>

-----------------------------------------------------------------------------
Next ==
  \/ \E s \in Services :
       \/ Grant(s) \/ Put(s) \/ KeepAlive(s)
       \/ ReceiveNil(s) \/ Leave(s)
       \/ LeaseExpires(s) \/ ChannelCloses(s)
  \/ CloseClient \/ Cancel \/ ProcessEnds \/ LinkChanges

Spec == Init /\ [][Next]_vars

(***************************************************************************)
(* Fairness: time passes, so a lease that nobody renews any more expires.  *)
(***************************************************************************)
Fairness == \A s \in Services : WF_vars(LeaseExpires(s))

FairSpec == Spec /\ Fairness

-----------------------------------------------------------------------------
(* Properties.                                                             *)

\* A registration does not outlive its process: whatever Register was doing
\* when the process ended, and however it ended, the key goes away.
KeyDiesWithProcess ==
  \A s \in Services : process # "up" ~> key[s] = "absent"

\* A Register that reported an error leaves no key behind, even when the
\* Put was carried out and only its reply was lost.
FailedLeavesNothing ==
  \A s \in Services : pc[s] = "failed" ~> key[s] = "absent"

\* "%d keep alive successfully" (etcd_registry.go:81): what is received from
\* the channel is a response, never the nil of a closed channel.
NeverPanics == process # "panicked"
=============================================================================
