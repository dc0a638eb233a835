------------------------------- MODULE WsConn -------------------------------
(***************************************************************************)
(* The life of one WebSocket connection (package ws).                      *)
(*                                                                         *)
(* Two goroutines serve a connection: read, which takes the client's       *)
(* frames and calls the ping and close handlers on its own stack, and      *)
(* checkIsAlive, which closes a connection whose client has not pinged     *)
(* within updateInterval. They meet at the unbuffered channel Renew, at    *)
(* the channel Done, which is only ever closed, and at the Once of Close.  *)
(***************************************************************************)
EXTENDS Naturals, Sequences

CONSTANT MaxBuffered   \* bound: frames on their way to the reader

ASSUME MaxBufferedAssumption == MaxBuffered \in Nat \ {0}

VARIABLES
  reader,    \* where read stands
  checker,   \* where checkIsAlive stands
  once,      \* node.Once: "new", its running caller, or "done"
  connOpen,  \* node.Ws is not closed by the server
  done,      \* node.Done is closed
  running,   \* the timer is running
  tick,      \* its channel C holds a tick
  client,    \* the client's end: "up" or "gone"
  frames,    \* frames on their way to the reader
  panicked   \* close of a closed channel

vars == <<reader, checker, once, connOpen, done, running, tick, client,
          frames, panicked>>

Frames == {"message", "ping", "close"}

TypeOK ==
  /\ reader \in {"read", "handle", "renew", "close", "closing", "check", "exit"}
  /\ checker \in {"select", "close", "closing", "exit"}
  /\ once \in {"new", "reader", "checker", "done"}
  /\ connOpen \in BOOLEAN /\ done \in BOOLEAN
  /\ running \in BOOLEAN /\ tick \in BOOLEAN
  /\ client \in {"up", "gone"}
  /\ frames \in Seq(Frames) /\ Len(frames) <= MaxBuffered
  /\ panicked \in BOOLEAN
  /\ once = "reader" <=> reader = "closing"
  /\ once = "checker" <=> checker = "closing"

\* ServeHTTP has upgraded the connection and started both goroutines.
Init ==
  /\ reader = "read" /\ checker = "select"
  /\ once = "new" /\ connOpen = TRUE /\ done = FALSE
  /\ running = TRUE /\ tick = FALSE
  /\ client = "up" /\ frames = <<>>
  /\ panicked = FALSE

-----------------------------------------------------------------------------
(* The client and the clock.                                               *)

ClientSends ==
  /\ client = "up" /\ connOpen
  /\ Len(frames) < MaxBuffered
  /\ \E f \in Frames : frames' = Append(frames, f)
  /\ UNCHANGED <<reader, checker, once, connOpen, done, running, tick,
                 client, panicked>>

\* The client ends its side without a close frame.
ClientGone ==
  /\ client = "up"
  /\ client' = "gone"
  /\ UNCHANGED <<reader, checker, once, connOpen, done, running, tick,
                 frames, panicked>>

\* updateInterval has passed since the timer was started or reset.
Expire ==
  /\ running
  /\ running' = FALSE
  /\ tick' = TRUE
  /\ UNCHANGED <<reader, checker, once, connOpen, done, client, frames,
                 panicked>>

-----------------------------------------------------------------------------
(* ws.Close, called by the close handler on the reader's stack and by      *)
(* checkIsAlive. After it the reader's ReadMessage returns an error, and   *)
(* checkIsAlive returns.                                                   *)

\* The goroutine "who" moves from pc to pc2.
Moves(who, pc, pc2) ==
  \/ /\ who = "reader" /\ reader = pc /\ reader' = pc2 /\ UNCHANGED checker
  \/ /\ who = "checker" /\ checker = pc /\ checker' = pc2 /\ UNCHANGED reader

AfterClose(who) == IF who = "reader" THEN "check" ELSE "exit"

\* A variant without node.Once.
CloseConnAnyway(who) ==
  /\ Moves(who, "close", "closing")
  /\ once' = who
  /\ connOpen' = FALSE
  /\ UNCHANGED <<done, running, tick, client, frames, panicked>>

\* A variant that closes Done first.
CloseDoneFirst(who) ==
  /\ once = "new"
  /\ Moves(who, "close", "closing")
  /\ once' = who
  /\ done' = TRUE
  /\ UNCHANGED <<connOpen, running, tick, client, frames, panicked>>

\* The first caller of Once.Do closes the connection.
CloseConn(who) ==
  /\ once = "new"
  /\ Moves(who, "close", "closing")
  /\ once' = who
  /\ connOpen' = FALSE
  /\ UNCHANGED <<done, running, tick, client, frames, panicked>>

\* Then it closes Done; Go panics when a channel is closed twice.
CloseDone(who) ==
  /\ Moves(who, "closing", AfterClose(who))
  /\ once' = "done"
  /\ done' = TRUE
  /\ panicked' = (panicked \/ done)
  /\ UNCHANGED <<connOpen, running, tick, client, frames>>

\* A later caller does nothing; meanwhile it has waited for the first.
CloseAgain(who) ==
  /\ once = "done"
  /\ Moves(who, "close", AfterClose(who))
  /\ UNCHANGED <<once, connOpen, done, running, tick, client, frames,
                 panicked>>

-----------------------------------------------------------------------------
(* read.                                                                   *)

HandlerOf == [message |-> "handle", ping |-> "renew", close |-> "close"]

\* ReadMessage takes a frame: a message is returned; a ping or a close calls
\* its handler, which is still inside ReadMessage.
TakeFrame ==
  /\ reader = "read"
  /\ frames # <<>>
  /\ reader' = HandlerOf[Head(frames)]
  /\ frames' = Tail(frames)
  /\ UNCHANGED <<checker, once, connOpen, done, running, tick, client,
                 panicked>>

\* ReadMessage fails: the server closed the connection (frames that were
\* not yet in the read buffer are lost), or the client is gone.
ReadFails ==
  /\ reader = "read"
  /\ ~connOpen \/ (client = "gone" /\ frames = <<>>)
  /\ reader' = "check"
  /\ frames' = <<>>
  /\ UNCHANGED <<checker, once, connOpen, done, running, tick, client,
                 panicked>>

\* A variant that goes on reading.
ReadAgainAfterError ==
  /\ reader = "check"
  /\ done
  /\ reader' = "read"
  /\ UNCHANGED <<checker, once, connOpen, done, running, tick, client,
                 frames, panicked>>

\* <-node.Done: nothing is ever sent on Done, so this waits for its close.
LeaveAfterError ==
  /\ reader = "check"
  /\ done
  /\ reader' = "exit"
  /\ UNCHANGED <<checker, once, connOpen, done, running, tick, client,
                 frames, panicked>>

\* handleMsg returns; the select either sees Done closed or goes on.
Handled ==
  /\ reader = "handle"
  /\ reader' = IF done THEN "exit" ELSE "read"
  /\ UNCHANGED <<checker, once, connOpen, done, running, tick, client,
                 frames, panicked>>

-----------------------------------------------------------------------------
(* checkIsAlive: one action per case of its select.                        *)

SeeDone ==
  /\ checker = "select"
  /\ done
  /\ checker' = "exit"
  /\ UNCHANGED <<reader, once, connOpen, done, running, tick, client,
                 frames, panicked>>

\* keepAlive's send and the receive are one step, as Renew is unbuffered.
\* Reset does not drain C: a tick that is there stays there.
Renew ==
  /\ checker = "select" /\ reader = "renew"
  /\ reader' = "read"
  /\ running' = TRUE
  /\ UNCHANGED <<checker, once, connOpen, done, tick, client, frames,
                 panicked>>

\* A variant that ends the goroutine without closing the connection.
TakeTickOnly ==
  /\ checker = "select"
  /\ tick
  /\ tick' = FALSE
  /\ checker' = "exit"
  /\ UNCHANGED <<reader, once, connOpen, done, running, client, frames,
                 panicked>>

TakeTick ==
  /\ checker = "select"
  /\ tick
  /\ tick' = FALSE
  /\ checker' = "close"
  /\ UNCHANGED <<reader, once, connOpen, done, running, client, frames,
                 panicked>>

-----------------------------------------------------------------------------
Close == \E who \in {"reader", "checker"} :
           CloseConn(who) \/ CloseDone(who) \/ CloseAgain(who)

Read == TakeFrame \/ ReadFails \/ LeaveAfterError \/ Handled

Next ==
  \/ ClientSends \/ ClientGone \/ Expire
  \/ Close \/ Read \/ SeeDone \/ Renew \/ TakeTick

Spec == Init /\ [][Next]_vars

(***************************************************************************)
(* Fairness: goroutines that can run do, time passes, a broker call in     *)
(* handleMsg returns (see Pubsub), and select takes a case that stays      *)
(* ready. The client owes nothing.                                         *)
(***************************************************************************)
Fairness ==
  /\ WF_vars(Expire) /\ WF_vars(Close) /\ WF_vars(Read)
  /\ WF_vars(SeeDone) /\ WF_vars(Renew) /\ WF_vars(TakeTick)

FairSpec == Spec /\ Fairness

-----------------------------------------------------------------------------
(* Properties.                                                             *)

\* "ensure only close once" (ws.go:176): close handler and timeout may race,
\* and Done is still closed once.
ClosedOnce == ~panicked

\* Who sees Done closed may rely on the connection being closed.
DoneMeansClosed == done => ~connOpen

\* A client that stops pinging is closed, whatever else it sends: messages
\* do not renew the timer. So is one that vanishes without a close frame,
\* though the reader, which notices first, only waits.
Pings == reader = "renew"
SilentIsClosed == <>[]~Pings => <>done

\* Both goroutines of a closed connection end, with one exception: a reader
\* in keepAlive whose checkIsAlive has returned waits for ever.
GoroutinesEnd ==
  done ~> /\ checker = "exit"
          /\ reader \in {"exit", "renew"}

\* "reset timer" (ws.go:207): a connection is closed for silence only when
\* the interval has passed since the last ping.
ClosedOnlyWhenSilent == [][TakeTick => ~running]_vars
=============================================================================
