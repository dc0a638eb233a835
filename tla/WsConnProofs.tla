---------------------------- MODULE WsConnProofs ----------------------------
(***************************************************************************)
(* Closing a WebSocket connection once, in the right order, whoever starts *)
(* it and however many frames are on their way; and where its goroutines   *)
(* can be.                                                                 *)
(***************************************************************************)
EXTENDS WsConn, TLAPS

\* How far the Once has got decides what is closed.
OnceInv ==
  /\ done <=> once = "done"
  /\ connOpen <=> once = "new"
  /\ once = "reader" <=> reader = "closing"
  /\ once = "checker" <=> checker = "closing"
  /\ once \in {"new", "reader", "checker", "done"}
  /\ done \in BOOLEAN /\ connOpen \in BOOLEAN
  /\ frames \in Seq(Frames)
  /\ ClosedOnce

\* The invariant at the start.
LEMMA InitOnceInv == Init => OnceInv
<1> SUFFICES ASSUME Init PROVE OnceInv
  OBVIOUS
<1>1. frames \in Seq(Frames)
  BY DEF Init
<1>2. QED
  BY <1>1 DEF Init, OnceInv, ClosedOnce

\* The invariant is inductive.
LEMMA StepOnceInv == OnceInv /\ [Next]_vars => OnceInv'
<1> SUFFICES ASSUME OnceInv, [Next]_vars PROVE OnceInv'
  OBVIOUS
<1> USE DEF OnceInv, ClosedOnce
\* Steps of the environment and of the select leave the Once alone.
<1>1. CASE ClientSends \/ ClientGone \/ Expire
  <2>1. frames' \in Seq(Frames)
    BY <1>1 DEF ClientSends, ClientGone, Expire
  <2>2. QED
    BY <1>1, <2>1 DEF ClientSends, ClientGone, Expire
<1>2. CASE TakeFrame
  <2>1. Head(frames) \in Frames /\ Tail(frames) \in Seq(Frames)
    BY <1>2 DEF TakeFrame
  <2>2. reader = "read" /\ reader' # "closing"
    BY <1>2, <2>1 DEF TakeFrame, HandlerOf, Frames
  <2>3. QED
    BY <1>2, <2>1, <2>2 DEF TakeFrame
<1>3. CASE ReadFails
  <2>1. frames' \in Seq(Frames)
    BY <1>3 DEF ReadFails
  <2>2. reader' # "closing" /\ reader # "closing"
    BY <1>3 DEF ReadFails
  <2>3. UNCHANGED <<checker, once, connOpen, done, panicked>>
    BY <1>3 DEF ReadFails
  <2>4. QED
    BY <2>1, <2>2, <2>3
<1>4. CASE LeaveAfterError \/ Handled
  BY <1>4 DEF LeaveAfterError, Handled
<1>5. CASE SeeDone \/ Renew \/ TakeTick
  BY <1>5 DEF SeeDone, Renew, TakeTick
\* The three steps of Close.
<1>6. ASSUME NEW who \in {"reader", "checker"}, CloseConn(who)
      PROVE  OnceInv'
  BY <1>6 DEF CloseConn, Moves
<1>7. ASSUME NEW who \in {"reader", "checker"}, CloseDone(who)
      PROVE  OnceInv'
  <2>1. once = who /\ ~done
    BY <1>7 DEF CloseDone, Moves
  <2>2. reader' # "closing" /\ checker' # "closing"
    BY <1>7, <2>1 DEF CloseDone, Moves, AfterClose
  <2>3. QED
    BY <1>7, <2>1, <2>2 DEF CloseDone
<1>8. ASSUME NEW who \in {"reader", "checker"}, CloseAgain(who)
      PROVE  OnceInv'
  BY <1>8 DEF CloseAgain, Moves, AfterClose
<1>9. CASE UNCHANGED vars
  BY <1>9 DEF vars
<1>10. QED
  BY <1>1, <1>2, <1>3, <1>5, <1>6, <1>7, <1>8, <1>9, <1>4
     DEF Next, Close, Read

\* "ensure only close once" (ws.go:176): Done is never closed twice.
THEOREM CloseOnce == Spec => []ClosedOnce
<1>1. OnceInv => ClosedOnce
  BY DEF OnceInv
<1>2. QED
  BY <1>1, InitOnceInv, StepOnceInv, PTL DEF Spec

\* Done is closed only after the connection is.
THEOREM ClosedBeforeDone == Spec => []DoneMeansClosed
<1>1. OnceInv => DoneMeansClosed
  BY DEF OnceInv, DoneMeansClosed
<1>2. QED
  BY <1>1, InitOnceInv, StepOnceInv, PTL DEF Spec

\* Every step keeps the types.
LEMMA StepTypeOK == OnceInv /\ TypeOK /\ [Next]_vars => TypeOK'
<1> SUFFICES ASSUME OnceInv, TypeOK, [Next]_vars PROVE TypeOK'
  OBVIOUS
<1> USE DEF TypeOK
\* How long the queue of frames is.
<1>1. frames' \in Seq(Frames) /\ Len(frames') <= MaxBuffered
  <2>1. Len(frames) \in Nat /\ MaxBuffered \in Nat
    BY MaxBufferedAssumption
  <2>2. CASE ClientSends
    <3>1. PICK f \in Frames : frames' = Append(frames, f)
      BY <2>2 DEF ClientSends
    <3>2. Len(frames) < MaxBuffered
      BY <2>2 DEF ClientSends
    <3>3. QED
      BY <2>1, <3>1, <3>2
  <2>3. CASE TakeFrame
    BY <2>1, <2>3 DEF TakeFrame
  <2>4. CASE ReadFails
    <3>1. frames' = <<>>
      BY <2>4 DEF ReadFails
    <3>2. QED
      BY <2>1, <3>1
  <2>5. CASE ~(ClientSends \/ TakeFrame \/ ReadFails)
    BY <2>5 DEF Next, ClientGone, Expire, Close, CloseConn, CloseDone, CloseAgain,
       Read, LeaveAfterError, Handled, SeeDone, Renew, TakeTick, vars
  <2>6. QED
    BY <2>2, <2>3, <2>4, <2>5
\* Where the goroutines and the Once are.
<1>2. OnceInv'
  BY StepOnceInv
<1>3. /\ reader' \in {"read", "handle", "renew", "close", "closing", "check", "exit"}
      /\ checker' \in {"select", "close", "closing", "exit"}
      /\ running' \in BOOLEAN /\ tick' \in BOOLEAN /\ client' \in {"up", "gone"}
  <2>1. CASE ClientSends \/ ClientGone \/ Expire
    BY <2>1 DEF ClientSends, ClientGone, Expire
  <2>2. ASSUME NEW who \in {"reader", "checker"},
               CloseConn(who) \/ CloseDone(who) \/ CloseAgain(who)
        PROVE  <1>3!1 /\ <1>3!2 /\ <1>3!3
    BY <2>2 DEF CloseConn, CloseDone, CloseAgain, Moves, AfterClose
  <2>3. CASE TakeFrame
    <3>1. Head(frames) \in Frames
      BY <2>3 DEF TakeFrame
    <3>2. QED
      BY <2>3, <3>1 DEF TakeFrame, HandlerOf, Frames
  <2>4. CASE ReadFails \/ LeaveAfterError \/ Handled
    BY <2>4 DEF ReadFails, LeaveAfterError, Handled
  <2>5. CASE SeeDone \/ Renew \/ TakeTick
    BY <2>5 DEF SeeDone, Renew, TakeTick
  <2>6. CASE UNCHANGED vars
    BY <2>6 DEF vars
  <2>7. QED
    BY <2>1, <2>2, <2>3, <2>4, <2>5, <2>6 DEF Next, Close, Read
<1>4. panicked' \in BOOLEAN
  <2>1. panicked' = panicked \/ panicked' = (panicked \/ done)
    BY DEF Next, ClientSends, ClientGone, Expire, Close, CloseConn, CloseDone,
       CloseAgain, Read, TakeFrame, ReadFails, LeaveAfterError, Handled, SeeDone,
       Renew, TakeTick, vars
  <2>2. panicked \in BOOLEAN
    OBVIOUS
  <2>3. QED
    BY <2>1, <2>2, Zenon
<1>5. QED
  BY <1>1, <1>2, <1>3, <1>4 DEF OnceInv

\* Every goroutine is where the code can be, the one that runs the Once at its
\* body, and no more frames wait than the connection holds.
THEOREM TypeCorrect == Spec => []TypeOK
<1>1. Init => TypeOK
  <2>1. Init => frames \in Seq(Frames) /\ Len(frames) <= MaxBuffered
    BY MaxBufferedAssumption DEF Init
  <2>2. QED
    BY <2>1 DEF Init, TypeOK
<1>2. QED
  BY <1>1, InitOnceInv, StepOnceInv, StepTypeOK, PTL DEF Spec

=============================================================================
