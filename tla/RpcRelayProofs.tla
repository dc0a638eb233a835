--------------------------- MODULE RpcRelayProofs ---------------------------
(***************************************************************************)
(* What RpcRelay guarantees for every capacity of its channels and every   *)
(* length of a stream.                                                     *)
(***************************************************************************)
EXTENDS RpcRelay, TLAPS

\* The inductive invariant.
RelayInv ==
  /\ TypeOK /\ Control
  /\ DeliveredInOrder /\ CloseIsComplete /\ OneOutcome /\ NothingLost

\* What the three sequence operations of the model return, stated once.
LEMMA EmptyFacts == <<>> \in Seq(Nat) /\ Len(<<>>) = 0
  OBVIOUS

\* What Append makes of a channel.
LEMMA AppendFacts ==
  ASSUME NEW s \in Seq(Nat), NEW n \in Nat
  PROVE  /\ Append(s, n) \in Seq(Nat)
         /\ Len(Append(s, n)) = Len(s) + 1
         /\ \A i \in 1..Len(s) : Append(s, n)[i] = s[i]
         /\ Append(s, n)[Len(s) + 1] = n
  OBVIOUS

\* What a receive leaves of a channel.
LEMMA TailFacts ==
  ASSUME NEW s \in Seq(Nat), s # <<>>
  PROVE  /\ Head(s) \in Nat /\ Head(s) = s[1]
         /\ Tail(s) \in Seq(Nat)
         /\ Len(s) >= 1 /\ Len(Tail(s)) = Len(s) - 1
         /\ \A i \in 1..Len(Tail(s)) : Tail(s)[i] = s[i + 1]
  OBVIOUS

\* The types at the start.
LEMMA InitTypeOK == Init => TypeOK
<1> SUFFICES ASSUME Init PROVE TypeOK
  OBVIOUS
<1>1. /\ dataChan \in Seq(Nat) /\ Len(dataChan) <= DataCap
      /\ delivered \in Seq(Nat) /\ data \in Nat
  BY EmptyFacts, CapAssumption DEF Init
<1>2. /\ handler \in HandlerPc /\ invoker \in InvokerPc
      /\ received \in Nat /\ doneLen \in 0..DoneCap
      /\ response \in Responses
  BY CapAssumption DEF Init, HandlerPc, Preparing, Writing, InvokerPc,
     Responses
<1>3. /\ isStream \in BOOLEAN /\ dataClosed \in BOOLEAN
      /\ cancelled \in BOOLEAN /\ clientGone \in BOOLEAN
      /\ closeSent \in BOOLEAN
  BY DEF Init
<1>4. QED
  BY <1>1, <1>2, <1>3 DEF TypeOK

\* Every step keeps the types.
LEMMA StepTypeOK == TypeOK /\ [Next]_vars => TypeOK'
<1> SUFFICES ASSUME TypeOK, [Next]_vars PROVE TypeOK'
  OBVIOUS
<1> USE CapAssumption DEF TypeOK, HandlerPc, Preparing, Writing, InvokerPc,
    Responses
<1>1. CASE ForwardPlain
  BY <1>1 DEF ForwardPlain, invokerVars, channels
<1>2. CASE Prepare
  BY <1>2 DEF Prepare, StageAfter, invokerVars, channels, clientVars
<1>3. CASE PrepareFails
  BY <1>3 DEF PrepareFails, AbortWithMsg, Return, invokerVars, channels
<1>4. CASE Call
  BY <1>4 DEF Call, channels, clientVars
<1>5. CASE Upgrade
  BY <1>5 DEF Upgrade, Return, invokerVars, channels
<1>6. CASE TakeDone
  BY <1>6 DEF TakeDone, invokerVars, clientVars
<1>7. CASE TakeData
  BY <1>7, TailFacts DEF TakeData, invokerVars, clientVars
<1>8. CASE TakeClosed
  BY <1>8 DEF TakeClosed, Return, invokerVars, channels, clientVars
<1>9. CASE WriteEnds
  <2>1. delivered' \in Seq(Nat)
    BY <1>9, AppendFacts DEF WriteEnds
  <2>2. /\ handler' \in HandlerPc /\ cancelled' \in BOOLEAN
        /\ response' \in Responses /\ data' \in Nat
    BY <1>9 DEF WriteEnds, Return
  <2>3. QED
    BY <1>9, <2>1, <2>2 DEF WriteEnds, invokerVars, channels
<1>10. CASE TakeCancel
  BY <1>10 DEF TakeCancel, AbortWithMsg, Return, invokerVars, channels
<1>11. CASE InvokeUnary
  <2>1. dataChan' \in Seq(Nat) /\ Len(dataChan') <= DataCap
    <3>1. \/ dataChan' = dataChan
          \/ Len(dataChan) < DataCap /\ dataChan' = Append(dataChan, 1)
      BY <1>11 DEF InvokeUnary
    <3>2. CASE dataChan' = dataChan
      BY <3>2
    <3>3. CASE Len(dataChan) < DataCap /\ dataChan' = Append(dataChan, 1)
      <4>1. 1 \in Nat /\ dataChan \in Seq(Nat) /\ Len(dataChan) \in Nat
        OBVIOUS
      <4>2. Append(dataChan, 1) \in Seq(Nat)
        BY <4>1
      <4>3. Len(Append(dataChan, 1)) = Len(dataChan) + 1
        BY <4>1
      <4>4. QED
        BY <3>3, <4>1, <4>2, <4>3
    <3>4. QED
      BY <3>1, <3>2, <3>3
  <2>2. received' \in Nat /\ doneLen' \in 0..DoneCap
    BY <1>11 DEF InvokeUnary, ReportError
  <2>3. invoker' \in InvokerPc
    BY <1>11 DEF InvokeUnary, ReportError
  <2>4. UNCHANGED <<handler, data, isStream, dataClosed, cancelled,
                    clientGone, response, delivered, closeSent>>
    BY <1>11 DEF InvokeUnary, clientVars
  <2>5. QED
    BY <2>1, <2>2, <2>3, <2>4
<1>12. CASE InvokeStream
  BY <1>12 DEF InvokeStream, ReportError, clientVars
<1>13. CASE RecvMsg
  BY <1>13 DEF RecvMsg, channels, clientVars
<1>14. CASE RecvEOF
  BY <1>14 DEF RecvEOF, clientVars
<1>15. CASE RecvError
  BY <1>15 DEF RecvError, ReportError, clientVars
<1>16. CASE SendData
  BY <1>16 DEF SendData, clientVars
<1>17. CASE ClientLeaves
  BY <1>17 DEF ClientLeaves, invokerVars, channels, clientVars
<1>18. CASE UNCHANGED vars
  BY <1>18 DEF vars, invokerVars, channels, clientVars
<1>19. CASE WriteFails
  BY <1>19 DEF WriteFails, Return, invokerVars, channels, clientVars
<1>20. CASE CloseEnds
  BY <1>20 DEF CloseEnds, Return, invokerVars, channels
<1>21. QED
  BY <1>1, <1>2, <1>3, <1>4, <1>5, <1>6, <1>7, <1>8, <1>9, <1>10, <1>11,
     <1>12, <1>13, <1>14, <1>15, <1>16, <1>17, <1>18, <1>19, <1>20
     DEF Next, HandlerStep, InvokerStep

\* The channels stay within their capacities, whatever the interleaving.
THEOREM TypeCorrect == Spec => []TypeOK
  BY InitTypeOK, StepTypeOK, PTL DEF Spec

-----------------------------------------------------------------------------
\* The invariant at the start.
LEMMA InitRelayInv == Init => RelayInv
<1> SUFFICES ASSUME Init PROVE RelayInv
  OBVIOUS
<1>1. TypeOK
  BY InitTypeOK
<1>2. Len(delivered) = 0 /\ Len(dataChan) = 0
  BY EmptyFacts DEF Init
<1>3. Control
  BY DEF Init, Control, Untouched, Preparing, Writing
<1>4. DeliveredInOrder /\ NothingLost
  BY <1>1, <1>2
     DEF Init, DeliveredInOrder, NothingLost, InHand, InWrite, TypeOK
<1>5. CloseIsComplete /\ OneOutcome
  BY <1>1, <1>2 DEF Init, CloseIsComplete, OneOutcome, InWrite
<1>6. QED
  BY <1>1, <1>3, <1>4, <1>5 DEF RelayInv

\* A step that leaves the messages where they are keeps them in order.
LEMMA SameMessages ==
  ASSUME RelayInv, UNCHANGED <<received, dataChan, delivered>>,
         InHand' = InHand, handler = "returned" => handler' = "returned",
         handler' = "returned" \/ (InWrite' = InWrite /\ data' = data)
  PROVE  DeliveredInOrder' /\ NothingLost'
<1>1. DeliveredInOrder'
  BY DEF RelayInv, DeliveredInOrder
<1>2. CASE handler' = "returned"
  BY <1>1, <1>2 DEF NothingLost
<1>3. CASE handler' # "returned" /\ InWrite' = InWrite /\ data' = data
  <2>1. handler' = "write" => handler = "write"
    BY <1>3 DEF InWrite
  <2>2. QED
    BY <1>1, <1>3, <2>1 DEF RelayInv, NothingLost
<1>4. QED
  BY <1>2, <1>3

\* The invariant is inductive.
LEMMA StepRelayInv == RelayInv /\ [Next]_vars => RelayInv'
<1> SUFFICES ASSUME RelayInv, [Next]_vars PROVE RelayInv'
  OBVIOUS
<1> USE DEF RelayInv
<1>0. TypeOK'
  BY StepTypeOK
<1> USE <1>0
<1> DEFINE Rest == Control /\ CloseIsComplete /\ OneOutcome
<1>a. SUFFICES Rest' /\ DeliveredInOrder' /\ NothingLost'
  OBVIOUS
<1>1. CASE ForwardPlain
  BY <1>1, SameMessages DEF ForwardPlain, invokerVars, channels, Control,
     Untouched, CloseIsComplete, OneOutcome, InHand, InWrite,
     Preparing, Writing
<1>2. CASE Prepare
  BY <1>2, SameMessages DEF Prepare, StageAfter, invokerVars, channels,
     clientVars, Control, Untouched, CloseIsComplete, OneOutcome, InHand,
     InWrite, Preparing, Writing
<1>3. CASE PrepareFails
  BY <1>3, SameMessages DEF PrepareFails, Return, invokerVars, channels,
     Control, Untouched, CloseIsComplete, OneOutcome, InHand, InWrite,
     Preparing, Writing
<1>4. CASE Call
  BY <1>4, SameMessages DEF Call, channels, clientVars, Control, Untouched,
     CloseIsComplete, OneOutcome, InHand, InWrite,
     Preparing, Writing
<1>5. CASE Upgrade
  BY <1>5, SameMessages DEF Upgrade, Return, invokerVars, channels, Control,
     Untouched, CloseIsComplete, OneOutcome, InHand, InWrite,
     Preparing, Writing
<1>6. CASE TakeDone
  BY <1>6, SameMessages DEF TakeDone, invokerVars, clientVars, Control,
     Untouched, CloseIsComplete, OneOutcome, InHand, InWrite,
     Preparing, Writing, TypeOK
<1>7. CASE TakeData
  <2>1. /\ UNCHANGED <<isStream, invoker, received, dataClosed, doneLen,
                       response, delivered, closeSent>>
        /\ handler = "relay" /\ handler' = "write" /\ dataChan # <<>>
        /\ dataChan' = Tail(dataChan) /\ data' = Head(dataChan)
    BY <1>7 DEF TakeData, invokerVars, clientVars
  <2>2. /\ Len(dataChan) >= 1 /\ Len(dataChan') = Len(dataChan) - 1
        /\ \A i \in 1..Len(dataChan') : dataChan'[i] = dataChan[i + 1]
        /\ data' = dataChan[1]
    BY <2>1, TailFacts DEF TypeOK
  <2>3. InWrite = 0 /\ InWrite' = 1 /\ InHand' = InHand
    BY <2>1 DEF InWrite, InHand
  <2>4. /\ Len(delivered) \in Nat /\ Len(dataChan) \in Nat /\ InHand \in Nat
        /\ Len(delivered) + Len(dataChan) + InHand = received
        /\ \A i \in 1..Len(dataChan) : dataChan[i] = Len(delivered) + i
    BY <2>1, <2>3 DEF NothingLost, InHand, TypeOK
  <2>5. Control'
    BY <2>1 DEF Control, Untouched, Preparing, Writing
  <2>6. CloseIsComplete' /\ OneOutcome'
    BY <2>1, <2>2, <2>3, <2>4 DEF CloseIsComplete, OneOutcome, TypeOK
  <2>7. DeliveredInOrder'
    BY <2>1 DEF DeliveredInOrder
  <2>8. NothingLost'
    <3>1. data' = Len(delivered) + 1
      BY <2>2, <2>4
    <3>2. Len(dataChan') \in Nat /\ DOMAIN dataChan' = 1..Len(dataChan')
      BY <1>0 DEF TypeOK
    <3>3. \A i \in 1..Len(dataChan') : dataChan'[i] = Len(delivered) + 1 + i
      BY <2>2, <2>4, <3>2
    <3>4. Len(delivered) + 1 + Len(dataChan') + InHand = received
      BY <2>2, <2>4, <3>2
    <3>5. QED
      BY <2>1, <2>3, <3>1, <3>2, <3>3, <3>4 DEF NothingLost
  <2>9. QED
    BY <2>5, <2>6, <2>7, <2>8
<1>8. CASE TakeClosed
  <2>1. /\ UNCHANGED <<data, isStream, invoker, received, dataChan,
                       dataClosed, doneLen, response, delivered, closeSent>>
        /\ handler = "relay" /\ dataClosed /\ dataChan = <<>>
        /\ handler' = "close"
    BY <1>8 DEF TakeClosed, invokerVars, channels, clientVars, Control
  <2>2. Control'
    BY <2>1 DEF Control, Untouched, Preparing, Writing
  <2>3. CloseIsComplete' /\ OneOutcome'
    BY <2>1 DEF CloseIsComplete, OneOutcome, InWrite
  <2>4. QED
    BY <2>1, <2>2, <2>3, SameMessages DEF InHand, InWrite
<1>9. CASE WriteEnds
  <2>1. /\ UNCHANGED <<isStream, invoker, received, dataChan, dataClosed,
                       doneLen, closeSent>>
        /\ handler = "write" /\ delivered' = Append(delivered, data)
    BY <1>9 DEF WriteEnds, invokerVars, channels
  <2>2. \/ isStream /\ handler' = "relay" /\ response' = response
        \/ ~isStream /\ handler' = "returned"
    BY <1>9 DEF WriteEnds, Return
  <2>3. InWrite = 1 /\ InWrite' = 0 /\ InHand' = InHand /\ InHand \in Nat
    BY <2>1, <2>2 DEF InWrite, InHand
  <2>4. /\ Len(delivered) \in Nat /\ Len(dataChan) \in Nat
        /\ Len(delivered) + 1 + Len(dataChan) + InHand = received
        /\ data = Len(delivered) + 1 /\ data \in Nat
        /\ \A i \in DOMAIN dataChan : dataChan[i] = Len(delivered) + 1 + i
    BY <2>1, <2>3 DEF NothingLost, TypeOK
  <2>5. /\ Len(delivered') = Len(delivered) + 1
        /\ \A i \in 1..Len(delivered) : delivered'[i] = delivered[i]
        /\ delivered'[Len(delivered) + 1] = data
    BY <2>1, <2>4, AppendFacts DEF TypeOK
  <2>6. Control' /\ ~closeSent'
    BY <2>1, <2>2 DEF Control, Untouched, Preparing, Writing
  <2>7. CloseIsComplete' /\ OneOutcome'
    <3>1. dataClosed' => doneLen' = 0
      BY <2>1 DEF OneOutcome
    <3>2. ~isStream' =>
            doneLen' + Len(dataChan') + InWrite' + Len(delivered') <= 1
      <4>1. doneLen \in Nat
        BY CapAssumption DEF TypeOK
      <4>2. QED
        BY <2>1, <2>3, <2>4, <2>5, <4>1 DEF OneOutcome
    <3>3. QED
      BY <2>6, <3>1, <3>2 DEF CloseIsComplete, OneOutcome
  <2>8. DeliveredInOrder'
    <3>1. DOMAIN delivered' = 1..Len(delivered')
      BY <1>0 DEF TypeOK
    <3>2. \A i \in 1..Len(delivered) : delivered[i] = i
      BY DEF DeliveredInOrder, TypeOK
    <3>3. QED
      BY <2>4, <2>5, <3>1, <3>2 DEF DeliveredInOrder
  <2>9. NothingLost'
    <3>1. CASE handler' = "returned"
      BY <3>1 DEF NothingLost
    <3>2. CASE handler' = "relay"
      BY <2>1, <2>3, <2>4, <2>5, <3>2 DEF NothingLost
    <3>3. QED
      BY <2>2, <3>1, <3>2
  <2>10. QED
    BY <2>6, <2>7, <2>8, <2>9
<1>10. CASE TakeCancel
  BY <1>10, SameMessages DEF TakeCancel, Return, invokerVars, channels,
     Control, Untouched, CloseIsComplete, OneOutcome, InHand, InWrite,
     Preparing, Writing
<1>11. CASE InvokeUnary
  <2>1. /\ invoker = "invoke" /\ ~isStream /\ Untouched /\ ~closeSent'
        /\ invoker' = "exit"
        /\ UNCHANGED <<handler, data, isStream, dataClosed, response,
                       delivered, closeSent>>
    BY <1>11, EmptyFacts DEF InvokeUnary, ReportError, clientVars, Control,
       Untouched, CloseIsComplete
  <2>2. /\ Len(delivered) = 0 /\ Len(dataChan) = 0 /\ handler \notin Writing
        /\ InWrite = 0 /\ InWrite' = 0
    BY <2>1, EmptyFacts DEF Untouched, InWrite, Writing
  <2>3. CASE doneLen' = doneLen + 1 /\ UNCHANGED <<received, dataChan>>
    BY <2>1, <2>2, <2>3, SameMessages DEF Control, Untouched,
       CloseIsComplete, OneOutcome, InHand, InWrite,
       Preparing, Writing
  <2>4. CASE /\ received' = 1 /\ dataChan' = Append(dataChan, 1)
             /\ doneLen' = doneLen
    <3>1. Len(dataChan') = 1 /\ dataChan'[1] = 1
      BY <2>2, <2>4, AppendFacts DEF TypeOK
    <3>2. Rest'
      BY <2>1, <2>2, <2>4, <3>1 DEF Control, Untouched, CloseIsComplete,
         OneOutcome, Preparing, Writing
    <3>3. DeliveredInOrder' /\ NothingLost'
      BY <2>1, <2>2, <2>4, <3>1
         DEF DeliveredInOrder, NothingLost, InHand, Writing, TypeOK
    <3>4. QED
      BY <3>2, <3>3
  <2>5. QED
    BY <1>11, <2>3, <2>4 DEF InvokeUnary, ReportError
<1>12. CASE InvokeStream
  BY <1>12, SameMessages, EmptyFacts DEF InvokeStream, ReportError,
     clientVars, Control, Untouched, CloseIsComplete, OneOutcome, InHand,
     InWrite, Preparing, Writing
<1>13. CASE RecvMsg
  <2>1. Rest'
    BY <1>13 DEF RecvMsg, channels, clientVars, Control, Untouched,
       CloseIsComplete, OneOutcome, InWrite, Preparing, Writing
  <2>2. /\ UNCHANGED <<handler, data, dataChan, delivered>>
        /\ received' = received + 1
    BY <1>13 DEF RecvMsg, channels, clientVars
  <2>3. DeliveredInOrder'
    BY <2>2 DEF DeliveredInOrder
  <2>4. /\ InHand = 0 /\ InHand' = 1
        /\ InWrite' = InWrite /\ InWrite \in Nat
    BY <1>13, <2>2 DEF RecvMsg, InHand, InWrite
  <2>5. /\ Len(delivered) \in Nat /\ Len(dataChan) \in Nat
        /\ received \in Nat
    BY DEF TypeOK
  <2>6. NothingLost'
    <3> SUFFICES ASSUME handler # "returned"
                 PROVE  NothingLost'
      BY <2>2 DEF NothingLost
    <3>1. Len(delivered) + InWrite + Len(dataChan) + 1 = received + 1
      BY <2>4, <2>5 DEF NothingLost
    <3>2. /\ handler = "write" => data = Len(delivered) + 1
          /\ \A i \in DOMAIN dataChan :
               dataChan[i] = Len(delivered) + InWrite + i
      BY DEF NothingLost
    <3>3. QED
      BY <2>2, <2>4, <3>1, <3>2 DEF NothingLost
  <2>7. QED
    BY <2>1, <2>3, <2>6
<1>14. CASE RecvEOF
  BY <1>14, SameMessages DEF RecvEOF, clientVars, Control, Untouched,
     CloseIsComplete, OneOutcome, InHand, InWrite,
     Preparing, Writing
<1>15. CASE RecvError
  BY <1>15, SameMessages DEF RecvError, ReportError, clientVars, Control,
     Untouched, CloseIsComplete, OneOutcome, InHand, InWrite,
     Preparing, Writing
<1>16. CASE SendData
  <2>1. Rest'
    BY <1>16 DEF SendData, clientVars, Control, Untouched, CloseIsComplete,
       OneOutcome, InWrite, Preparing, Writing
  <2>2. DeliveredInOrder'
    BY <1>16 DEF SendData, clientVars, DeliveredInOrder
  <2>3. /\ Len(dataChan') = Len(dataChan) + 1
        /\ \A i \in 1..Len(dataChan) : dataChan'[i] = dataChan[i]
        /\ dataChan'[Len(dataChan) + 1] = received
    BY <1>16, AppendFacts DEF SendData, TypeOK
  <2>4. NothingLost'
    <3>1. /\ InHand = 1 /\ InHand' = 0 /\ InWrite' = InWrite
          /\ InWrite \in Nat
          /\ UNCHANGED <<handler, data, received, delivered>>
      BY <1>16 DEF SendData, clientVars, InHand, InWrite
    <3>2. SUFFICES ASSUME handler # "returned" PROVE NothingLost'
      BY <3>1 DEF NothingLost
    <3>3. /\ Len(delivered) \in Nat /\ Len(dataChan) \in Nat
          /\ Len(delivered) + InWrite + Len(dataChan) + 1 = received
          /\ handler = "write" => data = Len(delivered) + 1
          /\ \A i \in 1..Len(dataChan) :
               dataChan[i] = Len(delivered) + InWrite + i
      BY <3>1, <3>2 DEF NothingLost, TypeOK
    <3>4. Len(delivered') + InWrite' + Len(dataChan') + InHand' = received'
      BY <2>3, <3>1, <3>3
    <3>5. DOMAIN dataChan' = 1..Len(dataChan')
      BY <1>0 DEF TypeOK
    <3>6. \A i \in 1..Len(dataChan') :
            dataChan'[i] = Len(delivered') + InWrite' + i
      <4>1. TAKE i \in 1..Len(dataChan')
      <4>2. CASE i = Len(dataChan) + 1
        BY <2>3, <3>1, <3>3, <4>2
      <4>3. CASE i # Len(dataChan) + 1
        <5>1. i \in 1..Len(dataChan)
          BY <2>3, <3>3, <4>3
        <5>2. QED
          BY <2>3, <3>1, <3>3, <5>1
      <4>4. QED
        BY <4>2, <4>3
    <3>7. QED
      BY <3>1, <3>3, <3>4, <3>5, <3>6 DEF NothingLost
  <2>5. QED
    BY <2>1, <2>2, <2>4
<1>17. CASE ClientLeaves
  BY <1>17, SameMessages DEF ClientLeaves, invokerVars, channels, clientVars,
     Control, Untouched, CloseIsComplete, OneOutcome, InHand, InWrite,
     Preparing, Writing
<1>18. CASE UNCHANGED vars
  BY <1>18, SameMessages DEF vars, invokerVars, channels, clientVars,
     Control, Untouched, CloseIsComplete, OneOutcome, InHand, InWrite,
     Preparing, Writing
<1>19. CASE WriteFails
  <2>1. /\ UNCHANGED <<isStream, invoker, received, dataChan, dataClosed,
                       doneLen, delivered, closeSent>>
        /\ handler = "write" /\ handler' = "returned"
    BY <1>19 DEF WriteFails, Return, invokerVars, channels, clientVars
  <2>2. Control' /\ CloseIsComplete'
    BY <2>1 DEF Control, Untouched, CloseIsComplete, Preparing, Writing
  <2>3. OneOutcome'
    BY <2>1 DEF OneOutcome, InWrite, TypeOK
  <2>4. QED
    BY <2>1, <2>2, <2>3, SameMessages DEF InHand
<1>20. CASE CloseEnds
  <2>1. /\ UNCHANGED <<isStream, invoker, received, dataChan, dataClosed,
                       doneLen, delivered>>
        /\ handler = "close" /\ handler' = "returned"
        /\ dataClosed /\ dataChan = <<>> /\ invoker = "exit"
    BY <1>20 DEF CloseEnds, Return, invokerVars, channels, Control
  <2>2. Len(delivered) = received
    BY <2>1, EmptyFacts DEF NothingLost, InHand, InWrite, TypeOK
  <2>3. Control' /\ CloseIsComplete'
    BY <2>1, <2>2 DEF Control, Untouched, CloseIsComplete, Preparing, Writing
  <2>4. OneOutcome'
    BY <2>1 DEF OneOutcome, InWrite, TypeOK
  <2>5. QED
    BY <2>1, <2>3, <2>4, SameMessages DEF InHand
<1>21. QED
  BY <1>1, <1>2, <1>3, <1>4, <1>5, <1>6, <1>7, <1>8, <1>9, <1>10, <1>11,
     <1>12, <1>13, <1>14, <1>15, <1>16, <1>17, <1>18, <1>19, <1>20
     DEF Next, HandlerStep, InvokerStep

\* RelayInv is inductive, so it holds in every reachable state.
THEOREM RelaySafe == Spec => []RelayInv
  BY InitRelayInv, StepRelayInv, PTL DEF Spec

\* The client receives the messages of a call in order, none missing in
\* between, whatever the sizes of the channels (proxy.go's select loop).
THEOREM InOrder == Spec => []DeliveredInOrder
<1>1. RelayInv => DeliveredInOrder
  BY DEF RelayInv
<1>2. QED
  BY <1>1, RelaySafe, PTL

\* A close frame is written only when the client has every message that was
\* received before the end of the stream.
THEOREM CompleteClose == Spec => []CloseIsComplete
<1>1. RelayInv => CloseIsComplete
  BY DEF RelayInv
<1>2. QED
  BY <1>1, RelaySafe, PTL

\* A call ends in one way only: Done and DataChan are exclusive.
THEOREM SingleOutcome == Spec => []OneOutcome
<1>1. RelayInv => OneOutcome
  BY DEF RelayInv
<1>2. QED
  BY <1>1, RelaySafe, PTL

\* While the handler runs, every received message is written, buffered or
\* in the invoker's hand.
THEOREM NoMessageLost == Spec => []NothingLost
<1>1. RelayInv => NothingLost
  BY DEF RelayInv
<1>2. QED
  BY <1>1, RelaySafe, PTL

-----------------------------------------------------------------------------
(* The two goroutines implement Exchange.                                  *)

\* The relay starts as the abstract exchange.
LEMMA InitExchange == Init => Exch!Init
  BY EmptyFacts DEF Init, Exch!Init, Phase

\* Every step of the relay is one of the abstract exchange, or a stutter.
LEMMA StepExchange ==
  ASSUME RelayInv, [Next]_vars
  PROVE  [Exch!Next]_(Exch!vars)
<1> USE DEF RelayInv, Exch!vars
<1>a. Len(delivered) \in Nat /\ received \in Nat
  BY DEF TypeOK
\* Steps that the client does not see.
<1>1. CASE UNCHANGED <<received, delivered, handler, response, closeSent>>
  BY <1>1 DEF Phase
<1>2. CASE /\ UNCHANGED <<received, delivered, closeSent>>
           /\ handler # "returned" /\ handler' # "returned"
  BY <1>2 DEF Phase
\* Steps with which the handler gives up.
<1>3. CASE /\ UNCHANGED <<received, delivered, closeSent>>
           /\ handler # "returned" /\ handler' = "returned"
           /\ response' \notin {"json", "proxied"}
  BY <1>3 DEF Phase, Control, Exch!Next, Exch!Break
<1>4. CASE ForwardPlain
  <2>1. Len(delivered) = 0 /\ received = 0 /\ UNCHANGED <<delivered, received>>
    BY <1>4, EmptyFacts DEF ForwardPlain, invokerVars, Control, Untouched,
       Preparing
  <2>2. Phase = "open" /\ Phase' = "ended"
    BY <1>4 DEF ForwardPlain, Phase
  <2>3. QED
    BY <2>1, <2>2 DEF Exch!Next, Exch!End
<1>5. CASE WriteEnds
  <2>1. /\ handler = "write" /\ UNCHANGED <<received, closeSent>>
        /\ delivered' = Append(delivered, data) /\ data \in Nat
    BY <1>5 DEF WriteEnds, invokerVars, TypeOK
  <2>2. Len(delivered') = Len(delivered) + 1
    BY <2>1, AppendFacts DEF TypeOK
  <2>3. /\ InWrite = 1 /\ Len(dataChan) \in Nat /\ InHand \in {0, 1}
        /\ Len(delivered) + 1 + Len(dataChan) + InHand = received
    BY <2>1 DEF InWrite, NothingLost, InHand, TypeOK
  <2>4. CASE isStream
    <3>1. Phase = "open" /\ Phase' = "open"
      BY <1>5, <2>1, <2>4 DEF WriteEnds, Phase
    <3>2. Len(delivered) < received
      BY <1>a, <2>3
    <3>3. QED
      BY <2>1, <2>2, <3>1, <3>2 DEF Exch!Next, Exch!Deliver
  <2>5. CASE ~isStream
    <3>1. Phase = "open" /\ Phase' = "ended"
      BY <1>5, <2>1, <2>5 DEF WriteEnds, Return, Phase
    <3>2. InHand = 0
      BY <2>5 DEF InHand, Control
    <3>3. Len(delivered) = 0 /\ Len(dataChan) = 0
      <4>1. doneLen \in Nat
        BY CapAssumption DEF TypeOK
      <4>2. doneLen + Len(dataChan) + 1 + Len(delivered) <= 1
        BY <2>3, <2>5 DEF OneOutcome
      <4>3. \A k, l, m \in Nat : k + l + 1 + m <= 1 => l = 0 /\ m = 0
        OBVIOUS
      <4>4. QED
        BY <1>a, <2>3, <4>1, <4>2, <4>3
    <3>4. received = 1
      BY <2>3, <3>2, <3>3
    <3>5. QED
      BY <2>1, <2>2, <3>1, <3>3, <3>4 DEF Exch!Next, Exch!End
  <2>6. QED
    BY <2>4, <2>5 DEF TypeOK
<1>6. CASE WriteFails
  BY <1>3, <1>6 DEF WriteFails, Return, invokerVars, clientVars, Control
<1>7. CASE CloseEnds
  <2>1. /\ handler = "close" /\ handler' = "returned"
        /\ dataChan = <<>> /\ invoker = "exit" /\ closeSent' \in BOOLEAN
        /\ UNCHANGED <<received, delivered, response>>
    BY <1>7 DEF CloseEnds, Return, invokerVars, Control, TypeOK
  <2>2. Len(delivered) = received
    BY <1>a, <2>1, EmptyFacts DEF NothingLost, InHand, InWrite
  <2>3. Phase = "open" /\ Phase' \in {"ended", "broken"}
    BY <2>1 DEF Phase
  <2>4. QED
    BY <1>a, <2>1, <2>2, <2>3 DEF Exch!Next, Exch!End, Exch!Break
<1>8. CASE TakeCancel
  BY <1>3, <1>8 DEF TakeCancel, AbortWithMsg, Return, invokerVars, Control
<1>9. CASE PrepareFails
  BY <1>3, <1>9
     DEF PrepareFails, AbortWithMsg, Return, invokerVars, Control, Preparing
<1>10. CASE Upgrade
  BY <1>2, <1>3, <1>10 DEF Upgrade, Return, invokerVars
\* Steps with which the backend produces a message.
<1>11. CASE InvokeUnary
  <2>1. received = 0 /\ UNCHANGED <<delivered, handler, response, closeSent>>
    BY <1>11 DEF InvokeUnary, clientVars, Control, Untouched
  <2>2. received' \in {received, received + 1}
    BY <1>11, <2>1 DEF InvokeUnary, ReportError
  <2>3. QED
    BY <2>1, <2>2 DEF Phase, Exch!Next, Exch!Produce
<1>12. CASE RecvMsg
  BY <1>12 DEF RecvMsg, clientVars, Phase, Exch!Next, Exch!Produce
<1>13. CASE Prepare \/ Call \/ TakeDone \/ TakeData
  BY <1>2, <1>13 DEF Prepare, StageAfter, Call, TakeDone, TakeData,
     invokerVars, clientVars
<1>14. CASE InvokeStream \/ RecvEOF \/ RecvError \/ SendData
  BY <1>1, <1>14 DEF InvokeStream, RecvEOF, RecvError, SendData, clientVars
<1>15. CASE ClientLeaves \/ UNCHANGED vars
  BY <1>1, <1>15 DEF ClientLeaves, vars, invokerVars, clientVars
<1>16. CASE TakeClosed
  BY <1>2, <1>16 DEF TakeClosed, invokerVars, clientVars, Control
<1>17. QED
  BY <1>4, <1>5, <1>6, <1>7, <1>8, <1>9, <1>10, <1>11, <1>12, <1>13, <1>14,
     <1>15, <1>16 DEF Next, HandlerStep, InvokerStep

\* Whatever the capacities and the interleaving of handler and invoker, the
\* client sees an in-order exchange whose proper end is complete.
THEOREM RelayRefines == Spec => ImplementsExchange
<1>1. RelayInv /\ [Next]_vars => [Exch!Next]_(Exch!vars)
  BY StepExchange
<1>2. QED
  BY <1>1, InitExchange, RelaySafe, PTL DEF Spec, ImplementsExchange, Exch!Spec

=============================================================================
