------------------------------ MODULE RpcRelay ------------------------------
(***************************************************************************)
(* One HTTP request that the gateway turns into a gRPC call.               *)
(*                                                                         *)
(* Two goroutines share the request: the handler (Proxy.ServeHTTP), which  *)
(* prepares the call and then relays what arrives on two channels to the   *)
(* HTTP client, and the invoker (RPCClient.invokeWithUnary or              *)
(* invokeWithServiceStream), which runs the RPC and feeds those channels.  *)
(* The backend and the HTTP client are the environment.                    *)
(*                                                                         *)
(* The messages of a call are numbered in the order in which the invoker   *)
(* takes them off the RPC; their contents are left out.                    *)
(***************************************************************************)
EXTENDS Naturals, Sequences

CONSTANTS
  DataCap,   \* capacity of RPCResponse.DataChan (100 in the code)
  DoneCap,   \* capacity of RPCResponse.Done (2 in the code)
  MaxMsgs    \* bound: how many messages the backend sends in one stream

ASSUME CapAssumption ==
  DataCap \in Nat \ {0} /\ DoneCap \in Nat \ {0} /\ MaxMsgs \in Nat \ {0}

VARIABLES
  handler,     \* where the handler goroutine stands in ServeHTTP
  data,        \* the message it is writing, 0 for none
  isStream,    \* RPCResponse.IsStream
  invoker,     \* where the invoker goroutine stands
  received,    \* number of messages the invoker has taken off the RPC
  dataChan,    \* RPCResponse.DataChan: numbers of the buffered messages
  dataClosed,  \* close(dataChan) was executed
  doneLen,     \* number of errors buffered in RPCResponse.Done
  cancelled,   \* newCtx is done
  clientGone,  \* the HTTP client has disconnected
  response,    \* what the handler has written as the HTTP response
  delivered,   \* numbers of the messages written to the client
  closeSent    \* the WebSocket close frame was written

channels   == <<dataChan, dataClosed, doneLen>>
invokerVars == <<invoker, received>>
clientVars == <<response, delivered, closeSent>>
vars == <<handler, data, isStream, invokerVars, channels, cancelled,
          clientGone, clientVars>>

Preparing == {"match", "transform", "pick", "dial", "call"}
Writing   == {"write", "close"}
HandlerPc == Preparing \cup {"upgrade", "relay", "returned"} \cup Writing
InvokerPc == {"idle", "invoke", "recv", "send", "exit"}
Responses == {"none", "proxied", "json", "error", "upgraded", "rejected"}

(***************************************************************************)
(* TypeOK bounds the channels by their capacities: a send on a full        *)
(* channel blocks, it never drops and never overruns.                      *)
(***************************************************************************)
TypeOK ==
  /\ handler \in HandlerPc
  /\ data \in Nat
  /\ isStream \in BOOLEAN
  /\ invoker \in InvokerPc
  /\ received \in Nat
  /\ dataChan \in Seq(Nat) /\ Len(dataChan) <= DataCap
  /\ dataClosed \in BOOLEAN
  /\ doneLen \in 0..DoneCap
  /\ cancelled \in BOOLEAN
  /\ clientGone \in BOOLEAN
  /\ response \in Responses
  /\ delivered \in Seq(Nat)
  /\ closeSent \in BOOLEAN

Init ==
  /\ handler = "match"
  /\ data = 0
  /\ isStream = FALSE
  /\ invoker = "idle"
  /\ received = 0
  /\ dataChan = <<>>
  /\ dataClosed = FALSE
  /\ doneLen = 0
  /\ cancelled = FALSE
  /\ clientGone = FALSE
  /\ response = "none"
  /\ delivered = <<>>
  /\ closeSent = FALSE

-----------------------------------------------------------------------------
(* The handler: preparing the call.                                        *)

\* A variant without "defer cancel()".
ReturnNoCancel == handler' = "returned" /\ UNCHANGED cancelled

\* The deferred calls of ServeHTTP run when it returns: wsConn.Close,
\* conn.Close and cancel.
Return == handler' = "returned" /\ cancelled' = TRUE

\* ctx.AbortWithMsg: status 500 and a JSON body, unless a response (or the
\* switch to WebSocket) was already written.
AbortWithMsg ==
  response' = IF response = "none" THEN "error" ELSE response

\* The request carries no X-RPC-SerializeType: the reverse proxy answers it.
ForwardPlain ==
  /\ handler = "match"
  /\ handler' = "returned"
  /\ response' = "proxied"
  /\ UNCHANGED <<data, isStream, invokerVars, channels, cancelled, clientGone,
                 delivered, closeSent>>

StageAfter ==
  [match |-> "transform", transform |-> "pick", pick |-> "dial",
   dial |-> "call"]

\* IsMatchTransformRule, TransformToRPC, nextTarget and grpc.Dial succeed.
Prepare ==
  \E stage \in DOMAIN StageAfter :
    /\ handler = stage
    /\ handler' = StageAfter[stage]
    /\ UNCHANGED <<data, isStream, invokerVars, channels, cancelled,
                   clientGone, clientVars>>

\* TransformToRPC, nextTarget, grpc.Dial or client.Call returns an error.
PrepareFails ==
  /\ handler \in Preparing \ {"match"}
  /\ AbortWithMsg
  /\ Return
  /\ UNCHANGED <<data, isStream, invokerVars, channels, clientGone, delivered,
                 closeSent>>

\* client.Call found the method: it makes the channels and starts the
\* invoker; a stream is upgraded to a WebSocket before it is relayed.
Call ==
  /\ handler = "call"
  /\ isStream' \in BOOLEAN
  /\ handler' = IF isStream' THEN "upgrade" ELSE "relay"
  /\ invoker' = "invoke"
  /\ UNCHANGED <<data, received, channels, cancelled, clientGone, clientVars>>

Upgrade ==
  /\ handler = "upgrade"
  /\ \/ /\ handler' = "relay"
        /\ response' = "upgraded"
        /\ UNCHANGED cancelled
     \/ /\ Return                  \* the upgrader replied with an HTTP error
        /\ response' = "rejected"
  /\ UNCHANGED <<data, isStream, invokerVars, channels, clientGone, delivered,
                 closeSent>>

-----------------------------------------------------------------------------
(* The handler: the select loop. Each action is one ready case; when none  *)
(* is ready the default case spins, which is a stuttering step. A case that *)
(* writes to the client ends in a step of its own: a write has no deadline *)
(* and blocks for as long as the client does not read.                     *)

\* case err := <-resp.Done: the break leaves the select, not the loop.
TakeDone ==
  /\ handler = "relay"
  /\ doneLen > 0
  /\ doneLen' = doneLen - 1
  /\ UNCHANGED <<handler, data, isStream, invokerVars, dataChan, dataClosed,
                 cancelled, clientGone, clientVars>>

\* A variant that waits for the channel to be closed before it answers.
TakeDataAfterClose ==
  /\ handler = "relay"
  /\ dataChan # <<>> /\ (isStream \/ dataClosed)
  /\ data' = Head(dataChan)
  /\ dataChan' = Tail(dataChan)
  /\ handler' = "write"
  /\ UNCHANGED <<isStream, invokerVars, dataClosed, doneLen, cancelled,
                 clientGone, clientVars>>

\* case data, ok := <-resp.DataChan with ok: ToJSON or WriteMessage begins.
TakeData ==
  /\ handler = "relay"
  /\ dataChan # <<>>
  /\ data' = Head(dataChan)
  /\ dataChan' = Tail(dataChan)
  /\ handler' = "write"
  /\ UNCHANGED <<isStream, invokerVars, dataClosed, doneLen, cancelled,
                 clientGone, clientVars>>

\* The write ends: a unary call is answered and ServeHTTP returns, a stream
\* goes on in the loop.
WriteEnds ==
  /\ handler = "write"
  /\ delivered' = Append(delivered, data)
  /\ data' = 0
  /\ IF isStream
     THEN handler' = "relay" /\ UNCHANGED <<cancelled, response>>
     ELSE Return /\ response' = "json"
  /\ UNCHANGED <<isStream, invokerVars, channels, clientGone, closeSent>>

\* The write fails, which it does only once the client is gone.
WriteFails ==
  /\ handler = "write"
  /\ clientGone
  /\ data' = 0
  /\ Return
  /\ UNCHANGED <<isStream, invokerVars, channels, clientGone, clientVars>>

\* A variant that looks at the closed flag before the buffered messages.
TakeClosedEarly ==
  /\ handler = "relay"
  /\ dataClosed
  /\ handler' = "close"
  /\ UNCHANGED <<data, isStream, invokerVars, channels, cancelled,
                 clientGone, clientVars>>

\* The same case with !ok: closed and drained. The close frame of the stream
\* is written next; only streams close DataChan.
TakeClosed ==
  /\ handler = "relay"
  /\ dataClosed /\ dataChan = <<>>
  /\ IF isStream THEN handler' = "close" /\ UNCHANGED cancelled ELSE Return
  /\ UNCHANGED <<data, isStream, invokerVars, channels, clientGone,
                 clientVars>>

\* A variant whose close frame is followed by a break, as for Done.
CloseEndsBreak ==
  /\ handler = "close"
  /\ closeSent' = TRUE
  /\ handler' = "relay"
  /\ UNCHANGED <<data, isStream, invokerVars, channels, cancelled,
                 clientGone, response, delivered>>

\* The write of the close frame ends, well or, for a client that is gone,
\* with an error that is logged.
CloseEnds ==
  /\ handler = "close"
  /\ closeSent' \in {TRUE, ~clientGone}
  /\ Return
  /\ UNCHANGED <<data, isStream, invokerVars, channels, clientGone, response,
                 delivered>>

\* case <-newCtx.Done()
TakeCancel ==
  /\ handler = "relay"
  /\ cancelled
  /\ AbortWithMsg
  /\ Return
  /\ UNCHANGED <<data, isStream, invokerVars, channels, clientGone, delivered,
                 closeSent>>

-----------------------------------------------------------------------------
(* The invoker.                                                            *)

\* done <- err, then the goroutine returns.
ReportError ==
  /\ doneLen < DoneCap
  /\ doneLen' = doneLen + 1
  /\ invoker' = "exit"

\* invokeWithUnary: InvokeRpc returns within its five seconds, with the
\* answer or with an error.
InvokeUnary ==
  /\ invoker = "invoke" /\ ~isStream
  /\ \/ /\ ReportError
        /\ UNCHANGED <<received, dataChan>>
     \/ /\ Len(dataChan) < DataCap
        /\ received' = 1
        /\ dataChan' = Append(dataChan, 1)
        /\ invoker' = "exit"
        /\ UNCHANGED doneLen
  /\ UNCHANGED <<handler, data, isStream, dataClosed, cancelled, clientGone,
                 clientVars>>

\* A variant that reports the error of InvokeRpcServerStream and reads on.
InvokeStreamNoReturn ==
  /\ invoker = "invoke" /\ isStream
  /\ invoker' = "recv"
  /\ doneLen' \in {doneLen, doneLen + 1}
  /\ UNCHANGED <<handler, data, isStream, received, dataChan, dataClosed,
                 cancelled, clientGone, clientVars>>

\* invokeWithServiceStream: InvokeRpcServerStream.
InvokeStream ==
  /\ invoker = "invoke" /\ isStream
  /\ \/ ReportError
     \/ invoker' = "recv" /\ UNCHANGED doneLen
  /\ UNCHANGED <<handler, data, isStream, received, dataChan, dataClosed,
                 cancelled, clientGone, clientVars>>

\* RecvMsg returns a message, which decodes.
RecvMsg ==
  /\ invoker = "recv"
  /\ received < MaxMsgs
  /\ received' = received + 1
  /\ invoker' = "send"
  /\ UNCHANGED <<handler, data, isStream, channels, cancelled, clientGone,
                 clientVars>>

\* RecvMsg returns io.EOF.
RecvEOF ==
  /\ invoker = "recv"
  /\ dataClosed' = TRUE
  /\ invoker' = "exit"
  /\ UNCHANGED <<handler, data, isStream, received, dataChan, doneLen,
                 cancelled, clientGone, clientVars>>

\* RecvMsg returns another error, or the message does not decode.
RecvError ==
  /\ invoker = "recv"
  /\ ReportError
  /\ UNCHANGED <<handler, data, isStream, received, dataChan, dataClosed,
                 cancelled, clientGone, clientVars>>

\* A variant that sends without regard to the capacity of the channel.
SendDataUnbounded ==
  /\ invoker = "send"
  /\ dataChan' = Append(dataChan, received)
  /\ invoker' = "recv"
  /\ UNCHANGED <<handler, data, isStream, received, dataClosed, doneLen,
                 cancelled, clientGone, clientVars>>

\* A variant that drops a message when the channel is full.
SendDataOrDrop ==
  /\ invoker = "send"
  /\ dataChan' = IF Len(dataChan) < DataCap
                 THEN Append(dataChan, received) ELSE dataChan
  /\ invoker' = "recv"
  /\ UNCHANGED <<handler, data, isStream, received, dataClosed, doneLen,
                 cancelled, clientGone, clientVars>>

\* dataChan <- buf: blocks while the channel is full, and watches nothing
\* else meanwhile, newCtx included.
SendData ==
  /\ invoker = "send"
  /\ Len(dataChan) < DataCap
  /\ dataChan' = Append(dataChan, received)
  /\ invoker' = "recv"
  /\ UNCHANGED <<handler, data, isStream, received, dataClosed, doneLen,
                 cancelled, clientGone, clientVars>>

-----------------------------------------------------------------------------
(* The HTTP client.                                                        *)

\* A variant in which newCtx is not derived from the request's context.
ClientLeavesUnnoticed ==
  /\ ~clientGone /\ handler # "returned"
  /\ clientGone' = TRUE
  /\ UNCHANGED <<handler, data, isStream, invokerVars, channels, cancelled,
                 clientVars>>

\* The client disconnects. net/http cancels the request's context, except
\* for a connection that was hijacked by the WebSocket upgrade.
ClientLeaves ==
  /\ ~clientGone /\ handler # "returned"
  /\ clientGone' = TRUE
  /\ cancelled' = (cancelled \/ response # "upgraded")
  /\ UNCHANGED <<handler, data, isStream, invokerVars, channels, clientVars>>

-----------------------------------------------------------------------------
HandlerStep ==
  \/ ForwardPlain \/ Prepare \/ PrepareFails \/ Call \/ Upgrade
  \/ TakeDone \/ TakeData \/ TakeClosed \/ TakeCancel
  \/ WriteEnds \/ WriteFails \/ CloseEnds

InvokerStep ==
  \/ InvokeUnary \/ InvokeStream \/ RecvMsg \/ RecvEOF \/ RecvError
  \/ SendData

Next == HandlerStep \/ InvokerStep \/ ClientLeaves

Spec == Init /\ [][Next]_vars

(***************************************************************************)
(* Fairness. The loop polls without blocking and select draws uniformly    *)
(* among its ready cases, so a case that stays ready is taken. A unary RPC *)
(* runs under a five-second timeout. A channel send proceeds once there is *)
(* room, and a stream of a cancelled context fails. The upgrade writes one *)
(* short reply. Nothing is assumed of a backend whose context is still     *)
(* live, nor of the preparing calls, nor of a write to a client that is    *)
(* there: it may take for ever. On a connection that is gone it ends.      *)
(***************************************************************************)
Fairness ==
  /\ WF_vars(TakeDone) /\ WF_vars(TakeData)
  /\ WF_vars(TakeClosed) /\ WF_vars(TakeCancel)
  /\ WF_vars(clientGone /\ (WriteEnds \/ WriteFails \/ CloseEnds))
  /\ WF_vars(Upgrade) /\ WF_vars(InvokeUnary) /\ WF_vars(SendData)
  /\ WF_vars(cancelled /\ InvokeStream)
  /\ WF_vars(cancelled /\ RecvError)

FairSpec == Spec /\ Fairness

-----------------------------------------------------------------------------
(* Safety.                                                                 *)

\* The client receives the messages of the call in the order in which the
\* backend sent them, without a gap and without a repetition, through the
\* two goroutines and the bounded channel between them.
DeliveredInOrder == \A i \in DOMAIN delivered : delivered[i] = i

\* The close frame of a stream means that the client has everything: it is
\* written only after every message received before io.EOF was written.
CloseIsComplete ==
  closeSent => dataClosed /\ Len(delivered) = received

\* How many messages the handler is writing: one or none.
InWrite == IF handler = "write" THEN 1 ELSE 0

\* A call has one outcome: an answer or an error for a unary call; an end
\* of stream or an error for a stream, which is never both closed and
\* failed. The loop relies on it: it treats Done and DataChan as exclusive.
OneOutcome ==
  /\ dataClosed => doneLen = 0
  /\ ~isStream => doneLen + Len(dataChan) + InWrite + Len(delivered) <= 1

\* Before the invoker has produced anything, everything is empty.
Untouched ==
  /\ received = 0 /\ dataChan = <<>> /\ doneLen = 0 /\ ~dataClosed
  /\ delivered = <<>> /\ handler \notin Writing

\* How the positions of the two goroutines go together: no invoker before
\* the call, no response before the relay has ended (a switch to WebSocket
\* apart), no error and no end of stream while the invoker still reads, no
\* close frame before everything is written.
Control ==
  /\ handler \in Preparing => invoker = "idle"
  /\ handler # "returned" => response \in {"none", "upgraded"} /\ ~closeSent
  /\ invoker \in {"idle", "invoke"} => Untouched
  /\ invoker \in {"recv", "send"} => isStream /\ doneLen = 0 /\ ~dataClosed
  /\ dataClosed => isStream /\ invoker = "exit"
  /\ handler = "close" => dataClosed /\ dataChan = <<>>

\* A message that was received waits in one place only: written, being
\* written, buffered or in the invoker's hand, in that order.
InHand == IF invoker = "send" THEN 1 ELSE 0
NothingLost ==
  handler # "returned" =>
    /\ Len(delivered) + InWrite + Len(dataChan) + InHand = received
    /\ handler = "write" => data = Len(delivered) + 1
    /\ \A i \in DOMAIN dataChan : dataChan[i] = Len(delivered) + InWrite + i

-----------------------------------------------------------------------------
(* Liveness, under FairSpec.                                               *)

\* No write to the client blocks for ever. The code does not see to it: it
\* sets no deadline, so this is up to a client that reads, or leaves.
WritesEnd == []<>(handler \notin Writing)

\* A unary call that succeeded is answered, if its client reads or leaves,
\* and unless it left first.
SuccessIsAnswered ==
  WritesEnd =>
    ((~isStream /\ dataChan # <<>>) ~> (response = "json" \/ clientGone))

\* The handler does not outlive its partners: a stream whose backend ended it
\* comes to an end at the client too, provided that the client reads or
\* leaves, and a unary call whose client left is given up in any case.
RelayReturns ==
  /\ WritesEnd => (dataClosed ~> handler = "returned")
  /\ (handler # "returned" /\ invoker # "idle" /\ ~isStream /\ clientGone)
       ~> handler = "returned"

\* When the handler has returned, the invoker ends as well, with one
\* exception: it is blocked for ever in a send on a full DataChan.
InvokerEndsOrIsStuck ==
  handler = "returned" ~>
    \/ invoker \in {"idle", "exit"}
    \/ invoker = "send" /\ Len(dataChan) = DataCap

\* "ServeHttp ... sends it to another server, proxying the response back to
\* the client" (proxy.go:80): an RPC that failed is answered too.
FailedCallReturns == (handler = "relay" /\ doneLen > 0) ~> handler = "returned"

-----------------------------------------------------------------------------
(* Refinement.                                                             *)

\* The exchange is open while the handler runs. It ends properly when the
\* handler returned after an answer or a close frame, and breaks otherwise.
Phase ==
  IF handler # "returned" THEN "open"
  ELSE IF closeSent \/ response \in {"json", "proxied"} THEN "ended"
  ELSE "broken"

Exch == INSTANCE Exchange
          WITH produced <- received, delivered <- Len(delivered),
               phase <- Phase

\* The two goroutines and their channels implement Exchange: seen from the
\* client, delivery is in order and a proper end is a complete one.
ImplementsExchange == Exch!Spec
=============================================================================
