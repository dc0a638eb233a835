------------------------------ MODULE Gateway ------------------------------
(***************************************************************************)
(* The gateway process: server.Start, the HTTP server it starts and the    *)
(* requests that pass its filters, up to the signal that ends it.          *)
(*                                                                         *)
(* Start waits for a signal, closes done, cancels the context and returns, *)
(* which ends the process. Two goroutines wait for these: one shuts the    *)
(* HTTP server down, the other the profiling server. net/http is external: *)
(* ListenAndServe tests whether the server was shut down, binds the        *)
(* address, and tests again before it serves; Shutdown marks the server,   *)
(* closes the listener of one that serves, and returns when no request is  *)
(* left.                                                                   *)
(***************************************************************************)
EXTENDS Filters

VARIABLES
  main,      \* the main goroutine
  listener,  \* ListenAndServe of the HTTP server
  stopper,   \* the goroutine of GatewayServer.Start
  prof       \* the profiling server

processVars == <<main, listener, stopper, prof>>
vars == <<filterVars, processVars>>

GatewayTypeOK ==
  /\ FiltersTypeOK
  /\ main \in {"starting", "waiting", "closing", "leaving", "exited", "fatal"}
  /\ listener \in {"none", "starting", "binding", "bound", "open", "closed",
                  "returned", "failed"}
  /\ stopper \in {"none", "waiting", "shutdown", "stopped"}
  /\ prof \in {"none", "up", "down"}

Init ==
  /\ FiltersInit
  /\ main = "starting"
  /\ listener = "none"
  /\ stopper = "none"
  /\ prof = "none"

Running == main \notin {"exited", "fatal"}

InFlight(r) == stage[r] \notin {"idle", "done"}

-----------------------------------------------------------------------------
(* The main goroutine.                                                     *)

\* InitConfig panics without a config file. GatewayServer.Start starts two
\* goroutines, and prof is the third.
Start ==
  /\ main = "starting"
  /\ \/ main' = "fatal" /\ UNCHANGED <<listener, stopper, prof>>
     \/ /\ main' = "waiting"
        /\ listener' = "starting"
        /\ stopper' = "waiting"
        /\ prof' = "up"
  /\ UNCHANGED filterVars

\* case sig := <-waiter: close(done).
Signal ==
  /\ main = "waiting" /\ instance.signal
  /\ main' = "closing"
  /\ UNCHANGED <<filterVars, listener, stopper, prof>>

\* return: the deferred cancel ends the context.
Return ==
  /\ main = "closing"
  /\ main' = "leaving"
  /\ UNCHANGED <<filterVars, listener, stopper, prof>>

\* main returns, and the process ends with all its goroutines.
Exit ==
  /\ main = "leaving"
  /\ main' = "exited"
  /\ UNCHANGED <<filterVars, listener, stopper, prof>>

-----------------------------------------------------------------------------
(* The other goroutines.                                                   *)

\* inShutdown of the server: Shutdown has begun.
ShutDown == stopper \in {"shutdown", "stopped"}

\* A variant of runServer without the test for ErrServerClosed.
ClosedIsFatal ==
  /\ listener' = "returned"
  /\ main' = "fatal"

\* ListenAndServe returns ErrServerClosed, which runServer takes for no
\* failure.
Closed ==
  /\ listener' = "returned"
  /\ UNCHANGED main

\* ListenAndServe begins: not on a server that was shut down.
Listen ==
  /\ Running /\ listener = "starting"
  /\ IF ShutDown THEN Closed ELSE listener' = "binding" /\ UNCHANGED main
  /\ UNCHANGED <<filterVars, stopper, prof>>

\* net.Listen. Its error is fatal, also when Shutdown has begun meanwhile.
Bind ==
  /\ Running /\ listener = "binding"
  /\ \/ listener' = "bound" /\ UNCHANGED main
     \/ listener' = "failed" /\ main' = "fatal"
  /\ UNCHANGED <<filterVars, stopper, prof>>

\* Server.Serve makes the listener known to Shutdown, or notices it.
Accept ==
  /\ Running /\ listener = "bound"
  /\ IF ShutDown THEN Closed ELSE listener' = "open" /\ UNCHANGED main
  /\ UNCHANGED <<filterVars, stopper, prof>>

\* Server.Serve returns from the listener that Shutdown has closed.
ServerClosed ==
  /\ Running /\ listener = "closed"
  /\ Closed
  /\ UNCHANGED <<filterVars, stopper, prof>>

\* <-ctx.Done(), and the deferred Stop calls Shutdown, which closes the
\* listener if there is one already ...
Shutdown ==
  /\ main = "leaving" /\ stopper = "waiting"
  /\ stopper' = "shutdown"
  /\ listener' = IF listener = "open" THEN "closed" ELSE listener
  /\ UNCHANGED <<filterVars, main, prof>>

\* ... which returns when the requests have.
Stopped ==
  /\ Running /\ stopper = "shutdown"
  /\ \A r \in Requests : ~InFlight(r)
  /\ stopper' = "stopped"
  /\ UNCHANGED <<filterVars, main, listener, prof>>

\* <-stop, on the closed channel done.
ProfStops ==
  /\ main \in {"closing", "leaving"} /\ prof = "up"
  /\ prof' = "down"
  /\ UNCHANGED <<filterVars, main, listener, stopper>>

\* The requests, each in a goroutine of net/http.
Serving ==
  /\ Running
  /\ \/ Tick
     \/ \E r \in Requests : (listener = "open" /\ Arrive(r)) \/ Serve(r)
  /\ UNCHANGED processVars

-----------------------------------------------------------------------------
Next ==
  \/ Start \/ Signal \/ Return \/ Exit
  \/ Listen \/ Bind \/ Accept \/ ServerClosed
  \/ Shutdown \/ Stopped \/ ProfStops
  \/ Serving

Spec == Init /\ [][Next]_vars

-----------------------------------------------------------------------------
(* Properties.                                                             *)

\* Whatever ListenAndServe was doing when Shutdown began: the server takes
\* no request any more, none is left when Shutdown has returned, and the end
\* of the server is not taken for a failure. Only an address that cannot be
\* bound still is, should net.Listen fail after Shutdown began.
ShutdownIsClean ==
  /\ ShutDown => /\ listener # "open"
                 /\ main = "fatal" => listener = "failed"
  /\ stopper = "stopped" => \A r \in Requests : ~InFlight(r)

\* "Shutting down the http server gracefully." (http_server.go:84): when the
\* process has ended on a signal, no request has been cut off.
NoRequestIsCutOff == main = "exited" => \A r \in Requests : ~InFlight(r)
=============================================================================
