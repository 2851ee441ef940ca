----------------------------- MODULE Lifecycle -----------------------------
(***************************************************************************)
(* The life of the process (cmd/steeplechase/main.go): the sinks are built *)
(* (Pipeline), three listeners are started in goroutines of their own, the *)
(* probe says ready, and a signal or a listener that failed makes main     *)
(* stop the receivers, the admin listener and the sinks, in this order.    *)
(*                                                                         *)
(* What a handler delivers is settled when it returns, unless a leaf of    *)
(* the pipeline prints blocks: then a part stays in a buffer until the     *)
(* first Shutdown prints it; the second prints nothing.                    *)
(* net/http and grpc-go are outside src/: GracefulStop waits for every     *)
(* handler; Shutdown of an HTTP server waits until its context ends, and   *)
(* leaves behind the handlers and connections that are still open then.    *)
(***************************************************************************)
EXTENDS Pipeline, FiniteSets

CONSTANTS
  GrpcCalls,  \* the export calls that may arrive over gRPC
  HttpCalls,  \* those that may arrive over HTTP
  Hung        \* the calls whose handler may never return

Calls == GrpcCalls \cup HttpCalls

ASSUME LifecycleAssumption ==
  /\ GrpcCalls \cap HttpCalls = {}
  /\ Hung \subseteq Calls

Receivers == {"grpc", "http"}
Listeners == Receivers \cup {"admin"}

VARIABLES
  listener,  \* the state of each listener
  errs,      \* the listeners whose error is in errCh
  ready,     \* Server.ready of the admin listener
  signals,   \* the signals in sigCh, whose capacity is 1
  expired,   \* TRUE: the ten seconds for stopping have passed
  releases,  \* how often Shutdown of the root sink has returned
  call       \* the progress of each call

serveVars == <<listener, errs, ready, signals, expired, releases, call>>
vars == <<pipelineVars, serveVars>>

Init ==
  /\ PipelineInit
  /\ listener = [l \in Listeners |-> "starting"]
  /\ errs = {}
  /\ ready = FALSE
  /\ signals = 0
  /\ expired = FALSE
  /\ releases = 0
  /\ call = [c \in Calls |-> "none"]

Over == main \in {"fatal", "exited", "killed"}
Up == ~Over /\ main \notin {"flags", "sinks"}

-----------------------------------------------------------------------------
(* The listeners. *)

\* net.Listen binds the address.
Bind(l) ==
  /\ Up
  /\ listener[l] = "starting"
  /\ listener' = [listener EXCEPT ![l] = "listening"]
  /\ UNCHANGED <<main, errs, ready, signals, expired, releases, call, buildVars>>

\* Variant: Start reports the end of an orderly stop with another name.
FailStopped(l) ==
  /\ Up
  /\ listener[l] \in {"starting", "listening", "closing"}
  /\ listener' = [listener EXCEPT ![l] = IF @ = "closing" THEN "stopped" ELSE "failed"]
  /\ errs' = errs \cup {l}
  /\ UNCHANGED <<main, ready, signals, expired, releases, call, buildVars>>

\* It cannot, or Accept fails later; Start returns the error.  Connections that
\* were accepted before go on.
Fail(l) ==
  /\ Up
  /\ listener[l] \in {"starting", "listening"}
  /\ listener' = [listener EXCEPT ![l] = IF @ = "starting" THEN "failed" ELSE "broken"]
  /\ errs' = errs \cup {l}
  /\ UNCHANGED <<main, ready, signals, expired, releases, call, buildVars>>

Served(l) == listener[l] \in {"listening", "broken", "closing", "abandoned"}

\* A request arrives: also while its server closes, on a connection that is open.
Arrive(c) ==
  /\ Up
  /\ call[c] = "none"
  /\ Served(IF c \in GrpcCalls THEN "grpc" ELSE "http")
  /\ call' = [call EXCEPT ![c] = "running"]
  /\ UNCHANGED <<main, listener, errs, ready, signals, expired, releases, buildVars>>

\* The handler returns; what it delivered may be in a buffer.
Handled(c) ==
  /\ Up
  /\ call[c] = "running"
  /\ call' = [call EXCEPT ![c] = IF "runblock" \in root THEN "held" ELSE "shown"]
  /\ UNCHANGED <<main, listener, errs, ready, signals, expired, releases, buildVars>>

-----------------------------------------------------------------------------
(* main. *)

\* MarkReady, after the listeners' goroutines were started.
MarkReady ==
  /\ main = "starting"
  /\ main' = "ready"
  /\ ready' = TRUE
  /\ UNCHANGED <<listener, errs, signals, expired, releases, call, buildVars>>

\* signal.Notify.
Notify ==
  /\ main = "ready"
  /\ main' = "waiting"
  /\ UNCHANGED <<listener, errs, ready, signals, expired, releases, call, buildVars>>

\* SIGINT or SIGTERM ends the process before Notify; after it, sigCh takes one.
Signal ==
  /\ ~Over
  /\ IF main \in {"flags", "sinks", "starting", "ready"}
       THEN main' = "killed" /\ UNCHANGED signals
       ELSE signals = 0 /\ signals' = 1 /\ UNCHANGED main
  /\ UNCHANGED <<listener, errs, ready, expired, releases, call, buildVars>>

\* Variant: an error of a listener is not waited for.
WakeOnSignal ==
  /\ main = "waiting"
  /\ signals = 1
  /\ signals' = 0
  /\ main' = "marking"
  /\ UNCHANGED <<listener, errs, ready, expired, releases, call, buildVars>>

\* The select of main takes a signal or an error.
Wake ==
  /\ main = "waiting"
  /\ \/ signals = 1 /\ signals' = 0 /\ UNCHANGED errs
     \/ \E l \in errs : errs' = errs \ {l} /\ UNCHANGED signals
  /\ main' = "marking"
  /\ UNCHANGED <<listener, ready, expired, releases, call, buildVars>>

\* Variant: the probe is not told.
MarkNothing ==
  /\ main = "marking"
  /\ main' = "draining"
  /\ UNCHANGED <<listener, errs, ready, signals, expired, releases, call, buildVars>>

\* MarkNotReady, before the two receivers are stopped in goroutines.
MarkNotReady ==
  /\ main = "marking"
  /\ main' = "draining"
  /\ ready' = FALSE
  /\ UNCHANGED <<listener, errs, signals, expired, releases, call, buildVars>>

\* The ten seconds pass.
Expire ==
  /\ main \in {"draining", "releasing"}
  /\ expired' = TRUE
  /\ UNCHANGED <<main, listener, errs, ready, signals, releases, call, buildVars>>

\* A receiver stops listening: Start returns, or will as soon as it tries to serve.
\* One that never listened has nothing to wait for.
StopListening(l) ==
  /\ main = "draining"
  /\ listener[l] \in {"starting", "listening", "broken", "failed"}
  /\ listener' = [listener EXCEPT
                    ![l] = IF @ \in {"starting", "failed"} THEN "closed" ELSE "closing"]
  /\ UNCHANGED <<main, errs, ready, signals, expired, releases, call, buildVars>>

\* Variant: Stop instead of GracefulStop.
GrpcHardStop ==
  /\ listener["grpc"] = "closing"
  /\ listener' = [listener EXCEPT !["grpc"] = "closed"]
  /\ UNCHANGED <<main, errs, ready, signals, expired, releases, call, buildVars>>

\* GracefulStop returns: no handler runs, and no connection is left.
GrpcStopped ==
  /\ Up
  /\ listener["grpc"] = "closing"
  /\ \A c \in GrpcCalls : call[c] # "running"
  /\ listener' = [listener EXCEPT !["grpc"] = "closed"]
  /\ UNCHANGED <<main, errs, ready, signals, expired, releases, call, buildVars>>

\* Shutdown of the HTTP server returns: nothing runs, or the context has ended.
HttpStopped ==
  /\ Up
  /\ listener["http"] = "closing"
  /\ \/ /\ \A c \in HttpCalls : call[c] # "running"
        /\ listener' = [listener EXCEPT !["http"] = "closed"]
     \/ /\ expired
        /\ listener' = [listener EXCEPT !["http"] = "abandoned"]
  /\ UNCHANGED <<main, errs, ready, signals, expired, releases, call, buildVars>>

Stopped(l) == listener[l] \in {"closed", "abandoned"}

\* Variant: the admin listener is stopped along with the receivers.
CloseAdminEarly ==
  /\ main = "draining"
  /\ listener' = [listener EXCEPT !["admin"] = "closed"]
  /\ main' = "releasing"
  /\ UNCHANGED <<errs, ready, signals, expired, releases, call, buildVars>>

\* wg.Wait returns, and Shutdown of the admin listener.
CloseAdmin ==
  /\ main = "draining"
  /\ \A l \in Receivers : Stopped(l)
  /\ listener' = [listener EXCEPT !["admin"] = "closed"]
  /\ main' = "releasing"
  /\ UNCHANGED <<errs, ready, signals, expired, releases, call, buildVars>>

\* Shutdown of the sinks prints every open buffer.
Release ==
  /\ main = "releasing"
  /\ main' = "returning"
  /\ releases' = releases + 1
  /\ call' = [c \in Calls |-> IF call[c] = "held" THEN "shown" ELSE call[c]]
  /\ UNCHANGED <<listener, errs, ready, signals, expired>>
  /\ ReleaseSinks

\* The deferred Shutdown, and the end of the process.
Return ==
  /\ main = "returning"
  /\ main' = "exited"
  /\ releases' = releases + 1
  /\ UNCHANGED <<listener, errs, ready, signals, expired, call>>
  /\ ReleaseSinks

-----------------------------------------------------------------------------

Terminated == Over /\ UNCHANGED vars

MainStep ==
  \/ Build /\ UNCHANGED serveVars
  \/ MarkReady \/ Notify \/ Wake \/ MarkNotReady
  \/ CloseAdmin \/ Release \/ Return

Next ==
  \/ \E l \in Listeners : Bind(l) \/ Fail(l)
  \/ \E c \in Calls : Arrive(c) \/ Handled(c)
  \/ Signal
  \/ MainStep
  \/ Expire
  \/ \E l \in Receivers : StopListening(l)
  \/ GrpcStopped \/ HttpStopped
  \/ Terminated

Spec == Init /\ [][Next]_vars

\* main, its two goroutines, its timer and every handler that is not hung go on.
\* Nothing obliges the operator to send a signal, or a client a request.
FairSpec ==
  /\ Spec
  /\ WF_vars(MainStep)
  /\ WF_vars(Expire)
  /\ \A l \in Receivers : WF_vars(StopListening(l))
  /\ WF_vars(GrpcStopped)
  /\ WF_vars(HttpStopped)
  /\ \A c \in Calls \ Hung : WF_vars(Handled(c))

-----------------------------------------------------------------------------
(* Properties. *)

\* Every variable of this module has its type.
TypeOK ==
  /\ main \in {"flags", "sinks", "fatal", "starting", "ready", "waiting", "marking", "draining",
               "releasing", "returning", "exited", "killed"}
  /\ listener \in [Listeners -> {"starting", "listening", "failed", "broken",
                                 "closing", "closed", "abandoned"}]
  /\ errs \subseteq Listeners
  /\ ready \in BOOLEAN
  /\ signals \in 0..1
  /\ expired \in BOOLEAN
  /\ releases \in 0..2
  /\ call \in [Calls -> {"none", "running", "held", "shown"}]

\* What every call delivered is printed before the process ends, except that of
\* HTTP calls still open after ten seconds (main.go:116-140).
DrainedWorkIsShown ==
  main = "exited" =>
    \A c \in Calls : call[c] \in {"none", "shown"} \/ (expired /\ c \in HttpCalls)

\* "503 during shutdown so load balancers can drain": once a receiver is told to
\* stop the probe does not say ready, and it answers until both receivers have
\* stopped (README.md:143).
ProbesDuringDrain ==
  /\ (\E l \in Receivers : listener[l] \in {"closing", "closed", "abandoned"}) => ~ready
  /\ listener["admin"] = "closed" => \A l \in Receivers : Stopped(l)

\* A signal, or a listener that fails, ends the process, unless a gRPC call hangs.
StopsWhenAsked ==
  main = "waiting" /\ (signals = 1 \/ errs # {}) ~> main = "exited"

\* "So we don't leak goroutines": whoever ends the process, a later sink that
\* cannot be built or a signal, every leaf was shut down (main.go:191-198).
NothingLeaks == main \in {"fatal", "exited"} => running = {}

-----------------------------------------------------------------------------
(* What comments promise and the code does not keep. *)

\* admin.go:64-65: the probe says ready when the receivers have started.
ReadyIsServing ==
  ready /\ listener["admin"] = "listening"
    => \A l \in Receivers : listener[l] \notin {"starting", "failed"}

=============================================================================
