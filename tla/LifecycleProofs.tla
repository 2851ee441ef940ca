-------------------------- MODULE LifecycleProofs --------------------------
(***************************************************************************)
(* Proofs about Lifecycle, for any flags and DSNs, any calls and whichever *)
(* of them hang.                                                           *)
(***************************************************************************)
EXTENDS Lifecycle, TLAPS

(* What main has done by the time it is where it is. *)

InOrder ==
  /\ main \in {"flags", "sinks", "fatal", "starting", "ready", "waiting", "marking",
              "killed"} =>
       \A l \in Receivers : listener[l] \notin {"closing", "closed", "abandoned"}
  /\ main \in {"draining", "releasing", "returning", "exited"} => ~ready
  /\ main \in {"releasing", "returning", "exited"} => \A l \in Receivers : Stopped(l)
  /\ listener["admin"] = "closed" => main \in {"releasing", "returning", "exited"}
  /\ main \notin {"returning", "exited"} => releases = 0
  /\ main = "returning" => releases = 1

(* No handler runs under a receiver that has stopped in time, or never listened. *)
Quiescent(l, calls) ==
  listener[l] \in {"starting", "failed", "closed"} => \A c \in calls : call[c] # "running"

Emptied ==
  /\ listener["grpc"] # "abandoned"
  /\ Quiescent("grpc", GrpcCalls)
  /\ Quiescent("http", HttpCalls)
  /\ listener["http"] = "abandoned" => expired

(* The first Shutdown of the sinks printed the rest. *)
Printed ==
  main \in {"returning", "exited"} =>
    \A c \in Calls : call[c] \in {"none", "shown"} \/ (expired /\ c \in HttpCalls)

(* No leaf holds anything before the first was built and after the last Shutdown. *)
Leafless == main \in {"flags", "fatal", "exited"} => running = {}

Inv == TypeOK /\ InOrder /\ Emptied /\ Printed /\ Leafless

(* The initial states satisfy it. *)
LEMMA Initially == Init => Inv
<1> SUFFICES ASSUME Init PROVE Inv
  OBVIOUS
<1> USE LifecycleAssumption DEF Init, PipelineInit, Listeners, Receivers
<1>1. TypeOK
  <2>1. listener \in [Listeners -> {"starting", "listening", "failed", "broken",
                                   "closing", "closed", "abandoned"}]
    OBVIOUS
  <2>2. call \in [Calls -> {"none", "running", "held", "shown"}]
    OBVIOUS
  <2>3. main = "flags" /\ errs \subseteq Listeners /\ signals \in 0..1 /\ releases \in 0..2
    OBVIOUS
  <2>4. ready \in BOOLEAN /\ expired \in BOOLEAN
    OBVIOUS
  <2> HIDE DEF Init, Listeners
  <2> QED BY <2>1, <2>2, <2>3, <2>4 DEF TypeOK
<1>2. InOrder /\ Printed /\ Leafless
  BY DEF InOrder, Printed, Leafless
<1>3. Emptied
  BY DEF Emptied, Quiescent, Calls
<1> QED
  BY <1>1, <1>2, <1>3 DEF Inv

(* Every step keeps Inv. *)
LEMMA Kept == Inv /\ [Next]_vars => Inv'
<1> SUFFICES ASSUME Inv, [Next]_vars PROVE Inv'
  OBVIOUS
<1> USE LifecycleAssumption DEF Inv, TypeOK, InOrder, Emptied, Quiescent, Printed, Leafless,
        Listeners, Receivers, Stopped, Over, Up, Calls, buildVars, serveVars, pipelineVars, vars
<1>1. ASSUME NEW l \in Listeners, Bind(l) PROVE Inv'
  BY <1>1 DEF Bind
<1>2. ASSUME NEW l \in Listeners, Fail(l) PROVE Inv'
  BY <1>2 DEF Fail
<1>3. ASSUME NEW c \in Calls, Arrive(c) PROVE Inv'
  BY <1>3 DEF Arrive, Served
<1>4. ASSUME NEW c \in Calls, Handled(c) PROVE Inv'
  BY <1>4 DEF Handled
<1>5. CASE Signal
  BY <1>5 DEF Signal
<1>6. CASE MarkReady
  BY <1>6 DEF MarkReady
<1>7. CASE Notify
  BY <1>7 DEF Notify
<1>8. CASE Wake
  <2>1. errs' \subseteq Listeners /\ signals' \in 0..1
    <3>1. CASE signals' = 0 /\ UNCHANGED errs
      BY <3>1
    <3>2. CASE \E l \in errs : errs' = errs \ {l} /\ UNCHANGED signals
      BY <3>2
    <3> QED BY <1>8, <3>1, <3>2 DEF Wake
  <2> QED BY <1>8, <2>1 DEF Wake
<1>9. CASE MarkNotReady
  BY <1>9 DEF MarkNotReady
<1>10. CASE CloseAdmin
  BY <1>10 DEF CloseAdmin
<1>11. CASE Release
  BY <1>11 DEF Release, ReleaseSinks
<1>12. CASE Return
  BY <1>12 DEF Return, ReleaseSinks
<1>13. CASE Expire
  BY <1>13 DEF Expire
<1>14. ASSUME NEW l \in Receivers, StopListening(l) PROVE Inv'
  BY <1>14 DEF StopListening
<1>15. CASE GrpcStopped
  BY <1>15 DEF GrpcStopped
<1>16. CASE HttpStopped
  BY <1>16 DEF HttpStopped
<1>17. CASE UNCHANGED vars
  BY <1>17
<1>18. CASE Build /\ UNCHANGED serveVars
  <2>1. CASE ParseFlags
    BY <1>18, <2>1 DEF ParseFlags
  <2>2. CASE DefaultSink \/ AddSink
    BY <1>18, <2>2 DEF DefaultSink, AddSink, Keep
  <2>3. CASE GiveUp
    BY <1>18, <2>3 DEF GiveUp
  <2>4. CASE Compose
    BY <1>18, <2>4 DEF Compose
  <2> QED BY <1>18, <2>1, <2>2, <2>3, <2>4 DEF Build
<1> QED
  BY <1>1, <1>2, <1>3, <1>4, <1>5, <1>6, <1>7, <1>8, <1>9, <1>10, <1>11, <1>12, <1>13,
     <1>14, <1>15, <1>16, <1>17, <1>18 DEF Next, MainStep, Terminated

(* Every variable keeps its type. *)
THEOREM TypeCorrect == Spec => []TypeOK
  BY Initially, Kept, PTL DEF Spec, Inv

(* Whatever a call delivered is printed before the process ends, if it came    *)
(* over gRPC or its handler had returned within the ten seconds.               *)
THEOREM WorkIsShown == Spec => []DrainedWorkIsShown
<1>1. Inv => DrainedWorkIsShown
  BY DEF Inv, Printed, DrainedWorkIsShown
<1> QED
  BY <1>1, Initially, Kept, PTL DEF Spec

(* The probe does not say ready once a receiver was told to stop, and answers  *)
(* until both have stopped.                                                    *)
THEOREM ProbesKept == Spec => []ProbesDuringDrain
<1>1. Inv => ProbesDuringDrain
  BY DEF Inv, TypeOK, InOrder, ProbesDuringDrain
<1> QED
  BY <1>1, Initially, Kept, PTL DEF Spec

(* Whoever ends the process, a sink that cannot be built or a signal, every    *)
(* leaf that was built is shut down.                                           *)
THEOREM NothingIsLeft == Spec => []NothingLeaks
<1>1. Inv => NothingLeaks
  BY DEF Inv, Leafless, NothingLeaks
<1> QED
  BY <1>1, Initially, Kept, PTL DEF Spec

(* What BuiltAsExpected says of one leaf with a DSN. *)
LeafAsExpected(dsn, leaf) ==
  IF dsn.scheme = "stdout"
    THEN leaf.kind = IF flags.mode = "line" THEN "stdout" ELSE "runblock"
    ELSE /\ leaf.kind \in {"grpc", "http", "mqtt"}
         /\ ForwardsAsExpected(dsn, leaf)

BuildInv ==
  /\ main = "flags" => leaves = <<>>
  /\ \E S : leaves \in Seq(S)
  /\ BuiltAsExpected

(* Every sink that main builds, from any DSN, has for each key the setting that *)
(* is given or the documented default, but for the departures that Departs      *)
(* lists, where it has the value of Instead; no key is passed over (dsn.go).    *)
THEOREM BuiltRight == Spec => []BuiltAsExpected
<1>1. ASSUME NEW dsn, Wrap(ParseDSN(dsn)).kind # "failed"
      PROVE  LeafAsExpected(dsn, Wrap(ParseDSN(dsn)))
  <2> DEFINE q == ParseQuery(dsn)
  <2>1. CASE dsn.scheme = "stdout"
    BY <2>1 DEF ParseDSN, StdoutSink, Wrap, LeafAsExpected
  <2>2. CASE dsn.scheme = "otlp+grpc"
    <3>1. /\ ParseDSN(dsn) = ParseGRPC(dsn)
          /\ ~QueryFails(dsn, KnownGRPCKeys)
          /\ ParseGRPC(dsn).kind = "grpc"
          /\ Wrap(ParseDSN(dsn)) = ParseGRPC(dsn)
      BY <1>1, <2>2 DEF ParseDSN, ParseGRPC, Wrap, Failed
    <3>2. ForwardsAsExpected(dsn, ParseGRPC(dsn))
      <4> DEFINE sink == ParseGRPC(dsn)
                 Right(key) == Setting(sink, key) = Expected(dsn, key)
      <4>1. /\ sink.name = Or(Get(dsn, "name"), dsn.host)
            /\ sink.tls = Or(Get(dsn, "tls"), "false")
            /\ sink.ca = CAUsed(sink.tls, Get(dsn, "ca"))
            /\ sink.header = Get(dsn, "header")
            /\ sink.timeout = Or(Get(dsn, "timeout"), "10s")
            /\ sink.compression = Or(Get(dsn, "compression"), "gzip")
            /\ sink.keepalive = Or(Get(dsn, "keepalive"), "0s")
            /\ sink.retry = [retry_initial |-> Or(Get(dsn, "retry_initial"), "500ms"),
                              retry_max_interval |-> Or(Get(dsn, "retry_max_interval"), "10s"),
                              retry_max_elapsed |-> Or(Get(dsn, "retry_max_elapsed"), "30s")]
        BY <3>1 DEF ParseGRPC, ParseQuery, RetryConfig, Failed
      <4>2. DocumentedKeys(dsn.scheme) = KnownGRPCKeys
        BY <2>2 DEF DocumentedKeys, KnownGRPCKeys, ForwardKeys, RetryKeys
      <4>3. /\ DOMAIN dsn.query \subseteq KnownGRPCKeys
            /\ \A key \in DOMAIN dsn.query : dsn.query[key] # "bad"
        BY <3>1 DEF QueryFails, Reads
      <4>4. \A key \in KnownGRPCKeys : Right(key)
        <5>1. Right("retry_initial") /\ Right("retry_max_interval") /\ Right("retry_max_elapsed")
          BY <2>2, <4>1
             DEF Setting, Expected, Departs, Instead, Documented, DocumentedDefault, RetryKeys
        <5>2. Right("name")
          BY <2>2, <4>1
             DEF Setting, Expected, Departs, Instead, Documented, DocumentedDefault, RetryKeys
        <5>3. Right("tls")
          BY <2>2, <4>1
             DEF Setting, Expected, Departs, Instead, Documented, DocumentedDefault, RetryKeys
        <5>4. Right("header")
          <6>1. Expected(dsn, "header") = Or(Get(dsn, "header"), "")
            BY DEF Expected, Departs, Documented, DocumentedDefault
          <6>2. Setting(sink, "header") = Get(dsn, "header")
            BY <4>1 DEF Setting, RetryKeys
          <6> QED BY <6>1, <6>2 DEF Or
        <5>5. Right("compression") /\ Right("keepalive") /\ Right("timeout")
          BY <2>2, <4>1
             DEF Setting, Expected, Departs, Instead, Documented, DocumentedDefault, RetryKeys
        <5>6. Right("ca")
          <6>1. sink.tls = "false" <=> Get(dsn, "tls") \in {"", "false"}
            BY <4>1 DEF Or
          <6>2. Expected(dsn, "ca") = IF sink.tls = "false" THEN "" ELSE Get(dsn, "ca")
            BY <2>2, <6>1 DEF Expected, Departs, Instead, Documented, DocumentedDefault, Or
          <6> QED BY <4>1, <6>2 DEF Setting, RetryKeys, CAUsed
        <5> HIDE DEF Right
        <5> QED BY <5>1, <5>2, <5>3, <5>4, <5>5, <5>6 DEF KnownGRPCKeys, ForwardKeys, RetryKeys
      <4> QED BY <4>2, <4>3, <4>4 DEF ForwardsAsExpected
    <3> QED BY <2>2, <3>1, <3>2 DEF LeafAsExpected
  <2>3. CASE dsn.scheme \in {"otlp+http", "otlp+https"}
    <3>1. /\ ParseDSN(dsn) = ParseHTTP(dsn)
          /\ ~QueryFails(dsn, KnownHTTPKeys)
          /\ ParseHTTP(dsn).kind = "http"
          /\ Wrap(ParseDSN(dsn)) = ParseHTTP(dsn)
      BY <1>1, <2>3 DEF ParseDSN, ParseHTTP, Wrap, Failed
    <3>2. ForwardsAsExpected(dsn, ParseHTTP(dsn))
      <4> DEFINE sink == ParseHTTP(dsn)
                 Right(key) == Setting(sink, key) = Expected(dsn, key)
      <4>1. /\ sink.name = Or(Get(dsn, "name"), dsn.host)
            /\ sink.ca = CAUsed(sink.tls, Get(dsn, "ca"))
            /\ sink.header = Get(dsn, "header")
            /\ sink.timeout = TimeoutOrDefault(Or(Get(dsn, "timeout"), "10s"))
            /\ sink.compression = Or(Get(dsn, "compression"), "none")
            /\ sink.encoding = Or(Get(dsn, "encoding"), "proto")
            /\ sink.retry = [retry_initial |-> Or(Get(dsn, "retry_initial"), "500ms"),
                              retry_max_interval |-> Or(Get(dsn, "retry_max_interval"), "10s"),
                              retry_max_elapsed |-> Or(Get(dsn, "retry_max_elapsed"), "30s")]
        BY <3>1 DEF ParseHTTP, ParseQuery, RetryConfig, Failed
      <4>2. DocumentedKeys(dsn.scheme) = KnownHTTPKeys
        BY <2>3 DEF DocumentedKeys, KnownHTTPKeys, ForwardKeys, RetryKeys
      <4>3. /\ DOMAIN dsn.query \subseteq KnownHTTPKeys
            /\ \A key \in DOMAIN dsn.query : dsn.query[key] # "bad"
        BY <3>1 DEF QueryFails, Reads
      <4>4. \A key \in KnownHTTPKeys : Right(key)
        <5>1. Right("retry_initial") /\ Right("retry_max_interval") /\ Right("retry_max_elapsed")
          BY <2>3, <4>1
             DEF Setting, Expected, Departs, Instead, Documented, DocumentedDefault, RetryKeys
        <5>2. Right("name")
          BY <2>3, <4>1
             DEF Setting, Expected, Departs, Instead, Documented, DocumentedDefault, RetryKeys
        <5>3. Right("encoding")
          BY <2>3, <4>1
             DEF Setting, Expected, Departs, Instead, Documented, DocumentedDefault, RetryKeys
        <5>4. Right("header")
          <6>1. Expected(dsn, "header") = Or(Get(dsn, "header"), "")
            BY DEF Expected, Departs, Documented, DocumentedDefault
          <6>2. Setting(sink, "header") = Get(dsn, "header")
            BY <4>1 DEF Setting, RetryKeys
          <6> QED BY <6>1, <6>2 DEF Or
        <5>5. Right("compression")
          BY <2>3, <4>1
             DEF Setting, Expected, Departs, Instead, Documented, DocumentedDefault, RetryKeys
        <5>6. Right("tls")
          <6>1. Get(dsn, "tls") \in {"", "true", "false", "insecure"}
            BY <3>1 DEF QueryFails, Reads, Get
          <6>2. sink.tls = IF dsn.scheme = "otlp+http" THEN "false"
                           ELSE IF Get(dsn, "tls") \in {"", "false"} THEN "true"
                           ELSE Get(dsn, "tls")
            BY <3>1, <6>1 DEF ParseHTTP, ParseQuery, Or, Failed
          <6>3. Expected(dsn, "tls") = sink.tls
            BY <2>3, <6>1, <6>2
               DEF Expected, Departs, Instead, Documented, DocumentedDefault, Or
          <6> QED BY <6>3 DEF Setting, RetryKeys
        <5>7. Right("ca")
          <6>1. sink.tls = "false" <=> dsn.scheme = "otlp+http"
            BY <2>3, <3>1 DEF ParseHTTP, Failed
          <6>2. Expected(dsn, "ca") = IF sink.tls = "false" THEN "" ELSE Get(dsn, "ca")
            BY <2>3, <6>1 DEF Expected, Departs, Instead, Documented, DocumentedDefault, Or
          <6> QED BY <4>1, <6>2 DEF Setting, RetryKeys, CAUsed
        <5>8. Right("timeout")
          BY <2>3, <3>1, <4>1
             DEF Setting, Expected, Departs, Instead, Documented, DocumentedDefault,
                 RetryKeys, TimeoutOrDefault, Or
        <5> HIDE DEF Right
        <5> QED BY <5>1, <5>2, <5>3, <5>4, <5>5, <5>6, <5>7, <5>8 DEF KnownHTTPKeys, ForwardKeys, RetryKeys
      <4> QED BY <4>2, <4>3, <4>4 DEF ForwardsAsExpected
    <3> QED BY <2>3, <3>1, <3>2 DEF LeafAsExpected
  <2>4. CASE dsn.scheme = "mqtt"
    <3>1. /\ ParseDSN(dsn) = ParseMQTT(dsn)
          /\ ~QueryFails(dsn, KnownMQTTKeys)
          /\ ParseMQTT(dsn).kind = "mqtt"
          /\ Wrap(ParseDSN(dsn)) = ParseMQTT(dsn)
      BY <1>1, <2>4 DEF ParseDSN, ParseMQTT, Wrap, Failed
    <3>2. ForwardsAsExpected(dsn, ParseMQTT(dsn))
      <4> DEFINE sink == ParseMQTT(dsn)
                 Right(key) == Setting(sink, key) = Expected(dsn, key)
      <4>1. /\ sink.name = Or(Get(dsn, "name"), <<dsn.host, dsn.path>>)
            /\ sink.timeout = TimeoutOrDefault(Or(Get(dsn, "timeout"), "10s"))
            /\ sink.qos = Or(Get(dsn, "qos"), "1")
            /\ sink.retained = Or(Get(dsn, "retained"), "false")
            /\ sink.client_id = Or(Get(dsn, "client_id"), "generated")
            /\ sink.retry = [retry_initial |-> Or(Get(dsn, "retry_initial"), "500ms"),
                              retry_max_interval |-> Or(Get(dsn, "retry_max_interval"), "10s"),
                              retry_max_elapsed |-> Or(Get(dsn, "retry_max_elapsed"), "30s")]
        BY <3>1 DEF ParseMQTT, ParseQuery, RetryConfig, Failed
      <4>2. DocumentedKeys(dsn.scheme) = KnownMQTTKeys
        BY <2>4 DEF DocumentedKeys, KnownMQTTKeys, RetryKeys
      <4>3. /\ DOMAIN dsn.query \subseteq KnownMQTTKeys
            /\ \A key \in DOMAIN dsn.query : dsn.query[key] # "bad"
        BY <3>1 DEF QueryFails, Reads
      <4>4. \A key \in KnownMQTTKeys : Right(key)
        <5>1. Right("retry_initial") /\ Right("retry_max_interval") /\ Right("retry_max_elapsed")
          BY <2>4, <4>1
             DEF Setting, Expected, Departs, Instead, Documented, DocumentedDefault, RetryKeys
        <5>2. Right("name")
          BY <2>4, <4>1
             DEF Setting, Expected, Departs, Instead, Documented, DocumentedDefault, RetryKeys, Or
        <5>3. Right("qos") /\ Right("retained") /\ Right("client_id")
          BY <2>4, <4>1 DEF Setting, Expected, Departs, Documented, DocumentedDefault, RetryKeys
        <5>4. Right("timeout")
          BY <2>4, <3>1, <4>1
             DEF Setting, Expected, Departs, Instead, Documented, DocumentedDefault,
                 RetryKeys, TimeoutOrDefault, Or
        <5> HIDE DEF Right
        <5> QED BY <5>1, <5>2, <5>3, <5>4 DEF KnownMQTTKeys, RetryKeys
      <4> QED BY <4>2, <4>3, <4>4 DEF ForwardsAsExpected
    <3> QED BY <2>4, <3>1, <3>2 DEF LeafAsExpected
  <2> QED BY <1>1, <2>1, <2>2, <2>3, <2>4 DEF ParseDSN, Wrap, Failed
<1>2. Init => BuildInv
  <2> SUFFICES ASSUME Init PROVE BuildInv
    OBVIOUS
  <2>1. leaves = <<>> /\ leaves \in Seq({})
    BY DEF Init, PipelineInit
  <2> QED BY <2>1 DEF BuildInv, BuiltAsExpected
<1>3. ASSUME BuildInv, [Next]_vars PROVE BuildInv'
  <2>0. PICK S : leaves \in Seq(S)
    BY <1>3 DEF BuildInv
  <2>1. CASE AddSink
    <3> DEFINE new == Wrap(NextSink)
    <3>1. leaves' = Append(leaves, new) /\ flags' = flags /\ dsns' = dsns
      BY <2>1 DEF AddSink, Keep
    <3>2. new.kind # "failed" /\ LeafAsExpected(dsns[Len(leaves) + 1], new)
      BY <2>1, <1>1 DEF AddSink, NextSink, Wrap
    <3>3. dsns # <<>> /\ main' # "flags"
      BY <2>0, <2>1 DEF AddSink, Keep
    <3>4. leaves' \in Seq(S \cup {new})
      BY <2>0, <3>1
    <3>5. ASSUME NEW i \in DOMAIN leaves'
          PROVE  \/ i \in DOMAIN leaves /\ leaves'[i] = leaves[i]
                 \/ i = Len(leaves) + 1 /\ leaves'[i] = new
      BY <2>0, <3>1
    <3>6. BuiltAsExpected'
      BY <1>3, <3>1, <3>2, <3>3, <3>5 DEF BuildInv, BuiltAsExpected, LeafAsExpected
    <3> QED BY <3>3, <3>4, <3>6 DEF BuildInv
  <2>2. CASE DefaultSink
    <3>1. /\ leaves' = <<Wrap(StdoutSink)>> /\ leaves' \in Seq({Wrap(StdoutSink)})
          /\ flags' = flags /\ dsns' = <<>> /\ main' # "flags"
      BY <2>2 DEF DefaultSink, Keep
    <3>2. Wrap(StdoutSink).kind = IF flags.mode = "line" THEN "stdout" ELSE "runblock"
      BY DEF Wrap, StdoutSink
    <3>3. DOMAIN leaves' = {1} /\ leaves'[1] = Wrap(StdoutSink)
      BY <3>1
    <3>4. BuiltAsExpected'
      BY <3>1, <3>2, <3>3 DEF BuiltAsExpected
    <3> QED BY <3>1, <3>4 DEF BuildInv
  <2>3. CASE Compose
    <3>1. leaves' = <<>> /\ leaves' \in Seq({}) /\ main' # "flags"
      BY <2>3 DEF Compose
    <3> QED BY <3>1 DEF BuildInv, BuiltAsExpected
  <2>4. CASE UNCHANGED <<flags, dsns, leaves>> /\ (main' = "flags" => main = "flags")
    BY <1>3, <2>4 DEF BuildInv, BuiltAsExpected
  <2>5. \/ AddSink \/ DefaultSink \/ Compose
        \/ UNCHANGED <<flags, dsns, leaves>> /\ (main' = "flags" => main = "flags")
    BY <1>3
       DEF Next, MainStep, Build, ParseFlags, GiveUp, Bind, Fail, Arrive, Handled, Signal,
           MarkReady, Notify, Wake, MarkNotReady, Expire, StopListening, GrpcStopped,
           HttpStopped, CloseAdmin, Release, Return, ReleaseSinks, Terminated, buildVars,
           pipelineVars, serveVars, vars
  <2> QED BY <2>1, <2>2, <2>3, <2>4, <2>5
<1>4. BuildInv => BuiltAsExpected
  BY DEF BuildInv
<1> QED
  BY <1>2, <1>3, <1>4, PTL DEF Spec

=============================================================================
