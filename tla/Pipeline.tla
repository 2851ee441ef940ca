------------------------------ MODULE Pipeline ------------------------------
(***************************************************************************)
(* What main does before it listens (cmd/steeplechase/main.go): it reads   *)
(* the flags of the stdout layout, builds one sink per --sink in their     *)
(* order, wraps stdout where blocks are asked for, and composes the sinks. *)
(* A flag or a DSN that is wrong ends the process; the sinks built until   *)
(* then are shut down first.                                               *)
(***************************************************************************)
EXTENDS Dsn, Naturals, Sequences

CONSTANTS
  FlagSets,  \* the triples of stdout flags that may be given
  SinkLists  \* the sequences of DSNs that may be given

VARIABLES
  main,     \* what main does
  flags,    \* mode, idle timeout and cap of the stdout layout
  dsns,     \* the values of --sink
  leaves,   \* the sinks built so far
  running,  \* the leaves that hold a sweeper or a connection: what Shutdown releases
  root      \* the kinds of the leaves of the pipeline

buildVars == <<flags, dsns, leaves, running, root>>
pipelineVars == <<main, buildVars>>

Modes == {"line", "grouped", "tree"}
NoFlags == [mode |-> "line", timeout |-> "5m", items |-> 10000]

PipelineInit ==
  /\ main = "flags"
  /\ flags \in FlagSets
  /\ dsns \in SinkLists
  /\ leaves = <<>>
  /\ running = {}
  /\ root = {}

\* The idle timeout and the cap matter where blocks are printed only.
FlagsFail ==
  \/ flags.mode \notin Modes
  \/ flags.mode # "line" /\ (flags.timeout = "0s" \/ flags.items = 0)

\* log.Fatalf ends the process at once.
ParseFlags ==
  /\ main = "flags"
  /\ main' = IF FlagsFail THEN "fatal" ELSE "sinks"
  /\ UNCHANGED buildVars

\* The wrapper starts a sweeper of its own.
Wrap(sink) ==
  IF sink.kind = "stdout" /\ flags.mode # "line"
    THEN [kind |-> "runblock", mode |-> flags.mode, timeout |-> flags.timeout,
          items |-> flags.items]
    ELSE sink

Keep(sink) ==
  /\ leaves' = Append(leaves, sink)
  /\ running' = running \cup (IF sink.kind = "stdout" THEN {} ELSE {Len(leaves) + 1})
  /\ UNCHANGED <<main, flags, dsns, root>>

\* Without --sink the process writes to stdout.
DefaultSink ==
  /\ main = "sinks"
  /\ dsns = <<>> /\ leaves = <<>>
  /\ Keep(Wrap(StdoutSink))

NextSink == ParseDSN(dsns[Len(leaves) + 1])

AddSink ==
  /\ main = "sinks"
  /\ Len(leaves) < Len(dsns)
  /\ NextSink.kind # "failed"
  /\ Keep(Wrap(NextSink))

\* Variant: the error is returned, and the sinks built before are forgotten.
GiveUpAtOnce ==
  /\ main = "sinks"
  /\ Len(leaves) < Len(dsns)
  /\ NextSink.kind = "failed"
  /\ main' = "fatal"
  /\ UNCHANGED buildVars

\* teardown, and log.Fatalf.
GiveUp ==
  /\ main = "sinks"
  /\ Len(leaves) < Len(dsns)
  /\ NextSink.kind = "failed"
  /\ running' = {}
  /\ main' = "fatal"
  /\ UNCHANGED <<flags, dsns, leaves, root>>

\* One leaf is the root, several are fanned out to; what they were made from is dropped.
Compose ==
  /\ main = "sinks"
  /\ leaves # <<>> /\ Len(leaves) >= Len(dsns)
  /\ main' = "starting"
  /\ root' = {leaves[i].kind : i \in DOMAIN leaves}
  /\ flags' = NoFlags /\ dsns' = <<>> /\ leaves' = <<>>
  /\ UNCHANGED running

Build == ParseFlags \/ DefaultSink \/ AddSink \/ GiveUp \/ Compose

\* Shutdown of the root reaches every leaf.
ReleaseSinks == running' = {} /\ UNCHANGED <<flags, dsns, leaves, root>>

-----------------------------------------------------------------------------
(* What dsn.go:12-39 and README.md:89-131 tell the operator. *)

DocumentedKeys(scheme) ==
  {"name", "timeout", "retry_initial", "retry_max_interval", "retry_max_elapsed"} \cup
    CASE scheme = "otlp+grpc" -> {"tls", "ca", "header", "compression", "keepalive"}
      [] scheme = "mqtt" -> {"qos", "retained", "client_id"}
      [] OTHER -> {"tls", "ca", "header", "compression", "encoding"}

DocumentedDefault(dsn, key) ==
  CASE key = "name" -> dsn.host
    [] key = "tls" -> IF dsn.scheme = "otlp+https" THEN "true" ELSE "false"
    [] key = "timeout" -> "10s"
    [] key = "encoding" -> "proto"
    [] key = "compression" -> IF dsn.scheme = "otlp+grpc" THEN "gzip" ELSE "none"
    [] key = "retry_initial" -> "500ms"
    [] key = "retry_max_interval" -> "10s"
    [] key = "retry_max_elapsed" -> "30s"
    [] key = "keepalive" -> "0s"
    [] key = "qos" -> "1"
    [] key = "retained" -> "false"
    [] key = "client_id" -> "generated"
    [] OTHER -> ""

Documented(dsn, key) == Or(Get(dsn, key), DocumentedDefault(dsn, key))

\* Where the program departs from the table, and what it does instead.  An MQTT
\* sink without a name is called after its topic, too (dsn.go:251-254).  The scheme
\* decides on TLS, not tls: plaintext over http, and TLS over https.  A CA bundle
\* is ignored without TLS.  Ten seconds replace a timeout that is not positive, but
\* for gRPC, where it stands and means no deadline.
Departs(dsn, key) ==
  \/ key = "name" /\ dsn.scheme = "mqtt" /\ Get(dsn, "name") = ""
  \/ key = "tls" /\ dsn.scheme = "otlp+http" /\ Get(dsn, "tls") \in {"true", "insecure"}
  \/ key = "tls" /\ dsn.scheme = "otlp+https" /\ Get(dsn, "tls") = "false"
  \/ key = "ca" /\ dsn.scheme = "otlp+http"
  \/ key = "ca" /\ dsn.scheme = "otlp+grpc" /\ Get(dsn, "tls") \in {"", "false"}
  \/ key = "timeout" /\ dsn.scheme # "otlp+grpc" /\ Get(dsn, "timeout") = "0s"

Instead(dsn, key) ==
  CASE key = "name" -> <<dsn.host, dsn.path>>
    [] key = "tls" -> IF dsn.scheme = "otlp+https" THEN "true" ELSE "false"
    [] key = "ca" -> ""
    [] key = "timeout" -> "10s"

Expected(dsn, key) == IF Departs(dsn, key) THEN Instead(dsn, key) ELSE Documented(dsn, key)

Setting(sink, key) == IF key \in RetryKeys THEN sink.retry[key] ELSE sink[key]

ForwardsAsExpected(dsn, sink) ==
  /\ DOMAIN dsn.query \subseteq DocumentedKeys(dsn.scheme)
  /\ \A key \in DOMAIN dsn.query : dsn.query[key] # "bad"
  /\ \A key \in DocumentedKeys(dsn.scheme) : Setting(sink, key) = Expected(dsn, key)

\* A sink that was built has for every key of the table the setting that was given,
\* or the documented default, or the one departure from it that is listed above for
\* the key; no key was passed over, and blocks are for stdout alone.
BuiltAsExpected ==
  \A i \in DOMAIN leaves :
    IF dsns = <<>> \/ dsns[i].scheme = "stdout"
      THEN leaves[i].kind = IF flags.mode = "line" THEN "stdout" ELSE "runblock"
      ELSE /\ leaves[i].kind \in {"grpc", "http", "mqtt"}
           /\ ForwardsAsExpected(dsns[i], leaves[i])

\* The table alone, without the departures: it does not hold, as MQTT names, tls over
\* HTTP and timeouts of zero show.  No run checks it.
BuiltAsDocumented ==
  \A i \in DOMAIN leaves \cap DOMAIN dsns :
    dsns[i].scheme # "stdout" =>
      \A key \in DocumentedKeys(dsns[i].scheme) :
        Setting(leaves[i], key) = Documented(dsns[i], key)

=============================================================================
