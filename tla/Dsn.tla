-------------------------------- MODULE Dsn --------------------------------
(***************************************************************************)
(* From the DSN of a sink to the sink (internal/sink/dsn.go and the        *)
(* constructors of the transports).                                        *)
(*                                                                         *)
(* A DSN is a record: its scheme, host and path, whether it has a          *)
(* fragment, and its query, a function from keys to values.  A value is a  *)
(* string; "" is a key without a value, and "bad" stands for one that      *)
(* cannot be read: no duration, no header, no mode.  The spellings of a    *)
(* mode ("1", "yes", "TRUE") and of a duration are one value each; "0s"    *)
(* stands for every duration that is not positive.                         *)
(***************************************************************************)

RetryKeys == {"retry_initial", "retry_max_interval", "retry_max_elapsed"}
ForwardKeys == {"name", "tls", "ca", "header", "timeout", "compression"} \cup RetryKeys

KnownGRPCKeys == ForwardKeys \cup {"keepalive"}
KnownHTTPKeys == ForwardKeys \cup {"encoding"}
KnownMQTTKeys == {"name", "timeout", "qos", "retained", "client_id"} \cup RetryKeys

Unreadable == "no such file"

Get(dsn, key) == IF key \in DOMAIN dsn.query THEN dsn.query[key] ELSE ""
Or(value, default) == IF value = "" THEN default ELSE value

-----------------------------------------------------------------------------
(* The query. *)

\* An empty value counts as none, but for a header and for the encoding.
Reads(key, value) ==
  CASE key = "tls" -> value \in {"", "true", "false", "insecure"}
    [] key = "compression" -> value \in {"", "gzip", "none"}
    [] key = "encoding" -> value \in {"proto", "json"}
    [] key = "header" -> value \notin {"", "bad"}
    [] key = "qos" -> value \in {"", "0", "1", "2"}
    [] key = "retained" -> value \in {"", "true", "false"}
    [] OTHER -> value # "bad"

\* Variant: a key that is not known is passed over.
QueryFailsLoosely(dsn, allowed) ==
  \E key \in DOMAIN dsn.query \cap allowed : ~Reads(key, dsn.query[key])

QueryFails(dsn, allowed) ==
  \E key \in DOMAIN dsn.query : key \notin allowed \/ ~Reads(key, dsn.query[key])

\* What is read, and what holds in its absence.
ParseQuery(dsn) ==
  [name |-> Get(dsn, "name"),
   tls |-> Or(Get(dsn, "tls"), "false"),
   ca |-> Get(dsn, "ca"),
   header |-> Get(dsn, "header"),
   timeout |-> Or(Get(dsn, "timeout"), "10s"),
   compression |-> Get(dsn, "compression"),
   encoding |-> Get(dsn, "encoding"),
   keepalive |-> Or(Get(dsn, "keepalive"), "0s"),
   retry_initial |-> Or(Get(dsn, "retry_initial"), "500ms"),
   retry_max_interval |-> Or(Get(dsn, "retry_max_interval"), "10s"),
   retry_max_elapsed |-> Or(Get(dsn, "retry_max_elapsed"), "30s")]

RetryConfig(q) ==
  [retry_initial |-> q.retry_initial, retry_max_interval |-> q.retry_max_interval,
   retry_max_elapsed |-> q.retry_max_elapsed]

\* A client is made over TLS only when its CA bundle can be read.
TLSFails(tls, ca) == tls # "false" /\ ca = Unreadable
CAUsed(tls, ca) == IF tls = "false" THEN "" ELSE ca

\* A timeout that is not positive is no deadline over gRPC, and ten seconds elsewhere.
TimeoutOrDefault(timeout) == IF timeout = "0s" THEN "10s" ELSE timeout

-----------------------------------------------------------------------------
(* The sinks. *)

Failed == [kind |-> "failed"]
StdoutSink == [kind |-> "stdout"]

ParseGRPC(dsn) ==
  LET q == ParseQuery(dsn)
  IN  IF dsn.host = "" \/ QueryFails(dsn, KnownGRPCKeys) \/ TLSFails(q.tls, q.ca)
        THEN Failed
        ELSE [kind |-> "grpc", to |-> dsn.host, name |-> Or(q.name, dsn.host),
              tls |-> q.tls, ca |-> CAUsed(q.tls, q.ca), header |-> q.header,
              timeout |-> q.timeout, compression |-> Or(q.compression, "gzip"),
              encoding |-> "proto", keepalive |-> q.keepalive, retry |-> RetryConfig(q)]

ParseHTTP(dsn) ==
  LET q == ParseQuery(dsn)
      tls == IF dsn.scheme = "otlp+http" THEN "false"
             ELSE IF q.tls = "false" THEN "true" ELSE q.tls
  IN  IF dsn.host = "" \/ QueryFails(dsn, KnownHTTPKeys) \/ TLSFails(tls, q.ca)
        THEN Failed
        ELSE [kind |-> "http", to |-> <<dsn.host, dsn.path>>, name |-> Or(q.name, dsn.host),
              tls |-> tls, ca |-> CAUsed(tls, q.ca), header |-> q.header,
              timeout |-> TimeoutOrDefault(q.timeout),
              compression |-> Or(q.compression, "none"),
              encoding |-> Or(q.encoding, "proto"), retry |-> RetryConfig(q)]

\* The path is the base topic, without the slashes around it.
ParseMQTT(dsn) ==
  LET q == ParseQuery(dsn)
  IN  IF \/ dsn.host \in {"", "host", ":1"} \/ dsn.fragment
         \/ dsn.path \in {"", "a/+"} \/ QueryFails(dsn, KnownMQTTKeys)
        THEN Failed
        ELSE [kind |-> "mqtt", to |-> <<dsn.host, dsn.path>>,
              name |-> Or(q.name, <<dsn.host, dsn.path>>),
              timeout |-> TimeoutOrDefault(q.timeout), qos |-> Or(Get(dsn, "qos"), "1"),
              retained |-> Or(Get(dsn, "retained"), "false"),
              client_id |-> Or(Get(dsn, "client_id"), "generated"), retry |-> RetryConfig(q)]

\* Any other scheme, no DSN at all and one that is no URL are errors.
ParseDSN(dsn) ==
  CASE dsn.scheme = "stdout" -> StdoutSink
    [] dsn.scheme = "otlp+grpc" -> ParseGRPC(dsn)
    [] dsn.scheme \in {"otlp+http", "otlp+https"} -> ParseHTTP(dsn)
    [] dsn.scheme = "mqtt" -> ParseMQTT(dsn)
    [] OTHER -> Failed

=============================================================================
