---------------------------- MODULE MCLifecycle ----------------------------
(* Flags and DSNs for TLC. *)
EXTENDS Lifecycle, TLC

Dsn(scheme, host, path, query) ==
  [scheme |-> scheme, host |-> host, path |-> path, fragment |-> FALSE, query |-> query]
NoQuery == [key \in {} |-> ""]

Plain(scheme) == Dsn(scheme, "host:1", "a", NoQuery)
Bare(scheme) == Dsn(scheme, "", "", NoQuery)

\* Every key of any sink, and one that none knows.
Keys == KnownGRPCKeys \cup KnownHTTPKeys \cup KnownMQTTKeys \cup {"typo"}
Values(key) ==
  {"", "bad"} \cup
    CASE key = "tls" -> {"true", "false", "insecure"}
      [] key = "ca" -> {"ca.pem", Unreadable}
      [] key = "compression" -> {"gzip", "none"}
      [] key = "encoding" -> {"proto", "json"}
      [] key = "qos" -> {"0", "2"}
      [] key = "retained" -> {"true"}
      [] key \in RetryKeys \cup {"timeout", "keepalive"} -> {"0s", "3s"}
      [] OTHER -> {"given"}

Schemes == {"otlp+grpc", "otlp+http", "otlp+https", "mqtt"}

\* One key with any value; tls and a CA bundle together; every shape of address;
\* what is no DSN of any sink.
OneKey == UNION {{[Plain(s) EXCEPT !.query = (k :> v)] : s \in Schemes, v \in Values(k)} : k \in Keys}
TlsAndCA ==
  {[Plain(s) EXCEPT !.query = ("tls" :> t) @@ ("ca" :> c)] :
     s \in Schemes, t \in {"true", "false", "insecure"}, c \in {"ca.pem", Unreadable}}
Addresses ==
  {[scheme |-> s, host |-> h, path |-> p, fragment |-> f, query |-> NoQuery] :
     s \in Schemes, h \in {"", "host", ":1", "host:1"}, p \in {"", "a", "a/+"}, f \in BOOLEAN}
Others == {Bare(s) : s \in {"", "ftp", "no url"}}

\* No DSN; each of them alone; a few that fail or not after others were built.
MCSinkLists ==
  LET out == Bare("stdout") grpc == Plain("otlp+grpc") mqtt == Plain("mqtt") ftp == Bare("ftp")
  IN  {<<>>, <<out>>} \cup {<<d>> : d \in OneKey \cup TlsAndCA \cup Addresses \cup Others}
        \cup {<<out, grpc>>, <<grpc, out, ftp>>, <<out, mqtt, ftp>>, <<ftp, out>>}

MCFlagSets ==
  {[mode |-> m, timeout |-> "5m", items |-> 1] : m \in {"line", "grouped", "tree", "other"}}
    \cup {[mode |-> m, timeout |-> "0s", items |-> 1] : m \in {"line", "tree"}}
    \cup {[mode |-> m, timeout |-> "5m", items |-> 0] : m \in {"line", "grouped"}}
=============================================================================
