----------------------------- MODULE Transport -----------------------------
(***************************************************************************)
(* What a send of OTLPForwardSink comes to: classifyGRPCError              *)
(* (internal/sink/otlp_forward_grpc.go) and the end of post                *)
(* (otlp_forward_http.go).  The outcomes are those that Do tells apart.    *)
(***************************************************************************)
EXTENDS Naturals

Outcome == {"ok", "retryable", "permanent", "canceled", "deadline"}

\* The status codes of gRPC.
Codes ==
  {"OK", "Canceled", "Unknown", "InvalidArgument", "DeadlineExceeded", "NotFound",
   "AlreadyExists", "PermissionDenied", "ResourceExhausted", "FailedPrecondition",
   "Aborted", "OutOfRange", "Unimplemented", "Internal", "Unavailable", "DataLoss",
   "Unauthenticated"}

PermanentCodes ==
  {"InvalidArgument", "NotFound", "AlreadyExists", "PermissionDenied",
   "FailedPrecondition", "OutOfRange", "Unimplemented", "Unauthenticated"}

GrpcOutcome(code) ==
  CASE code = "OK" -> "ok"
    [] code \in PermanentCodes -> "permanent"
    [] code = "Canceled" -> "canceled"
    [] code = "DeadlineExceeded" -> "deadline"
    [] OTHER -> "retryable"

HttpOutcome(status) ==
  CASE status \in 200..299 -> "ok"
    [] status \in {408, 429} -> "retryable"
    [] status \in 400..499 -> "permanent"
    [] OTHER -> "retryable"

\* What a send may come to, given what ctx.Err() is and whether the timeout of the
\* call has passed.  Over gRPC every code can come, from the server or, for the
\* ends of a context, a failed connection or a message that cannot be encoded,
\* from the library.  Over HTTP there may be no response: the message could not be
\* encoded, the network failed, the context ended, or the client's timeout passed.
Outcomes(wire, ctx, late) ==
  IF wire = "grpc" THEN {GrpcOutcome(code) : code \in Codes}
  ELSE {HttpOutcome(status) : status \in 200..599}
         \cup {"permanent", "retryable"}
         \cup (IF ctx = "none" THEN {} ELSE {ctx})
         \cup (IF late THEN {"deadline"} ELSE {})

=============================================================================
