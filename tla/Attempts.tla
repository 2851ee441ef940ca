------------------------------ MODULE Attempts ------------------------------
(***************************************************************************)
(* What a caller of retryConfig.Do (internal/sink/retry.go) may rely on,   *)
(* without time: a request is sent again only after a send that failed in  *)
(* a retryable way, success is reported exactly when the last send         *)
(* succeeded, and the number of retries reported is right, or one too many *)
(* when the context ended at the end of a backoff.                         *)
(***************************************************************************)
EXTENDS Naturals

VARIABLES
  sends,     \* how often the request was sent
  last,      \* what the last send came to, "none" before the first
  reported   \* what Do returned, <<>> before it returns

promiseVars == <<sends, last, reported>>

Outcome == {"ok", "retryable", "permanent", "canceled", "deadline"}

PromiseInit == sends = 0 /\ last = "none" /\ reported = <<>>

\* One more send; its outcome is known when it ends.
Send ==
  /\ reported = <<>>
  /\ last \in {"none", "retryable"}
  /\ sends' = sends + 1
  /\ last' = "pending"
  /\ UNCHANGED reported

Answered(o) ==
  /\ last = "pending"
  /\ o \in Outcome
  /\ last' = o
  /\ UNCHANGED <<sends, reported>>

\* Do returns success exactly after a send that succeeded.
Report(ok, n) ==
  /\ reported = <<>>
  /\ last # "pending"
  /\ ok = (last = "ok")
  /\ n \in {sends - 1, sends} \cap Nat
  /\ last # "retryable" => n = (IF sends = 0 THEN 0 ELSE sends - 1)
  /\ reported' = <<ok, n>>
  /\ UNCHANGED <<sends, last>>

PromiseNext ==
  \/ Send
  \/ \E o \in Outcome : Answered(o)
  \/ \E ok \in BOOLEAN, n \in {sends - 1, sends} : Report(ok, n)

PromiseSpec == PromiseInit /\ [][PromiseNext]_promiseVars

=============================================================================
