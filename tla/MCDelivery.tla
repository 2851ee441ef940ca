---------------------------- MODULE MCDelivery ----------------------------
(* Pipelines, payloads and calls for TLC. *)
EXTENDS Delivery, TLC

CONSTANTS s1, s2, s3, p1, p2

\* stdout and a sink that retries, and the latter alone
Fan == {s1, s2}
ForwardOnly == {s2}
Forwarding == {s2}

\* stdout, a forwarding sink with a budget and a timeout, and one without
Wide == {s1, s2, s3}
Retriers == {s2, s3}
Unbounded == {s3}

One == {p1}
Two == {p1, p2}
Garbled == {p2}
None == {}

\* Calls are interchangeable; used by the runs without a liveness property.
CallSymmetry == Permutations(Calls)
=============================================================================
