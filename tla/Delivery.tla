------------------------------ MODULE Delivery ------------------------------
(***************************************************************************)
(* The way of an export call of one signal: receiver                       *)
(* (internal/receiver), FanoutSink (fanout.go), one MeteredSink            *)
(* (metered.go) per sink around an OTLPForwardSink or MQTTSink, which      *)
(* retry (otlp_forward.go, mqtt.go), or around a StdoutSink or             *)
(* RunBlockSink, which do not; and the Prometheus counters of              *)
(* internal/metrics.  The sinks of the pipeline are the leaves.            *)
(*                                                                         *)
(* The exporter and the destinations are outside: the exporter sends a     *)
(* payload again until it is told that it was accepted or is malformed     *)
(* and may stop waiting at any time; a destination may take a payload and  *)
(* fail to say so.  Do is modelled by what Attempts says of it; its time   *)
(* is left out, so that it may give up after any attempt.                  *)
(*                                                                         *)
(* Leaves differ in what their answer is worth.  An MQTTSink may report    *)
(* success for a payload nobody took (mqtt.go:108-111, and any publish of  *)
(* QoS 0), and so may a RunBlockSink (runblock.go:639, 653): these are     *)
(* Unsure.  A sink that retries without a budget (retry.go:111) or sends   *)
(* over gRPC without a timeout (otlp_forward_grpc.go:140) may never answer *)
(* as long as its caller waits: these are Endless.                         *)
(***************************************************************************)
EXTENDS Naturals, FiniteSets, Functions

CONSTANTS
  Calls,        \* the export calls of a behaviour
  NoCall,       \* no call
  Payloads,     \* the payloads exported
  NoPayload,    \* the payload of a call that was not made yet
  Malformed,    \* the payloads the HTTP receiver cannot decode
  Leaves,       \* the sinks configured
  Retrying,     \* those with a retry policy and a retry count
  Unsure,       \* those that may report success when nothing was taken
  Endless,      \* those that retry and may never return while they are waited for
  MaxSends,     \* bound on the sends of one call to one leaf
  Impatient,    \* TRUE: the exporter may stop waiting for an answer
  SlowAnswers   \* TRUE: the answer may come after the server's WriteTimeout

ASSUME DeliveryAssumption ==
  /\ NoCall \notin Calls
  /\ NoPayload \notin Payloads
  /\ Malformed \subseteq Payloads
  /\ Leaves # {} /\ IsFiniteSet(Leaves)
  /\ Retrying \subseteq Leaves /\ Unsure \subseteq Leaves
  /\ Endless \subseteq Retrying
  /\ MaxSends \in Nat \ {0}
  /\ {Impatient, SlowAnswers} \subseteq BOOLEAN

VARIABLES
  status,     \* what the exporter knows of each payload
  waiting,    \* the call it waits for
  carried,    \* the payload of each call
  pc,         \* the progress of each call in the receiver
  ended,      \* the calls whose context has ended
  late,       \* the calls past the server's WriteTimeout
  leaf,       \* the progress of each call in each leaf
  sends,      \* how often the leaf sent the call's payload
  last,       \* what the last of these sends came to
  result,     \* what the leaf returned
  lastCount,  \* lastMetricsRetries, lastLogsRetries or lastTracesRetries
  accepted,   \* receiver_accept_total
  inflight,   \* sink_inflight
  succeeded,  \* sink_success_total
  failed,     \* sink_failure_total
  retried,    \* sink_retries_total
  copies      \* how many copies of each payload each destination took

exporterVars == <<status, waiting>>
callVars     == <<carried, pc, ended, late>>
leafVars     == <<leaf, sends, last, result, lastCount>>
counterVars  == <<inflight, succeeded, failed, retried>>
vars == <<exporterVars, callVars, leafVars, accepted, counterVars, copies>>

CallLeaf(x) == [c \in Calls |-> [s \in Leaves |-> x]]

Init ==
  /\ status = [p \in Payloads |-> "open"]
  /\ waiting = [p \in Payloads |-> NoCall]
  /\ carried = [c \in Calls |-> NoPayload]
  /\ pc = [c \in Calls |-> "idle"]
  /\ ended = {}
  /\ late = {}
  /\ leaf = CallLeaf("off")
  /\ sends = CallLeaf(0)
  /\ last = CallLeaf("none")
  /\ result = CallLeaf("none")
  /\ lastCount = [s \in Leaves |-> 0]
  /\ accepted = 0
  /\ inflight = [s \in Leaves |-> 0]
  /\ succeeded = [s \in Leaves |-> 0]
  /\ failed = [s \in Leaves |-> 0]
  /\ retried = [s \in Leaves |-> 0]
  /\ copies = [p \in Payloads |-> [s \in Leaves |-> 0]]

-----------------------------------------------------------------------------
(* The exporter and the receiver. *)

\* The exporter sends a payload, the first time or again.
Export(p, c) ==
  /\ status[p] = "open"
  /\ waiting[p] = NoCall
  /\ pc[c] = "idle"
  /\ waiting' = [waiting EXCEPT ![p] = c]
  /\ carried' = [carried EXCEPT ![c] = p]
  /\ pc' = [pc EXCEPT ![c] = "received"]
  /\ UNCHANGED <<status, ended, late, leafVars, accepted, counterVars, copies>>

\* The exporter's deadline passes, or its connection breaks.
GiveUp(p) ==
  /\ Impatient
  /\ waiting[p] # NoCall
  /\ ended' = ended \cup {waiting[p]}
  /\ waiting' = [waiting EXCEPT ![p] = NoCall]
  /\ UNCHANGED <<status, carried, pc, late, leafVars, accepted, counterVars, copies>>

\* The server's WriteTimeout passes; the handler goes on.
PassDeadline(c) ==
  /\ SlowAnswers
  /\ pc[c] = "consuming"
  /\ late' = late \cup {c}
  /\ UNCHANGED <<exporterVars, carried, pc, ended, leafVars, accepted, counterVars, copies>>

\* The exporter hears of call c, unless it has given up on it.
Hear(c, news) ==
  LET p == carried[c]
  IN IF waiting[p] = c
       THEN /\ waiting' = [waiting EXCEPT ![p] = NoCall]
            /\ status' = [status EXCEPT ![p] = news]
       ELSE UNCHANGED exporterVars

\* The request is counted before its body is read; a body that cannot be decoded
\* is answered with 400, which ends the exporter's attempts.  (The gRPC server
\* refuses such a request before its handler runs.)
Reject(c) ==
  /\ pc[c] = "received"
  /\ carried[c] \in Malformed
  /\ accepted' = accepted + 1
  /\ pc' = [pc EXCEPT ![c] = "rejected"]
  /\ Hear(c, "refused")
  /\ UNCHANGED <<carried, ended, late, leafVars, counterVars, copies>>

\* The decoded request is handed to every leaf, each in its own goroutine.
Consume(c) ==
  /\ pc[c] = "received"
  /\ carried[c] \notin Malformed
  /\ accepted' = accepted + 1
  /\ pc' = [pc EXCEPT ![c] = "consuming"]
  /\ leaf' = [leaf EXCEPT ![c] = [s \in Leaves |-> "start"]]
  /\ UNCHANGED <<exporterVars, carried, ended, late, sends, last, result, lastCount, counterVars, copies>>

\* Variant: one failed sink fails the request.
TakenByAll(c) == \A s \in Leaves : result[c][s] = "ok"

\* Variant: the request never fails.
TakenAnyway(c) == TRUE

\* Not every sink failed.
Taken(c) == \E s \in Leaves : result[c][s] = "ok"

\* wg.Wait returns when every leaf has, and the answer is written.
Answer(c) ==
  /\ pc[c] = "consuming"
  /\ \A s \in Leaves : leaf[c][s] = "done"
  /\ pc' = [pc EXCEPT ![c] = IF Taken(c) THEN "ok" ELSE "error"]
  /\ Hear(c, IF Taken(c) /\ c \notin late THEN "settled" ELSE "open")
  /\ UNCHANGED <<carried, ended, late, leafVars, accepted, counterVars, copies>>

-----------------------------------------------------------------------------
(* Call c in leaf s. *)

Copied(c, s) == copies' = [copies EXCEPT ![carried[c]][s] = @ + 1]

\* Variant: the gauge is not raised.
StartUncounted(c, s) ==
  /\ leaf[c][s] = "start"
  /\ leaf' = [leaf EXCEPT ![c][s] = "inner"]
  /\ UNCHANGED <<exporterVars, callVars, sends, last, result, lastCount, accepted,
                 counterVars, copies>>

\* Variant: the sinks are called one after another.
StartInTurn(c, s) ==
  /\ leaf[c][s] = "start"
  /\ \A t \in Leaves : leaf[c][t] \in {"start", "done"}
  /\ inflight' = [inflight EXCEPT ![s] = @ + 1]
  /\ leaf' = [leaf EXCEPT ![c][s] = "inner"]
  /\ UNCHANGED <<exporterVars, callVars, sends, last, result, lastCount, accepted,
                 succeeded, failed, retried, copies>>

\* MeteredSink: SinkStart.
Start(c, s) ==
  /\ leaf[c][s] = "start"
  /\ inflight' = [inflight EXCEPT ![s] = @ + 1]
  /\ leaf' = [leaf EXCEPT ![c][s] = "inner"]
  /\ UNCHANGED <<exporterVars, callVars, sends, last, result, lastCount, accepted,
                 succeeded, failed, retried, copies>>

\* The context is found alive: by a StdoutSink or RunBlockSink at the beginning, by
\* Do before each attempt.
Enter(c, s) ==
  /\ leaf[c][s] = "inner"
  /\ c \notin ended
  /\ s \in Retrying => last[c][s] \in {"none", "retryable"} /\ sends[c][s] < MaxSends
  /\ leaf' = [leaf EXCEPT ![c][s] = "work"]
  /\ UNCHANGED <<exporterVars, callVars, sends, last, result, lastCount, accepted,
                 counterVars, copies>>

\* A StdoutSink or RunBlockSink finds that it has ended.
Decline(c, s) ==
  /\ leaf[c][s] = "inner"
  /\ s \notin Retrying
  /\ c \in ended
  /\ result' = [result EXCEPT ![c][s] = "failed"]
  /\ leaf' = [leaf EXCEPT ![c][s] = "return"]
  /\ UNCHANGED <<exporterVars, callVars, sends, last, lastCount, accepted,
                 counterVars, copies>>

\* A StdoutSink prints the request, or its writer fails, which may then have shown
\* a part of it.  A RunBlockSink hides the failure of its writer from the caller,
\* and so that of an item that came after a truncation.
Write(c, s, ok) ==
  /\ leaf[c][s] = "work"
  /\ s \notin Retrying
  /\ Copied(c, s) \/ ((ok => s \in Unsure) /\ UNCHANGED copies)
  /\ result' = [result EXCEPT ![c][s] = IF ok THEN "ok" ELSE "failed"]
  /\ leaf' = [leaf EXCEPT ![c][s] = "return"]
  /\ UNCHANGED <<exporterVars, callVars, sends, last, lastCount, accepted,
                 counterVars>>

\* What a send can come to (Outcomes of Transport, the outcomes of MqttTransport),
\* and whether the destination has taken the payload.  "deadline" stands for the
\* errors of both ends of a context, which Do treats alike: the server, too, may
\* answer with either.
SendOutcomes(s) ==
  {<<"ok", TRUE>>, <<"permanent", FALSE>>}
    \cup {"retryable", "deadline"} \X BOOLEAN
    \cup (IF s \in Unsure THEN {<<"ok", FALSE>>} ELSE {})

\* One attempt of Do, in which the context may have ended meanwhile.
Send(c, s) ==
  /\ leaf[c][s] = "work"
  /\ s \in Retrying
  /\ sends' = [sends EXCEPT ![c][s] = @ + 1]
  /\ \E o \in SendOutcomes(s) :
       /\ last' = [last EXCEPT ![c][s] = o[1]]
       /\ IF o[2] THEN Copied(c, s) ELSE UNCHANGED copies
  /\ leaf' = [leaf EXCEPT ![c][s] = "inner"]
  /\ UNCHANGED <<exporterVars, callVars, result, lastCount, accepted, counterVars>>

\* Do returns, and the sink stores the retries it reports.
Store(c, s, n) ==
  /\ leaf[c][s] = "inner"
  /\ s \in Retrying
  /\ last[c][s] = "none" => c \in ended
  /\ n \in (IF last[c][s] = "retryable" /\ c \in ended
              THEN {sends[c][s] - 1, sends[c][s]}
              ELSE {IF sends[c][s] = 0 THEN 0 ELSE sends[c][s] - 1})
  /\ lastCount' = [lastCount EXCEPT ![s] = n]
  /\ result' = [result EXCEPT ![c][s] = IF last[c][s] = "ok" THEN "ok" ELSE "failed"]
  /\ leaf' = [leaf EXCEPT ![c][s] = "return"]
  /\ UNCHANGED <<exporterVars, callVars, sends, last, accepted, counterVars, copies>>

\* Variant: an error is counted as a success.
FinishLenient(c, s) ==
  /\ leaf[c][s] = "return"
  /\ inflight' = [inflight EXCEPT ![s] = @ - 1]
  /\ retried' = [retried EXCEPT ![s] = @ + (IF s \in Retrying THEN lastCount[s] ELSE 0)]
  /\ succeeded' = [succeeded EXCEPT ![s] = @ + 1]
  /\ leaf' = [leaf EXCEPT ![c][s] = "done"]
  /\ UNCHANGED <<exporterVars, callVars, sends, last, result, lastCount, accepted,
                 failed, copies>>

\* MeteredSink: the retry count is read back and finish is called.
Finish(c, s) ==
  /\ leaf[c][s] = "return"
  /\ inflight' = [inflight EXCEPT ![s] = @ - 1]
  /\ retried' = [retried EXCEPT ![s] = @ + (IF s \in Retrying THEN lastCount[s] ELSE 0)]
  /\ IF result[c][s] = "ok"
       THEN succeeded' = [succeeded EXCEPT ![s] = @ + 1] /\ UNCHANGED failed
       ELSE failed' = [failed EXCEPT ![s] = @ + 1] /\ UNCHANGED succeeded
  /\ leaf' = [leaf EXCEPT ![c][s] = "done"]
  /\ UNCHANGED <<exporterVars, callVars, sends, last, result, lastCount, accepted,
                 copies>>

-----------------------------------------------------------------------------

LeafStep(c, s) ==
  \/ Start(c, s) \/ Enter(c, s) \/ Decline(c, s) \/ Send(c, s) \/ Finish(c, s)
  \/ \E ok \in BOOLEAN : Write(c, s, ok)
  \/ \E n \in 0..MaxSends : Store(c, s, n)

Over(c) == pc[c] \in {"rejected", "ok", "error"}

\* Every call was made and is over.
Quiet == (\A c \in Calls : pc[c] = "idle" \/ Over(c)) /\ UNCHANGED vars

Next ==
  \/ \E p \in Payloads : GiveUp(p) \/ \E c \in Calls : Export(p, c)
  \/ \E c \in Calls :
       \/ PassDeadline(c) \/ Reject(c) \/ Consume(c) \/ Answer(c)
       \/ \E s \in Leaves : LeafStep(c, s)
  \/ Quiet

Spec == Init /\ [][Next]_vars

\* Every goroutine that can run does, but nothing makes a leaf that is Endless end
\* its work unless the context does, which Do and its transports heed.  Nothing
\* obliges an exporter to send, or to give up.
FairSpec ==
  /\ Spec
  /\ \A c \in Calls :
       /\ WF_vars(Reject(c) \/ Consume(c) \/ Answer(c))
       /\ \A s \in Leaves \ Endless : WF_vars(LeafStep(c, s))
       /\ \A s \in Endless :
            /\ WF_vars(Start(c, s) \/ Finish(c, s))
            /\ WF_vars(c \in ended /\ LeafStep(c, s))

-----------------------------------------------------------------------------
(* Properties. *)

\* Every variable has its type.
TypeOK ==
  /\ status \in [Payloads -> {"open", "settled", "refused"}]
  /\ waiting \in [Payloads -> Calls \cup {NoCall}]
  /\ carried \in [Calls -> Payloads \cup {NoPayload}]
  /\ pc \in [Calls -> {"idle", "received", "consuming", "rejected", "ok", "error"}]
  /\ ended \subseteq Calls
  /\ late \subseteq Calls
  /\ leaf \in [Calls -> [Leaves -> {"off", "start", "inner", "work", "return", "done"}]]
  /\ sends \in [Calls -> [Leaves -> 0..MaxSends]]
  /\ last \in [Calls -> [Leaves -> {"none", "ok", "retryable", "permanent", "deadline"}]]
  /\ result \in [Calls -> [Leaves -> {"none", "ok", "failed"}]]
  /\ lastCount \in [Leaves -> Nat]
  /\ accepted \in Nat
  /\ {inflight, succeeded, failed, retried} \subseteq [Leaves -> Nat]
  /\ copies \in [Payloads -> [Leaves -> Nat]]

\* The exporter heard the fate of every call it made: it never gave up, and no
\* answer was late.
Heard == ended = {} /\ late = {}

CallsTakenBy(p, s) == {c \in Calls : carried[c] = p /\ result[c][s] = "ok"}

\* A flaky sink does not make the exporter send a payload again that another
\* sink has accepted, as long as the exporter hears the answers (fanout.go:14-22).
OneCopyEach ==
  Heard => \A p \in Payloads, s \in Leaves : Cardinality(CallsTakenBy(p, s)) <= 1

Inside(c, s) == leaf[c][s] \in {"inner", "work", "return"}

\* The meters of a sink tell of its calls, whatever of them overlap: the gauge
\* how many are inside, the two counters how those that left ended; and each
\* receiver counts its requests, those that cannot be decoded included.
MetersAddUp ==
  /\ accepted = Cardinality({c \in Calls : pc[c] \notin {"idle", "received"}})
  /\ \A s \in Leaves :
       /\ inflight[s] = Cardinality({c \in Calls : Inside(c, s)})
       /\ \A r \in {"ok", "failed"} :
            (IF r = "ok" THEN succeeded ELSE failed)[s] =
              Cardinality({c \in Calls : leaf[c][s] = "done" /\ result[c][s] = r})

\* What the exporter is told is true of the sinks, as far as these can know.
SettledWasTaken ==
  INSTANCE AtLeastOnce WITH
    taken <- [p \in Payloads |-> {s \in Leaves : copies[p][s] > 0}],
    claimed <- [p \in Payloads |-> {s \in Leaves : CallsTakenBy(p, s) # {}}]

AtLeastOneSink == SettledWasTaken!PromiseSpec

\* An endless leaf has the call, and the exporter still waits.
HeldUp(c) == c \notin ended /\ \E s \in Endless : leaf[c][s] \in {"inner", "work"}

\* A call is answered unless a sink without a deadline holds it up for as long as
\* the exporter has the patience; even then every other sink is done with the
\* payload (fanout.go:69-78).
CallsAreAnswered ==
  \A c \in Calls :
    /\ pc[c] = "received" ~> (Over(c) \/ []HeldUp(c))
    /\ \A s \in Leaves \ Endless : pc[c] = "consuming" ~> leaf[c][s] = "done"

-----------------------------------------------------------------------------
(* What comments promise and the code does not keep. *)

AllOver == \A c \in Calls : pc[c] = "idle" \/ Over(c)

\* The sends of call c to leaf s after the first.
Repeats(c, s) == IF sends[c][s] = 0 THEN 0 ELSE sends[c][s] - 1

\* metrics.go:86: the counter is the number of retries issued, once no call is left.
RetriesAddUp ==
  AllOver => \A s \in Leaves :
    retried[s] = FoldFunction(+, 0, [c \in Calls |-> Repeats(c, s)])

=============================================================================
