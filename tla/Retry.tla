------------------------------- MODULE Retry -------------------------------
(***************************************************************************)
(* retryConfig.Do (internal/sink/retry.go): one request sent with          *)
(* exponential backoff until it succeeds, cannot succeed, the context ends *)
(* or the budget is used up.                                               *)
(*                                                                         *)
(* The clock counts ticks from the call of Do.  Time passes while an       *)
(* attempt is under way, between the two readings of the clock that follow *)
(* it, and while Do sleeps; timers fire on time, and so does a context     *)
(* that ends during a sleep.  An attempt lasts at most SendTimeout, the    *)
(* per-call timeout of the transports                                      *)
(* (internal/sink/otlp_forward_grpc.go:140, otlp_forward_http.go:81),      *)
(* which is positive by default.  Jitter is in percent.                    *)
(***************************************************************************)
EXTENDS Integers, Transport

CONSTANTS
  Initial,       \* retryConfig.Initial
  Max,           \* retryConfig.Max
  MaxElapsed,    \* retryConfig.MaxElapsed, the budget; none when <= 0
  Multiplier,    \* retryConfig.Multiplier
  Jitter,        \* retryConfig.Jitter, in percent
  DefaultInitial,  \* the 500ms that replace an Initial <= 0
  SendTimeout,   \* the longest an attempt takes
  Lag,           \* the longest Do is kept between its two readings of the clock
  MayEnd,        \* TRUE: the context of the call may end
  Wires          \* the protocols of the transport

ASSUME ConfigAssumption ==
  /\ Initial \in Int /\ Max \in Int /\ MaxElapsed \in Int
  /\ Multiplier \in Int /\ Jitter \in Int
  /\ DefaultInitial \in Nat \ {0}
  /\ SendTimeout \in Nat /\ Lag \in Nat
  /\ MayEnd \in BOOLEAN
  /\ Wires \subseteq {"grpc", "http"}

VARIABLES
  wire,      \* the protocol of the transport that is called
  pc,        \* the program counter of Do
  clock,     \* time.Since(start)
  ctx,       \* ctx.Err(): "none", "canceled" or "deadline"
  err,       \* the local err
  attempts,  \* the local attempts
  interval,  \* the local interval
  wake,      \* when the attempt or the pause must have ended, or the timer fires
  slept,     \* the length of the last sleep
  sends,     \* how often op was called
  answer,    \* what the last of these calls came to
  wasted,    \* how many of these calls began after the context had ended
  endedAt    \* the clock when the context ended

vars == <<wire, pc, clock, ctx, err, attempts, interval, wake, slept, sends, answer, wasted, endedAt>>

Errors == Outcome \cup {"none"}

Lesser(a, b) == IF a < b THEN a ELSE b
Greater(a, b) == IF a > b THEN a ELSE b

-----------------------------------------------------------------------------
(* The configuration as Do reads it. *)

Factor   == IF Multiplier <= 0 THEN 2 ELSE Multiplier
Spread   == Lesser(Greater(Jitter, 0), 100)
First    == IF Initial <= 0 THEN DefaultInitial ELSE Initial
Cap      == IF Max <= 0 THEN First ELSE Max
Budgeted == MaxElapsed > 0

\* jitterInterval: any duration within d*(1-j) .. d*(1+j).
Jittered(d) ==
  {s \in 0..(2 * d) : /\ s * 100 >= d * (100 - Spread)
                     /\ s * 100 <= d * (100 + Spread)}

\* Variant: the interval is not capped.
GrownUncapped(i) == i * Factor

Grown(i) == Lesser(i * Factor, Cap)

\* Variant: the sleep may go past the budget.
SleepsUncut(d) == Jittered(d)

\* The sleep is cut at what is left of the budget.
Sleeps(d) ==
  IF Budgeted THEN {Lesser(s, MaxElapsed - clock) : s \in Jittered(d)} ELSE Jittered(d)

-----------------------------------------------------------------------------

Init ==
  /\ wire \in Wires
  /\ pc = "top"
  /\ clock = 0
  /\ ctx = "none"
  /\ err = "none"
  /\ attempts = 0
  /\ interval = First
  /\ wake = 0
  /\ slept = 0
  /\ sends = 0
  /\ answer = "none"
  /\ wasted = 0
  /\ endedAt = 0

\* The caller's context ends.
End(e) ==
  /\ MayEnd
  /\ pc # "done"
  /\ ctx = "none"
  /\ ctx' = e
  /\ endedAt' = clock
  /\ UNCHANGED <<wire, pc, clock, err, attempts, interval, wake, slept, sends, answer, wasted>>

\* The check at the top of the loop: an earlier error is kept.
GiveUp ==
  /\ pc = "top"
  /\ ctx # "none"
  /\ err' = IF err = "none" THEN ctx ELSE err
  /\ pc' = "done"
  /\ UNCHANGED <<wire, clock, ctx, attempts, interval, wake, slept, sends, answer, wasted, endedAt>>

\* The check lets the attempt pass.
Check ==
  /\ pc = "top"
  /\ ctx = "none"
  /\ pc' = "call"
  /\ UNCHANGED <<wire, clock, ctx, err, attempts, interval, wake, slept, sends, answer, wasted, endedAt>>

\* op(ctx) is called; the context may have ended since the check.
Send ==
  /\ pc = "call"
  /\ pc' = "op"
  /\ wake' = clock + SendTimeout
  /\ sends' = sends + 1
  /\ answer' = "pending"
  /\ wasted' = IF ctx = "none" THEN wasted ELSE wasted + 1
  /\ UNCHANGED <<wire, clock, ctx, err, attempts, interval, slept, endedAt>>

\* op returns.
Answer(e) ==
  /\ pc = "op"
  /\ e \in Outcomes(wire, ctx, clock = wake)
  /\ err' = e
  /\ answer' = e
  /\ pc' = "judge"
  /\ UNCHANGED <<wire, clock, ctx, attempts, interval, wake, slept, sends, wasted, endedAt>>

\* Variant: a permanent error is not told from the others.
StopsOnContext == err \in {"ok", "canceled", "deadline"}

\* The error ends the loop: success, permanent, or of a context.
Stops == err \in {"ok", "permanent", "canceled", "deadline"}

\* Variant: a sleep that would be cut is not begun.
OutOfBudgetSoon == Budgeted /\ clock + interval > MaxElapsed

OutOfBudget == Budgeted /\ clock >= MaxElapsed

\* The error or the budget, read for the first time, ends the loop.
Return ==
  /\ pc = "judge"
  /\ Stops \/ OutOfBudget
  /\ pc' = "done"
  /\ UNCHANGED <<wire, clock, ctx, err, attempts, interval, wake, slept, sends, answer, wasted, endedAt>>

\* Neither does; the clock may move on before it is read again.
GoOn ==
  /\ pc = "judge"
  /\ ~Stops
  /\ ~OutOfBudget
  /\ pc' = "pace"
  /\ wake' = clock + Lag
  /\ UNCHANGED <<wire, clock, ctx, err, attempts, interval, slept, sends, answer, wasted, endedAt>>

\* Variant: what is left of the budget is not looked at.
NothingLeftNever == FALSE

\* Nothing is left of the budget at the second reading.
NothingLeft == Budgeted /\ MaxElapsed - clock <= 0

ReturnLate ==
  /\ pc = "pace"
  /\ NothingLeft
  /\ pc' = "done"
  /\ UNCHANGED <<wire, clock, ctx, err, attempts, interval, wake, slept, sends, answer, wasted, endedAt>>

Sleep ==
  /\ pc = "pace"
  /\ ~NothingLeft
  /\ \E s \in Sleeps(interval) : slept' = s /\ wake' = clock + s
  /\ pc' = "sleep"
  /\ UNCHANGED <<wire, clock, ctx, err, attempts, interval, sends, answer, wasted, endedAt>>

\* Variant: the timer alone ends the sleep.
InterruptedNever == FALSE

\* ctx.Done() is ready.
Interrupted == ctx # "none"

\* ctx.Done() ends the sleep, and its error replaces the attempt's.
Interrupt ==
  /\ pc = "sleep"
  /\ Interrupted
  /\ err' = ctx
  /\ pc' = "done"
  /\ UNCHANGED <<wire, clock, ctx, attempts, interval, wake, slept, sends, answer, wasted, endedAt>>

\* Variant: one timer serves all the sleeps and is not reset after the first.
WakeOnce ==
  /\ pc = "sleep"
  /\ clock >= wake
  /\ attempts = 0
  /\ attempts' = attempts + 1
  /\ interval' = Grown(interval)
  /\ pc' = "top"
  /\ UNCHANGED <<wire, clock, ctx, err, wake, slept, sends, answer, wasted, endedAt>>

\* The timer fires; with the context ended as well, select may take either.
Wake ==
  /\ pc = "sleep"
  /\ clock >= wake
  /\ attempts' = attempts + 1
  /\ interval' = Grown(interval)
  /\ pc' = "top"
  /\ UNCHANGED <<wire, clock, ctx, err, wake, slept, sends, answer, wasted, endedAt>>

\* Time passes, but not in a sleep that the context has ended.
Tick ==
  /\ pc \in {"op", "pace", "sleep"}
  /\ clock < wake
  /\ pc = "sleep" => ~Interrupted
  /\ clock' = clock + 1
  /\ UNCHANGED <<wire, pc, ctx, err, attempts, interval, wake, slept, sends, answer, wasted, endedAt>>

Returned == pc = "done" /\ UNCHANGED vars

Step ==
  \/ GiveUp \/ Check \/ Send \/ Return \/ GoOn \/ ReturnLate \/ Sleep \/ Interrupt \/ Wake
  \/ \E e \in Outcome : Answer(e)

Next ==
  \/ Step \/ Tick \/ Returned
  \/ \E e \in {"canceled", "deadline"} : End(e)

Spec == Init /\ [][Next]_vars

\* Do runs on, time passes, and an attempt answers by its timeout.
FairSpec == Spec /\ WF_vars(Step) /\ WF_vars(Tick)

-----------------------------------------------------------------------------
(* Properties. *)

\* Every variable has its type.
TypeOK ==
  /\ wire \in Wires
  /\ pc \in {"top", "call", "op", "judge", "pace", "sleep", "done"}
  /\ clock \in Nat
  /\ ctx \in {"none", "canceled", "deadline"}
  /\ err \in Errors
  /\ attempts \in Nat
  /\ interval \in Nat \ {0}
  /\ wake \in Nat
  /\ slept \in Nat
  /\ sends \in Nat
  /\ answer \in Errors \cup {"pending"}
  /\ wasted \in Nat
  /\ endedAt \in Nat

\* The budget bounds the call: no sleep begins or ends past it, though the clock
\* is read twice, and the one attempt that may begin when it is used up ends with
\* its own timeout (retry.go:110-125).
WithinBudget == Budgeted => clock <= MaxElapsed + Greater(SendTimeout, Lag)

\* Once the context has ended Do is over after the attempt under way, or the one
\* its check had let pass already, and sleeps no more: no second attempt begins,
\* whichever of the timer and the context select takes, and no backoff is waited
\* for (retry.go:65-66, 92-99, 127-133).
StopsSoonAfterEnd ==
  ctx # "none" => wasted <= 1 /\ clock <= endedAt + SendTimeout + Lag

\* A failure that may pass is not given up before the budget is used up, up to
\* the last tick of it, unless the context has ended (retry.go:110-131).
RetriesToTheEnd ==
  pc = "done" /\ answer = "retryable" => ctx # "none" \/ (Budgeted /\ clock >= MaxElapsed)

\* Factor to the n-th.
Power[n \in Nat] == IF n = 0 THEN 1 ELSE Factor * Power[n - 1]

\* The loop computes First * Factor^n, capped from the second interval on; a
\* sleep may exceed the cap by the jitter (retry.go:81-89, 115, 137-141).
ClosedFormBackoff ==
  /\ interval = IF attempts = 0 THEN First ELSE Lesser(Cap, First * Power[attempts])
  /\ 100 * slept <= Greater(First, Cap) * (100 + Spread)

\* With a budget Do returns, whatever the attempts come to.
Returns == Budgeted ~> pc = "done"

\* Do keeps the promise its callers build on.
Promise ==
  INSTANCE Attempts WITH
    last <- answer,
    reported <- IF pc = "done" THEN <<err = "ok", attempts>> ELSE <<>>

KeepsPromise == Promise!PromiseSpec

=============================================================================
