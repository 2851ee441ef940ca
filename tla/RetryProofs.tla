---------------------------- MODULE RetryProofs ----------------------------
(***************************************************************************)
(* Theorems about one call of Do, for every configuration.                 *)
(***************************************************************************)
EXTENDS Retry, InductionFacts

-----------------------------------------------------------------------------
(* The configuration and the length of a sleep. *)

\* What Do reads of its configuration is usable, whatever the caller left in it.
LEMMA ConfigType ==
  /\ Factor \in Nat \ {0}
  /\ Spread \in 0..100
  /\ First \in Nat \ {0}
  /\ Cap \in Nat \ {0}
  /\ Budgeted => MaxElapsed \in Nat \ {0}
BY ConfigAssumption DEF Factor, Spread, First, Cap, Budgeted, Lesser, Greater

\* The intervals stay positive.
LEMMA GrownType == ASSUME NEW i \in Nat \ {0} PROVE Grown(i) \in Nat \ {0}
<1>1. i * Factor \in Nat \ {0}
  BY ConfigType
<1> QED BY <1>1, ConfigType DEF Grown, Lesser

\* A sleep is a duration, and it ends within the budget.
LEMMA SleepsType ==
  ASSUME NEW d \in Nat, clock \in Nat, ~NothingLeft, NEW s \in Sleeps(d)
  PROVE  s \in Nat /\ (Budgeted => clock + s <= MaxElapsed)
<1>1. \A x \in Jittered(d) : x \in Nat
  BY DEF Jittered
<1>2. CASE Budgeted
  <2>1. PICK x \in Jittered(d) : s = Lesser(x, MaxElapsed - clock)
    BY <1>2 DEF Sleeps
  <2>2. MaxElapsed - clock \in Nat
    BY <1>2, ConfigType DEF NothingLeft
  <2> QED BY <1>1, <2>1, <2>2, ConfigType DEF Lesser
<1>3. CASE ~Budgeted
  BY <1>1, <1>3 DEF Sleeps
<1> QED BY <1>2, <1>3

-----------------------------------------------------------------------------
(* The inductive invariant. *)

\* Where the clock may be.  An attempt may begin when the budget is just used
\* up and then takes SendTimeout at most; the pause after an attempt may pass the
\* budget by Lag; everywhere else the clock is within the budget, or the loop is
\* about to find that it is not.
OnTime ==
  /\ pc \in {"op", "pace", "sleep"} => clock <= wake
  /\ Budgeted =>
       /\ pc \in {"top", "call"} => clock <= MaxElapsed
       /\ pc = "sleep" => wake <= MaxElapsed
       /\ pc = "op" => wake <= MaxElapsed + SendTimeout
       /\ pc = "pace" => wake <= MaxElapsed + Lag
       /\ clock <= MaxElapsed + Greater(SendTimeout, Lag)

\* Where the clock may be once the context has ended: not past the end of the
\* attempt under way and of the pause after it.
EndedInTime ==
  /\ pc = "op" => wake <= clock + SendTimeout
  /\ pc = "pace" => wake <= clock + Lag
  /\ ctx = "none" \/ pc = "call" => wasted = 0
  /\ wasted <= 1
  /\ ctx # "none" =>
       /\ pc = "call" => clock = endedAt
       /\ pc = "op" => wake <= endedAt + SendTimeout
       /\ pc = "judge" => clock <= endedAt + SendTimeout
       /\ pc = "pace" => wake <= endedAt + SendTimeout + Lag
       /\ clock <= endedAt + SendTimeout + Lag

\* How the sends, their answers and the retries counted go together.
Counted ==
  /\ answer = "pending" <=> pc = "op"
  /\ answer = "none" <=> sends = 0
  /\ pc \in {"top", "call"} => /\ answer \in {"none", "retryable"}
                             /\ err = answer
                             /\ attempts = sends
  /\ pc = "op" => attempts + 1 = sends
  /\ pc = "judge" => err = answer /\ answer # "none" /\ attempts + 1 = sends
  /\ pc \in {"pace", "sleep"} => err = "retryable" /\ answer = "retryable" /\ attempts + 1 = sends
  /\ pc = "done" => /\ err = "ok" <=> answer = "ok"
                    /\ \/ attempts + 1 = sends
                       \/ /\ attempts = sends
                          /\ ctx # "none"
                          /\ answer \in {"none", "retryable"}

Inv == TypeOK /\ OnTime /\ EndedInTime /\ Counted /\ RetriesToTheEnd

LEMMA InvInit == Init => Inv
BY ConfigType, ConfigAssumption DEF Greater, Init, Inv, TypeOK, OnTime, EndedInTime, Counted, RetriesToTheEnd, Errors, Outcome

\* Every step of Do, of the clock and of the caller preserves it.
LEMMA InvStep == Inv /\ [Next]_vars => Inv'
<1> SUFFICES ASSUME Inv, [Next]_vars PROVE Inv'
  OBVIOUS
<1> USE ConfigType, ConfigAssumption DEF Greater
<1>1. CASE GiveUp
  BY <1>1 DEF GiveUp, Inv, TypeOK, OnTime, EndedInTime, Counted, RetriesToTheEnd, Errors, Outcome
<1>2. CASE Check \/ Send
  BY <1>2 DEF Check, Send, Inv, TypeOK, OnTime, EndedInTime, Counted, RetriesToTheEnd, Errors, Outcome
<1>3. CASE Return \/ ReturnLate
  BY <1>3 DEF Return, ReturnLate, OutOfBudget, NothingLeft, Inv, TypeOK, OnTime, EndedInTime, Counted, RetriesToTheEnd, Errors, Outcome, Stops
<1>11. CASE GoOn
  BY <1>11 DEF GoOn, OutOfBudget, Inv, TypeOK, OnTime, EndedInTime, Counted, RetriesToTheEnd, Errors, Outcome, Stops
<1>4. CASE Sleep
  <2>1. PICK s \in Sleeps(interval) : slept' = s /\ wake' = clock + s
    BY <1>4 DEF Sleep
  <2>2. s \in Nat /\ (Budgeted => clock + s <= MaxElapsed)
    BY <1>4, SleepsType DEF Sleep, Inv, TypeOK
  <2> QED BY <1>4, <2>1, <2>2 DEF Sleep, Inv, TypeOK, OnTime, EndedInTime, Counted, RetriesToTheEnd, Errors, Outcome
<1>5. CASE Interrupt
  BY <1>5 DEF Interrupt, Interrupted, Inv, TypeOK, OnTime, EndedInTime, Counted, RetriesToTheEnd, Errors, Outcome
<1>6. CASE Wake
  BY <1>6, GrownType DEF Wake, Inv, TypeOK, OnTime, EndedInTime, Counted, RetriesToTheEnd, Errors, Outcome
<1>7. ASSUME NEW e \in Outcome, Answer(e) PROVE Inv'
  BY <1>7 DEF Answer, Inv, TypeOK, OnTime, EndedInTime, Counted, RetriesToTheEnd, Errors, Outcome
<1>8. CASE Tick
  BY <1>8 DEF Tick, Interrupted, Inv, TypeOK, OnTime, EndedInTime, Counted, RetriesToTheEnd, Errors, Outcome
<1>9. ASSUME NEW e \in {"canceled", "deadline"}, End(e) PROVE Inv'
  BY <1>9 DEF End, Inv, TypeOK, OnTime, EndedInTime, Counted, RetriesToTheEnd, Errors, Outcome
<1>10. CASE Returned \/ UNCHANGED vars
  BY <1>10 DEF Returned, vars, Inv, TypeOK, OnTime, EndedInTime, Counted, RetriesToTheEnd, Errors, Outcome
<1> QED BY <1>1, <1>2, <1>3, <1>4, <1>5, <1>6, <1>7, <1>8, <1>9, <1>10, <1>11 DEF Next, Step

LEMMA Invariance == Spec => []Inv
<1> QED BY InvInit, InvStep, PTL DEF Spec

-----------------------------------------------------------------------------
(* The theorems. *)

\* Every variable has its type; in particular no sleep is negative, though the
\* time left is computed after the budget is checked.
THEOREM TypeCorrect == Spec => []TypeOK
<1>1. Inv => TypeOK
  BY DEF Inv
<1> QED BY <1>1, Invariance, PTL

\* The budget bounds a call of Do (retry.go:110-125).
THEOREM BudgetKept == Spec => []WithinBudget
<1>1. Inv => WithinBudget
  BY DEF Inv, OnTime, WithinBudget
<1> QED BY <1>1, Invariance, PTL

\* Once the context has ended at most the one attempt begins that its check had let
\* pass, and Do takes no longer than that attempt (retry.go:92-99, 127-133).
THEOREM EndStopsSoon == Spec => []StopsSoonAfterEnd
<1>1. Inv => StopsSoonAfterEnd
  BY DEF Inv, EndedInTime, StopsSoonAfterEnd
<1> QED BY <1>1, Invariance, PTL

\* Do gives a retryable failure up only when the budget is used up or the context
\* has ended (retry.go:110-131).
THEOREM BudgetUsed == Spec => []RetriesToTheEnd
<1>1. Inv => RetriesToTheEnd
  BY DEF Inv
<1> QED BY <1>1, Invariance, PTL

\* Do implements Attempts: each step is a step of the promise or none.
THEOREM PromiseKept == Spec => KeepsPromise
<1>1. Init => Promise!PromiseInit
  BY DEF Init, Promise!PromiseInit
<1>2. ASSUME Inv, [Next]_vars
      PROVE  [Promise!PromiseNext]_(Promise!promiseVars)
  <2> USE <1>2 DEF Inv, TypeOK, Counted, Errors, Outcome, Promise!promiseVars
  <2>1. CASE Send
    <3>1. Promise!Send
      BY <2>1 DEF Send, Promise!Send
    <3> QED BY <3>1 DEF Promise!PromiseNext
  <2>2. ASSUME NEW e \in Outcome, Answer(e) PROVE Promise!PromiseNext
    <3>1. e \in Promise!Outcome /\ Promise!Answered(e)
      BY <2>2 DEF Answer, Promise!Answered, Promise!Outcome
    <3> QED BY <3>1 DEF Promise!PromiseNext
  <2>3. CASE GiveUp \/ Return \/ ReturnLate \/ Interrupt
    <3> DEFINE ok == err' = "ok"
    <3>1. Promise!Report(ok, attempts)
      BY <2>3 DEF GiveUp, Return, ReturnLate, Interrupt, Interrupted, Promise!Report, Stops
    <3>2. ok \in BOOLEAN /\ attempts \in {sends - 1, sends}
      BY <2>3 DEF GiveUp, Return, ReturnLate, Interrupt
    <3> QED BY <3>1, <3>2 DEF Promise!PromiseNext
  <2>4. CASE Check \/ GoOn \/ Sleep \/ Wake \/ Tick \/ Returned \/ UNCHANGED vars
    BY <2>4 DEF Check, GoOn, Sleep, Wake, Tick, Returned, vars
  <2>5. ASSUME NEW e \in {"canceled", "deadline"}, End(e)
        PROVE  UNCHANGED Promise!promiseVars
    BY <2>5 DEF End
  <2> QED BY <2>1, <2>2, <2>3, <2>4, <2>5 DEF Next, Step
<1> QED BY <1>1, <1>2, Invariance, PTL DEF Spec, KeepsPromise, Promise!PromiseSpec

-----------------------------------------------------------------------------
(* The closed form of the backoff. *)

\* What Power computes: the equation of its definition holds because there is a
\* function that satisfies it.
LEMMA PowerFact ==
  /\ \A n \in Nat : Power[n] \in Nat \ {0} /\ Power[n + 1] = Factor * Power[n]
  /\ Power[0] = 1
<1> DEFINE V == Nat \ {0}
           step == [x \in V |-> Factor * x]
<1>1. 1 \in V /\ step \in [V -> V]
  BY ConfigType
<1>2. PICK f : Iterates(f, V, 1, step)
  <2> HIDE DEF step, V
  <2> QED BY <1>1, Recursion
<1>3. f = [n \in Nat |-> IF n = 0 THEN 1 ELSE Factor * f[n - 1]]
  <2>1. ASSUME NEW n \in Nat, n # 0 PROVE f[n] = Factor * f[n - 1]
    <3>1. n - 1 \in Nat
      BY <2>1
    <3> QED BY <1>2, <2>1, <3>1 DEF Iterates
  <2> QED BY <1>2, <2>1 DEF Iterates
<1>4. Power = [n \in Nat |-> IF n = 0 THEN 1 ELSE Factor * Power[n - 1]]
  BY <1>3 DEF Power
<1> HIDE DEF Power
<1>5. Power[0] = 1
  BY <1>4
<1>6. ASSUME NEW n \in Nat PROVE Power[n + 1] = Factor * Power[n]
  <2>1. n + 1 \in Nat /\ n + 1 # 0 /\ (n + 1) - 1 = n
    OBVIOUS
  <2> QED BY <1>4, <2>1
<1> DEFINE Positive == {n \in Nat : Power[n] \in Nat \ {0}}
<1>7. Nat \subseteq Positive
  <2>1. 0 \in Positive
    BY <1>5
  <2>2. ASSUME NEW n \in Nat, n \in Positive PROVE n + 1 \in Positive
    BY <2>2, <1>6, ConfigType
  <2> HIDE DEF Positive
  <2> QED BY <2>1, <2>2, Induction
<1> QED BY <1>5, <1>6, <1>7

\* Capping at every step comes to the same as capping once.
LEMMA CapOnce ==
  ASSUME NEW n \in Nat
  PROVE  Grown(IF n = 0 THEN First ELSE Lesser(Cap, First * Power[n]))
           = Lesser(Cap, First * Power[n + 1])
<1> DEFINE x == First * Power[n]
<1>1. x \in Nat \ {0}
  BY PowerFact, ConfigType
<1>2. First * Power[n + 1] = x * Factor
  <2>1. Power[n + 1] = Factor * Power[n] /\ Power[n] \in Nat
    BY PowerFact
  <2>2. First * (Factor * Power[n]) = (First * Power[n]) * Factor
    BY <2>1, ConfigType
  <2> QED BY <2>1, <2>2
<1>3. n = 0 => x = First
  BY PowerFact, ConfigType
<1>4. \A y \in Nat \ {0} : y * Factor \in Nat /\ y <= y * Factor
  BY ConfigType
<1>5. CASE n = 0 \/ x <= Cap
  <2>1. (IF n = 0 THEN First ELSE Lesser(Cap, x)) = x
    BY <1>1, <1>3, <1>5, ConfigType DEF Lesser
  <2> QED BY <1>1, <1>2, <1>4, <2>1, ConfigType DEF Grown, Lesser
<1>6. CASE n # 0 /\ Cap < x
  <2>1. Lesser(Cap, x) = Cap
    BY <1>6 DEF Lesser
  <2>2. Grown(Cap) = Cap
    BY <1>4, ConfigType DEF Grown, Lesser
  <2>3. Cap < x * Factor
    BY <1>1, <1>4, <1>6, ConfigType
  <2> QED BY <1>2, <1>6, <2>1, <2>2, <2>3 DEF Lesser
<1> QED BY <1>1, <1>5, <1>6, ConfigType

\* A sleep exceeds the interval it is drawn for by the jitter at most.
LEMMA SleepsBound ==
  ASSUME NEW d \in Nat, clock \in Nat, ~NothingLeft, NEW s \in Sleeps(d)
  PROVE  100 * s <= d * (100 + Spread)
<1>1. \A x \in Jittered(d) : x \in Nat /\ 100 * x <= d * (100 + Spread)
  BY ConfigType DEF Jittered
<1>2. PICK x \in Jittered(d) : s <= x
  BY <1>1, SleepsType, ConfigType DEF Sleeps, Lesser, NothingLeft
<1>3. d * (100 + Spread) \in Nat
  BY ConfigType
<1> QED BY <1>1, <1>2, <1>3, SleepsType

\* No interval is longer than the first one and the cap.
LEMMA IntervalBound ==
  ASSUME TypeOK, ClosedFormBackoff
  PROVE  interval * (100 + Spread) <= Greater(First, Cap) * (100 + Spread)
<1>1. First * Power[attempts] \in Nat
  BY PowerFact, ConfigType DEF TypeOK
<1>2. interval <= Greater(First, Cap) /\ Greater(First, Cap) \in Nat
  BY <1>1, ConfigType DEF ClosedFormBackoff, TypeOK, Lesser, Greater
<1>3. \A a, b, w \in Nat : a <= b => a * w <= b * w
  OBVIOUS
<1>4. interval \in Nat /\ 100 + Spread \in Nat
  BY ConfigType DEF TypeOK
<1> QED BY <1>2, <1>3, <1>4

\* The interval before retry n is First * Factor^n, capped from the second one on,
\* and a sleep exceeds it by the jitter at most (retry.go:81-89, 115, 137-141).
THEOREM BackoffIsExponential == Spec => []ClosedFormBackoff
<1>1. Init => ClosedFormBackoff
  <2>1. Greater(First, Cap) * (100 + Spread) \in Nat
    BY ConfigType DEF Greater
  <2> QED BY <2>1 DEF Init, ClosedFormBackoff
<1>2. Inv /\ ClosedFormBackoff /\ [Next]_vars => ClosedFormBackoff'
  <2> SUFFICES ASSUME Inv, ClosedFormBackoff, [Next]_vars PROVE ClosedFormBackoff'
    OBVIOUS
  <2>1. CASE Wake
    <3>1. attempts' = attempts + 1 /\ interval' = Grown(interval) /\ slept' = slept
      BY <2>1 DEF Wake
    <3>2. attempts \in Nat /\ attempts + 1 # 0
      BY DEF Inv, TypeOK
    <3>3. interval' = Lesser(Cap, First * Power[attempts + 1])
      BY <3>1, <3>2, CapOnce DEF ClosedFormBackoff
    <3> QED BY <3>1, <3>2, <3>3 DEF ClosedFormBackoff
  <2>2. CASE Sleep
    <3>1. PICK s \in Sleeps(interval) : slept' = s
      BY <2>2 DEF Sleep
    <3>2. ~NothingLeft /\ clock \in Nat /\ interval \in Nat
      BY <2>2 DEF Sleep, Inv, TypeOK
    <3>3. s \in Nat /\ 100 * s <= interval * (100 + Spread)
      BY <3>2, SleepsBound, SleepsType
    <3>4. interval * (100 + Spread) <= Greater(First, Cap) * (100 + Spread)
      BY IntervalBound DEF Inv
    <3>5. interval * (100 + Spread) \in Nat /\ Greater(First, Cap) * (100 + Spread) \in Nat
      BY <3>2, ConfigType DEF Greater
    <3>6. 100 * s <= Greater(First, Cap) * (100 + Spread)
      BY <3>3, <3>4, <3>5
    <3>7. UNCHANGED <<attempts, interval>>
      BY <2>2 DEF Sleep
    <3> QED BY <3>1, <3>6, <3>7 DEF ClosedFormBackoff
  <2>3. CASE UNCHANGED <<attempts, interval, slept>>
    BY <2>3 DEF ClosedFormBackoff
  <2> QED BY <2>1, <2>2, <2>3 DEF Next, Step, GiveUp, Check, Send, Return, GoOn, ReturnLate, Interrupt, Tick, Returned, Answer, End, vars
<1> QED BY <1>1, <1>2, Invariance, PTL DEF Spec

=============================================================================
