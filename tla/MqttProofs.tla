----------------------------- MODULE MqttProofs -----------------------------
(***************************************************************************)
(* Any number of calls share one MQTT client: at most one of them connects *)
(* it, and none reports success for a message the broker did not take, but *)
(* for those whose deadline has passed.                                    *)
(***************************************************************************)
EXTENDS MqttTransport, TLAPS

\* An attempt begins only if the budget has one left.
Budgeted == \A c \in Calls : pc[c] \in {"idle", "top", "sleep"} => tries[c] < MaxTries

\* Who connects the client owns the mutex, and a Connect that is awaited is under way.
Owned ==
  /\ \A c \in Calls : Connecting(c) => holder = c
  /\ \A c \in Calls : Dialling(c) /\ token[c] = "pending" => conn = "connecting"

\* A message that is acknowledged was taken; a context is past its deadline only if
\* it has one; and where a success comes from.
Confirmed ==
  /\ \A c \in Calls : pc[c] \in {"dialLook", "dialPoll", "ackLook", "ackPoll"} =>
       token[c] # "none"
  /\ \A c \in Calls : pc[c] \in {"ackLook", "ackPoll"} /\ token[c] = "ok" => c \in taken
  /\ \A c \in Calls : ctx[c] = "due" => c \in Deadlines
  /\ \A c \in Calls : err[c] = "ok" => c \in taken \/ (c \in Deadlines /\ ctx[c] # "live")

Inv == TypeOK /\ Budgeted /\ Owned /\ Confirmed

-----------------------------------------------------------------------------

\* The invariant holds in the beginning.
LEMMA InitInv == Init => Inv
<1> SUFFICES ASSUME Init PROVE Inv
  OBVIOUS
<1>1. TypeOK
  <2>1. 0 \in 0..MaxTries
    BY MqttAssumption
  <2>2. tries \in [Calls -> 0..MaxTries]
    BY <2>1 DEF Init
  <2> QED
    BY <2>2 DEF Init, TypeOK
<1>2. Budgeted
  BY MqttAssumption DEF Init, Budgeted
<1>3. Owned /\ Confirmed
  BY DEF Init, Owned, Confirmed, Connecting, Dialling
<1> QED
  BY <1>1, <1>2, <1>3 DEF Inv

\* The steps of Do keep it.
LEMMA DoInv == ASSUME Inv, NEW c \in Calls, DoStep(c) PROVE Inv'
<1> USE MqttAssumption DEF Inv, Goto
<1>1. CASE GiveUp(c)
  <2>1. TypeOK'
    BY <1>1 DEF GiveUp, TypeOK
  <2>2. Budgeted' /\ Owned'
    BY <1>1 DEF GiveUp, TypeOK, Budgeted, Owned, Connecting, Dialling
  <2>3. Confirmed'
    BY <1>1 DEF GiveUp, TypeOK, Confirmed
  <2> QED
    BY <2>1, <2>2, <2>3
<1>2. CASE Attempt(c)
  <2>1. TypeOK' /\ Budgeted'
    BY <1>2 DEF Attempt, TypeOK, Budgeted
  <2>2. Owned' /\ Confirmed'
    BY <1>2 DEF Attempt, TypeOK, Owned, Confirmed, Connecting, Dialling
  <2> QED
    BY <2>1, <2>2
<1>3. CASE Return(c)
  BY <1>3 DEF Return, TypeOK, Budgeted, Owned, Confirmed, Connecting, Dialling
<1>4. CASE Sleep(c)
  BY <1>4 DEF Sleep, TypeOK, Budgeted, Owned, Confirmed, Connecting, Dialling
<1>5. CASE Wake(c)
  BY <1>5 DEF Wake, TypeOK, Budgeted, Owned, Confirmed, Connecting, Dialling
<1> QED
  BY <1>1, <1>2, <1>3, <1>4, <1>5 DEF DoStep

\* A wait that ends with e keeps it: a success of the second wait must be one.
LEMMA WaitedInv ==
  ASSUME Inv, NEW c \in Calls, NEW e \in {"ok", "error", "context"},
         Looking(c) \/ Polling(c), Waited(c, e),
         e = "ok" /\ ~Dialling(c) => c \in taken \/ (c \in Deadlines /\ ctx[c] # "live")
  PROVE  Inv'
<1> USE DEF Inv, Goto
<1>1. TypeOK'
  BY DEF Waited, Unlock, TypeOK
<1>2. pc' = [pc EXCEPT ![c] = "publish"] \/ pc' = [pc EXCEPT ![c] = "judge"]
  BY DEF Waited
<1>3. Budgeted'
  BY <1>2 DEF Waited, TypeOK, Budgeted
<1>4. Owned'
  <2>1. ~Connecting(c)'
    BY <1>2 DEF TypeOK, Connecting
  <2>2. ASSUME NEW d \in Calls, Connecting(d)' PROVE holder' = d
    <3>1. d # c /\ Connecting(d)
      BY <2>1, <2>2, <1>2 DEF TypeOK, Connecting
    <3>2. holder = d /\ ~Dialling(c)
      BY <3>1 DEF Owned, Connecting, Dialling
    <3> QED
      BY <3>2 DEF Waited
  <2>3. \A d \in Calls : Dialling(d)' => Dialling(d)
    BY <1>2 DEF TypeOK, Dialling
  <2> QED
    BY <2>2, <2>3 DEF Owned, Waited
<1>5. Confirmed'
  <2>1. \A d \in Calls : pc'[d] \in {"ackLook", "ackPoll"} => pc[d] \in {"ackLook", "ackPoll"}
    BY <1>2 DEF TypeOK
  <2>0. \A d \in Calls : pc'[d] \in {"dialLook", "dialPoll"} => pc[d] \in {"dialLook", "dialPoll"}
    BY <1>2 DEF TypeOK
  <2>2. \A d \in Calls : err'[d] = "ok" => err[d] = "ok" \/ (d = c /\ e = "ok" /\ ~Dialling(c))
    BY DEF Waited, TypeOK
  <2> QED
    BY <2>1, <2>0, <2>2 DEF Confirmed, Waited
<1> QED
  BY <1>1, <1>3, <1>4, <1>5

\* The steps of Publish keep it.
LEMMA PublishInv ==
  ASSUME Inv, NEW c \in Calls, PublishStep(c) \/ Lock(c) \/ TimeOut(c) PROVE Inv'
<1> USE DEF Inv, Goto
<1>1. CASE CheckOpen(c)
  BY <1>1 DEF CheckOpen, Open, TypeOK, Budgeted, Owned, Confirmed, Connecting, Dialling
<1>2. CASE Lock(c)
  <2>1. TypeOK' /\ Budgeted' /\ Confirmed'
    BY <1>2 DEF Lock, TypeOK, Budgeted, Confirmed
  <2>2. Owned'
    BY <1>2, MqttAssumption DEF Lock, TypeOK, Owned, Connecting, Dialling
  <2> QED
    BY <2>1, <2>2
<1>3. CASE Recheck(c)
  <2>1. \/ pc' = [pc EXCEPT ![c] = "publish"] /\ holder' = NoCall
        \/ pc' = [pc EXCEPT ![c] = "dial"] /\ holder' = holder
    BY <1>3 DEF Recheck, Unlock
  <2>2. UNCHANGED <<ctx, err, tries, token, conn, taken, closed>>
    BY <1>3 DEF Recheck
  <2>3. \A d \in Calls : Connecting(d) => d = c
    BY <1>3 DEF Recheck, Owned, Connecting
  <2>4. TypeOK' /\ Budgeted' /\ Confirmed'
    BY <2>1, <2>2 DEF TypeOK, Budgeted, Confirmed
  <2>5. Owned'
    BY <1>3, <2>1, <2>2, <2>3 DEF Recheck, TypeOK, Owned, Connecting, Dialling
  <2> QED
    BY <2>4, <2>5
<1>4. CASE Dial(c)
  <2>1. TypeOK' /\ Budgeted'
    BY <1>4 DEF Dial, TypeOK, Budgeted
  <2>2. Owned'
    BY <1>4 DEF Dial, TypeOK, Owned, Connecting, Dialling
  <2>3. Confirmed'
    BY <1>4 DEF Dial, TypeOK, Confirmed
  <2> QED
    BY <2>1, <2>2, <2>3
<1>5. CASE Publish(c)
  <2>1. TypeOK' /\ Budgeted'
    BY <1>5 DEF Publish, TypeOK, Budgeted
  <2>2. Owned' /\ Confirmed'
    BY <1>5 DEF Publish, TypeOK, Owned, Confirmed, Connecting, Dialling
  <2> QED
    BY <2>1, <2>2
<1>6. CASE SeeContext(c)
  BY <1>6, WaitedInv DEF SeeContext
<1>7. CASE TimeOut(c)
  BY <1>7, WaitedInv DEF TimeOut
<1>8. CASE SeeDeadline(c)
  BY <1>8, WaitedInv DEF SeeDeadline, Confirmed
<1>9. CASE Look(c)
  BY <1>9 DEF Look, Looking, TypeOK, Budgeted, Owned, Confirmed, Connecting, Dialling
<1>10. CASE Poll(c)
  <2>1. CASE token[c] # "pending" /\ Waited(c, token[c])
    <3>1. Polling(c)
      BY <1>10 DEF Poll
    <3>2. token[c] \in {"ok", "error"}
      BY <2>1, <3>1 DEF TypeOK, Confirmed, Polling
    <3> QED
      BY <2>1, <3>1, <3>2, WaitedInv DEF Confirmed, Polling, Dialling
  <2>2. CASE token[c] = "pending" /\ UNCHANGED <<ctx, err, tries, token, holder, conn, taken, closed>>
    BY <2>2, <1>10 DEF Poll, Polling, TypeOK, Budgeted, Owned, Confirmed, Connecting, Dialling
  <2> QED
    BY <1>10, <2>1, <2>2 DEF Poll
<1> QED
  BY <1>1, <1>2, <1>3, <1>4, <1>5, <1>6, <1>7, <1>8, <1>9, <1>10 DEF PublishStep

\* The client, the broker and the callers keep it.
LEMMA EnvironmentInv == ASSUME Inv, Environment PROVE Inv'
<1> USE DEF Inv
<1>1. ASSUME NEW c \in Calls, Begin(c) PROVE Inv'
  BY <1>1 DEF Begin, Goto, TypeOK, Budgeted, Owned, Confirmed, Connecting, Dialling
<1>2. ASSUME NEW c \in Calls, Due(c) PROVE Inv'
  BY <1>2 DEF Due, TypeOK, Budgeted, Owned, Confirmed, Connecting, Dialling
<1>3. ASSUME NEW c \in Calls, End(c) PROVE Inv'
  BY <1>3 DEF End, TypeOK, Budgeted, Owned, Confirmed, Connecting, Dialling
<1>4. ASSUME NEW c \in Calls, Take(c) PROVE Inv'
  BY <1>4 DEF Take, callVars, TypeOK, Budgeted, Owned, Confirmed, Connecting, Dialling
<1>5. ASSUME NEW c \in Calls, Acknowledge(c) PROVE Inv'
  BY <1>5 DEF Acknowledge, Published, callVars, TypeOK, Budgeted, Owned, Confirmed,
              Connecting, Dialling
<1>6. ASSUME NEW up \in BOOLEAN, ConnectEnds(up) PROVE Inv'
  <2>1. \A c \in Calls : /\ token'[c] \in {token[c], "ok", "error"}
                         /\ Dialling(c) => token'[c] # "pending"
                         /\ ~Dialling(c) => token'[c] = token[c]
    BY <1>6 DEF ConnectEnds, DialTokens, TypeOK
  <2>2. TypeOK' /\ Budgeted'
    BY <1>6 DEF ConnectEnds, DialTokens, callVars, TypeOK, Budgeted
  <2>3. Owned'
    BY <1>6, <2>1 DEF ConnectEnds, callVars, Owned, Connecting, Dialling
  <2>4. Confirmed'
    BY <1>6, <2>1 DEF ConnectEnds, callVars, Confirmed, Dialling
  <2> QED
    BY <2>2, <2>3, <2>4
<1>7. CASE Break \/ Reconnect
  BY <1>7 DEF Break, Reconnect, callVars, TypeOK, Budgeted, Owned, Confirmed, Connecting,
              Dialling
<1>8. CASE Close
  BY <1>8 DEF Close, callVars, TypeOK, Budgeted, Owned, Confirmed, Connecting, Dialling
<1> QED
  BY <1>1, <1>2, <1>3, <1>4, <1>5, <1>6, <1>7, <1>8 DEF Environment

\* Every step keeps it.
LEMMA StepInv == Inv /\ [Next]_vars => Inv'
<1> SUFFICES ASSUME Inv, [Next]_vars PROVE Inv'
  OBVIOUS
<1>1. CASE UNCHANGED vars
  BY <1>1 DEF vars, callVars, Inv, TypeOK, Budgeted, Owned, Confirmed, Connecting, Dialling
<1> QED
  BY <1>1, DoInv, PublishInv, EnvironmentInv DEF Next, Quiet

\* Every reachable state satisfies the invariant.
LEMMA Invariance == Spec => []Inv
  BY InitInv, StepInv, PTL DEF Spec

-----------------------------------------------------------------------------

\* Every variable keeps its type, and no call makes more than MaxTries attempts.
THEOREM TypeCorrect == Spec => []TypeOK
<1>1. Inv => TypeOK
  BY DEF Inv
<1> QED
  BY Invariance, <1>1, PTL

\* At most one call connects the client, the Connect it waits for is the one under
\* way, and who meets one of another call meets one that was left (ensureConnected,
\* mqtt.go:76-89), for any number of calls.
THEOREM OneConnects == Spec => []OneConnectAtATime
<1>1. Inv => OneConnectAtATime
  BY DEF Inv, Owned, OneConnectAtATime, Connecting, Dialling
<1> QED
  BY Invariance, <1>1, PTL

\* A success means that the broker took the message, except after the deadline of
\* the call's context (waitMQTTToken, mqtt.go:92-127).
THEOREM SuccessesWereTaken == Spec => []SuccessWasTaken
<1>1. Inv => SuccessWasTaken
  BY DEF Inv, Confirmed, SuccessWasTaken
<1> QED
  BY Invariance, <1>1, PTL

-----------------------------------------------------------------------------
(* Without the instant between a deadline and its timer.                   *)

\* Every context has ended as soon as its deadline has passed.
TimersInTime == \A c \in Calls : ctx[c] # "due"

OkWasTaken == \A c \in Calls : err[c] = "ok" => c \in taken

LEMMA OkWasTakenStep ==
  ASSUME Inv, TimersInTime, OkWasTaken, [Next]_vars
  PROVE  OkWasTaken'
<1>1. ASSUME taken \subseteq taken', \A c \in Calls : err'[c] = "ok" => err[c] = "ok"
      PROVE  OkWasTaken'
  BY <1>1 DEF OkWasTaken
<1>2. ASSUME NEW c \in Calls, NEW e, Waited(c, e), e = "ok" /\ ~Dialling(c) => c \in taken
      PROVE  OkWasTaken'
  <2>1. taken' = taken /\ \A d \in Calls : err'[d] = "ok" => err[d] = "ok" \/ d \in taken
    BY <1>2 DEF Waited, Inv, TypeOK
  <2> QED BY <2>1 DEF OkWasTaken
<1>3. ASSUME NEW c \in Calls, DoStep(c) PROVE OkWasTaken'
  <2>1. taken' = taken /\ \A d \in Calls : err'[d] = "ok" => err[d] = "ok"
    BY <1>3 DEF DoStep, GiveUp, Attempt, Return, Sleep, Wake, Inv, TypeOK
  <2> QED BY <1>1, <2>1
<1>4. ASSUME NEW c \in Calls,
             \/ CheckOpen(c) \/ Recheck(c) \/ Dial(c) \/ Publish(c) \/ Look(c) \/ Lock(c)
      PROVE  OkWasTaken'
  <2>1. UNCHANGED <<err, taken>>
    BY <1>4 DEF CheckOpen, Recheck, Dial, Publish, Look, Lock
  <2> QED BY <1>1, <2>1
<1>5. ASSUME NEW c \in Calls, SeeContext(c) \/ TimeOut(c) PROVE OkWasTaken'
  BY <1>2, <1>5 DEF SeeContext, TimeOut
<1>6. ASSUME NEW c \in Calls, SeeDeadline(c) PROVE FALSE
  BY <1>6 DEF SeeDeadline, TimersInTime
<1>7. ASSUME NEW c \in Calls, Poll(c) PROVE OkWasTaken'
  <2>1. CASE Waited(c, token[c])
    <3>1. token[c] = "ok" /\ ~Dialling(c) => c \in taken
      BY <1>7 DEF Poll, Polling, Dialling, Inv, Confirmed
    <3> QED BY <1>2, <2>1, <3>1
  <2>2. CASE UNCHANGED <<err, taken>>
    BY <1>1, <2>2
  <2> QED BY <1>7, <2>1, <2>2 DEF Poll
<1>8. CASE Environment
  <2>1. err' = err /\ taken \subseteq taken'
    BY <1>8 DEF Environment, Begin, Due, End, Take, Acknowledge, ConnectEnds, Break, Reconnect,
                Close, callVars
  <2> QED BY <1>1, <2>1
<1>9. CASE UNCHANGED vars
  BY <1>1, <1>9 DEF vars, callVars
<1> QED
  BY <1>3, <1>4, <1>5, <1>6, <1>7, <1>8, <1>9 DEF Next, PublishStep, Quiet

\* Where no call looks at the clock between the deadline of its context and the timer
\* that ends it, a call that reports success was taken by the broker (mqtt.go:109-111): no
\* timeout, reconnection, Close or other call makes it lie.
THEOREM ConfirmedUnlessDue == Spec /\ []TimersInTime => []SuccessIsConfirmed
<1>1. Init => OkWasTaken
  BY DEF Init, OkWasTaken
<1>2. Inv /\ TimersInTime /\ OkWasTaken /\ [Next]_vars => OkWasTaken'
  BY OkWasTakenStep
<1>3. OkWasTaken => SuccessIsConfirmed
  BY DEF OkWasTaken, SuccessIsConfirmed
<1> QED
  BY Invariance, <1>1, <1>2, <1>3, PTL DEF Spec

=============================================================================
