--------------------------- MODULE MqttTransport ---------------------------
(***************************************************************************)
(* MQTTSink and pahoMQTTTransport (internal/sink/mqtt.go): concurrent      *)
(* calls of Consume* that share one client, connect it on demand under a   *)
(* mutex, publish, and wait for tokens by polling; Do (retry.go) repeats   *)
(* an attempt that failed.  Quality of service is 1 or 2: with 0 a token   *)
(* says only that the message was written.                                 *)
(*                                                                         *)
(* The paho client and the broker are outside src/.  Of them is assumed    *)
(* what the code builds on: Connect completes its token when the           *)
(* connection is up or failed, at once if the client is connected or       *)
(* reconnects by itself (SetAutoReconnect), and with an error if another   *)
(* Connect is under way; a message published while the client reconnects   *)
(* is sent later; Disconnect fails the tokens that are pending.            *)
(*                                                                         *)
(* Time is left out: a timeout or a deadline may pass at any instant.      *)
(***************************************************************************)
EXTENDS Naturals

CONSTANTS
  Calls,      \* the calls of Consume* of a behaviour
  NoCall,     \* nobody: the mutex is free
  Deadlines,  \* the calls whose context has a deadline
  MaxTries    \* bound on the attempts of one call

ASSUME MqttAssumption ==
  /\ NoCall \notin Calls
  /\ Deadlines \subseteq Calls
  /\ MaxTries \in Nat \ {0}

VARIABLES
  pc,      \* the progress of each call
  ctx,     \* its context: "live", "due" (the clock has passed its deadline and
           \* Err() is still nil) or "ended" (Err() is not nil)
  err,     \* what its last attempt came to
  tries,   \* its attempts
  token,   \* the token it waits for, or waited for last
  holder,  \* the owner of t.mu
  conn,    \* the connection of the client
  taken,   \* the calls whose message the broker has taken
  closed   \* TRUE: Close was called

callVars == <<pc, ctx, err, tries>>
vars == <<callVars, token, holder, conn, taken, closed>>

Init ==
  /\ pc = [c \in Calls |-> "idle"]
  /\ ctx = [c \in Calls |-> "live"]
  /\ err = [c \in Calls |-> "none"]
  /\ tries = [c \in Calls |-> 0]
  /\ token = [c \in Calls |-> "none"]
  /\ holder = NoCall
  /\ conn = "down"
  /\ taken = {}
  /\ closed = FALSE

Goto(c, l) == pc' = [pc EXCEPT ![c] = l]

Open == conn = "up"

-----------------------------------------------------------------------------
(* The caller. *)

Begin(c) ==
  /\ pc[c] = "idle"
  /\ Goto(c, "top")
  /\ UNCHANGED <<ctx, err, tries, token, holder, conn, taken, closed>>

\* The clock passes the deadline of a context before its timer has run.
Due(c) ==
  /\ c \in Deadlines
  /\ ctx[c] = "live"
  /\ ctx' = [ctx EXCEPT ![c] = "due"]
  /\ UNCHANGED <<pc, err, tries, token, holder, conn, taken, closed>>

\* The context is canceled, or the timer of its deadline runs.
End(c) ==
  /\ ctx[c] # "ended"
  /\ ctx' = [ctx EXCEPT ![c] = "ended"]
  /\ UNCHANGED <<pc, err, tries, token, holder, conn, taken, closed>>

-----------------------------------------------------------------------------
(* Do. *)

\* The loop of Do ends with the error of the attempt, or of the context.
GiveUp(c) ==
  /\ pc[c] \in {"top", "sleep"}
  /\ ctx[c] = "ended"
  /\ err' = [err EXCEPT ![c] = IF pc[c] = "sleep" \/ @ = "none" THEN "context" ELSE @]
  /\ Goto(c, "done")
  /\ UNCHANGED <<ctx, tries, token, holder, conn, taken, closed>>

Attempt(c) ==
  /\ pc[c] = "top"
  /\ ctx[c] # "ended"
  /\ tries' = [tries EXCEPT ![c] = @ + 1]
  /\ Goto(c, "check")
  /\ UNCHANGED <<ctx, err, token, holder, conn, taken, closed>>

\* Success, the error of a context (of the call, or the transport's timeout), or
\* the end of the budget, which may come after any attempt.
Return(c) ==
  /\ pc[c] = "judge"
  /\ Goto(c, "done")
  /\ UNCHANGED <<ctx, err, tries, token, holder, conn, taken, closed>>

\* Variant: the budget is not looked at.
SleepAgain(c) ==
  /\ pc[c] = "judge"
  /\ err[c] = "error"
  /\ Goto(c, "sleep")
  /\ UNCHANGED <<ctx, err, tries, token, holder, conn, taken, closed>>

Sleep(c) ==
  /\ pc[c] = "judge"
  /\ err[c] = "error"
  /\ tries[c] < MaxTries
  /\ Goto(c, "sleep")
  /\ UNCHANGED <<ctx, err, tries, token, holder, conn, taken, closed>>

Wake(c) ==
  /\ pc[c] = "sleep"
  /\ Goto(c, "top")
  /\ UNCHANGED <<ctx, err, tries, token, holder, conn, taken, closed>>

-----------------------------------------------------------------------------
(* ensureConnected. *)

CheckOpen(c) ==
  /\ pc[c] = "check"
  /\ Goto(c, IF Open THEN "publish" ELSE "lock")
  /\ UNCHANGED <<ctx, err, tries, token, holder, conn, taken, closed>>

\* Variant: the mutex is not taken.
LockNothing(c) ==
  /\ pc[c] = "lock"
  /\ Goto(c, "recheck")
  /\ UNCHANGED <<ctx, err, tries, token, holder, conn, taken, closed>>

\* t.mu.Lock: whether or not the context has ended.
Lock(c) ==
  /\ pc[c] = "lock"
  /\ holder = NoCall
  /\ holder' = c
  /\ Goto(c, "recheck")
  /\ UNCHANGED <<ctx, err, tries, token, conn, taken, closed>>

Unlock == holder' = NoCall

\* Another call may have connected the client meanwhile.
Recheck(c) ==
  /\ pc[c] = "recheck"
  /\ IF Open THEN Unlock /\ Goto(c, "publish")
             ELSE UNCHANGED holder /\ Goto(c, "dial")
  /\ UNCHANGED <<ctx, err, tries, token, conn, taken, closed>>

\* client.Connect.
Dial(c) ==
  /\ pc[c] = "dial"
  /\ token' = [token EXCEPT ![c] = CASE conn = "down" -> "pending"
                                     [] conn = "connecting" -> "error"
                                     [] OTHER -> "ok"]
  /\ conn' = IF conn = "down" THEN "connecting" ELSE conn
  /\ Goto(c, "dialLook")
  /\ UNCHANGED <<ctx, err, tries, holder, taken, closed>>

-----------------------------------------------------------------------------
(* Publish, and waitMQTTToken for both tokens. *)

\* client.Publish: it does not ask whether the context has ended.
Publish(c) ==
  /\ pc[c] = "publish"
  /\ token' = [token EXCEPT
                 ![c] = IF conn \in {"up", "reconnecting"} THEN "pending" ELSE "error"]
  /\ Goto(c, "ackLook")
  /\ UNCHANGED <<ctx, err, tries, holder, conn, taken, closed>>

Dialling(c) == pc[c] \in {"dialLook", "dialPoll"}
Looking(c) == pc[c] \in {"dialLook", "ackLook"}
Polling(c) == pc[c] \in {"dialPoll", "ackPoll"}

\* waitMQTTToken returns e: ensureConnected gives the mutex back and, if e is nil,
\* Publish goes on; the result of the second wait is that of the attempt.
Waited(c, e) ==
  /\ IF Dialling(c) THEN Unlock ELSE UNCHANGED holder
  /\ IF Dialling(c) /\ e = "ok"
       THEN Goto(c, "publish") /\ UNCHANGED err
       ELSE Goto(c, "judge") /\ err' = [err EXCEPT ![c] = e]
  /\ UNCHANGED <<ctx, tries, token, conn, taken, closed>>

\* The first check of the loop.
SeeContext(c) ==
  /\ Looking(c)
  /\ ctx[c] = "ended"
  /\ Waited(c, "context")

\* Variant: a connection is waited for without a timeout.
TimeOutPublish(c) ==
  /\ Looking(c)
  /\ ~Dialling(c)
  /\ ctx[c] # "ended"
  /\ Waited(c, "context")

\* Variant: the wait ends without an error.
TimeOutQuietly(c) ==
  /\ Looking(c)
  /\ ctx[c] # "ended"
  /\ Waited(c, "ok")

\* The second: the timeout of the transport, as context.DeadlineExceeded.
TimeOut(c) ==
  /\ Looking(c)
  /\ ctx[c] # "ended"
  /\ Waited(c, "context")

\* The third: the clock has passed the deadline of the context, and what is
\* returned is ctx.Err().
SeeDeadline(c) ==
  /\ Looking(c)
  /\ ctx[c] = "due"
  /\ Waited(c, "ok")

\* None of the three: WaitTimeout is called.
Look(c) ==
  /\ Looking(c)
  /\ ctx[c] = "live"
  /\ Goto(c, IF Dialling(c) THEN "dialPoll" ELSE "ackPoll")
  /\ UNCHANGED <<ctx, err, tries, token, holder, conn, taken, closed>>

\* WaitTimeout returns: the token is complete, or 50ms or less have passed.
Poll(c) ==
  /\ Polling(c)
  /\ \/ token[c] # "pending" /\ Waited(c, token[c])
     \/ /\ token[c] = "pending"
        /\ Goto(c, IF Dialling(c) THEN "dialLook" ELSE "ackLook")
        /\ UNCHANGED <<ctx, err, tries, token, holder, conn, taken, closed>>

-----------------------------------------------------------------------------
(* The client and the broker. *)

\* The token of the Connect under way, if its caller has not left.
DialTokens(s) ==
  token' = [c \in Calls |-> IF Dialling(c) /\ token[c] = "pending" THEN s ELSE token[c]]

ConnectEnds(up) ==
  /\ conn = "connecting"
  /\ conn' = IF up THEN "up" ELSE "down"
  /\ DialTokens(IF up THEN "ok" ELSE "error")
  /\ UNCHANGED <<callVars, holder, taken, closed>>

\* The connection breaks, and the client restores it by itself.
Break ==
  /\ conn = "up"
  /\ conn' = "reconnecting"
  /\ UNCHANGED <<callVars, token, holder, taken, closed>>

Reconnect ==
  /\ conn = "reconnecting"
  /\ conn' = "up"
  /\ UNCHANGED <<callVars, token, holder, taken, closed>>

\* The message of c is on its way: its caller may have left.
Published(c) == token[c] = "pending" /\ pc[c] \in {"ackLook", "ackPoll", "judge", "done"}

Take(c) ==
  /\ Open
  /\ Published(c)
  /\ taken' = taken \cup {c}
  /\ UNCHANGED <<callVars, token, holder, conn, closed>>

Acknowledge(c) ==
  /\ Open
  /\ Published(c)
  /\ c \in taken
  /\ token' = [token EXCEPT ![c] = "ok"]
  /\ UNCHANGED <<callVars, holder, conn, taken, closed>>

\* Close, from Shutdown of the sink: calls may be in flight, and may connect again.
Close ==
  /\ ~closed
  /\ closed' = TRUE
  /\ conn' = "down"
  /\ token' = [c \in Calls |-> IF token[c] = "pending" THEN "error" ELSE token[c]]
  /\ UNCHANGED <<callVars, holder, taken>>

-----------------------------------------------------------------------------

DoStep(c) == GiveUp(c) \/ Attempt(c) \/ Return(c) \/ Sleep(c) \/ Wake(c)

PublishStep(c) ==
  \/ CheckOpen(c) \/ Recheck(c) \/ Dial(c) \/ Publish(c)
  \/ SeeContext(c) \/ SeeDeadline(c) \/ Look(c) \/ Poll(c)

Environment ==
  \/ \E c \in Calls : Begin(c) \/ Due(c) \/ End(c) \/ Take(c) \/ Acknowledge(c)
  \/ \E up \in BOOLEAN : ConnectEnds(up)
  \/ Break \/ Reconnect \/ Close

Quiet == (\A c \in Calls : pc[c] = "done") /\ UNCHANGED vars

Next ==
  \/ \E c \in Calls : DoStep(c) \/ PublishStep(c) \/ Lock(c) \/ TimeOut(c)
  \/ Environment
  \/ Quiet

Spec == Init /\ [][Next]_vars

\* A goroutine that can run does; sync.Mutex lets no waiter starve; and a wait
\* sees that its time is over however often it looks before.  The broker need
\* never answer, and nobody has to end a context.
FairSpec ==
  /\ Spec
  /\ \A c \in Calls :
       /\ WF_vars(DoStep(c))
       /\ WF_vars(PublishStep(c))
       /\ SF_vars(Lock(c))
       /\ SF_vars(TimeOut(c))

-----------------------------------------------------------------------------
(* Properties. *)

\* Every variable has its type.
TypeOK ==
  /\ pc \in [Calls -> {"idle", "top", "check", "lock", "recheck", "dial", "dialLook",
                       "dialPoll", "publish", "ackLook", "ackPoll", "judge", "sleep", "done"}]
  /\ ctx \in [Calls -> {"live", "due", "ended"}]
  /\ err \in [Calls -> {"none", "ok", "error", "context"}]
  /\ tries \in [Calls -> 0..MaxTries]
  /\ token \in [Calls -> {"none", "pending", "ok", "error"}]
  /\ holder \in Calls \cup {NoCall}
  /\ conn \in {"down", "connecting", "up", "reconnecting"}
  /\ taken \subseteq Calls
  /\ closed \in BOOLEAN

Connecting(c) == pc[c] \in {"recheck", "dial", "dialLook", "dialPoll"}

\* One call at a time connects the client, the Connect that a call waits for is the
\* one under way, and a call may meet a Connect of another only when that one's
\* caller no longer waits: its time or its context was over, and it gave the mutex
\* back (mqtt.go:76-89, 97-111).  Such a call gets an error from Connect and fails
\* its attempt, although the broker may be there; one that finds its caller waiting
\* waits for the mutex instead, whatever breaks or is closed meanwhile.
OneConnectAtATime ==
  /\ \A c \in Calls : Connecting(c) => \A d \in Calls \ {c} : ~Connecting(d)
  /\ \A c \in Calls : Dialling(c) /\ token[c] = "pending" => conn = "connecting"
  /\ \A c, d \in Calls :
       pc[c] = "dial" /\ conn = "connecting" => ~(Dialling(d) /\ token[d] = "pending")

\* A call that reports success published a message the broker has acknowledged,
\* whoever connected the client, except after the deadline of its context
\* (mqtt.go:63-69, 92-127).
SuccessWasTaken ==
  \A c \in Calls :
    pc[c] = "done" /\ err[c] = "ok" =>
      c \in taken \/ (c \in Deadlines /\ ctx[c] # "live")

\* Every call returns, also when the broker never answers and others wait for the
\* mutex (mqtt.go:81-82).
CallsReturn == \A c \in Calls : pc[c] = "top" ~> pc[c] = "done"

-----------------------------------------------------------------------------
(* What comments promise and the code does not keep. *)

\* metrics.go:65: a request is successfully processed when Consume* returns nil.
SuccessIsConfirmed ==
  \A c \in Calls : pc[c] = "done" /\ err[c] = "ok" => c \in taken

=============================================================================
