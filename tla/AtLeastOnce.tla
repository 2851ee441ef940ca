---------------------------- MODULE AtLeastOnce ----------------------------
(***************************************************************************)
(* What an exporter may rely on: a payload it was told is accepted was     *)
(* claimed by at least one sink, and one refused for good was taken by     *)
(* none.  What a sink claims to have taken it has, unless it is Unsure.  A *)
(* sink may take a payload more than once, and without claiming it.        *)
(***************************************************************************)
CONSTANTS
  Payloads,
  Leaves,
  Unsure     \* the sinks whose word proves nothing

VARIABLES
  status,   \* "open", "settled" or "refused", for each payload
  taken,    \* the sinks that have taken it
  claimed   \* the sinks that have told their caller so

promiseVars == <<status, taken, claimed>>

PromiseInit ==
  /\ status = [p \in Payloads |-> "open"]
  /\ taken = [p \in Payloads |-> {}]
  /\ claimed = [p \in Payloads |-> {}]

\* A sink may still take a payload that is settled: the others are not waited for
\* by an exporter that gave up and was answered on its next attempt.
Take(p, s) ==
  /\ status[p] # "refused"
  /\ taken' = [taken EXCEPT ![p] = @ \cup {s}]
  /\ UNCHANGED <<status, claimed>>

\* A sink reports success, of what it took before or takes now.
Claim(p, s) ==
  /\ status[p] # "refused"
  /\ claimed' = [claimed EXCEPT ![p] = @ \cup {s}]
  /\ \/ taken' = [taken EXCEPT ![p] = @ \cup {s}]
     \/ UNCHANGED taken /\ s \in taken[p] \cup Unsure
  /\ UNCHANGED status

Settle(p) ==
  /\ status[p] = "open"
  /\ claimed[p] # {}
  /\ status' = [status EXCEPT ![p] = "settled"]
  /\ UNCHANGED <<taken, claimed>>

Refuse(p) ==
  /\ status[p] = "open"
  /\ taken[p] = {} /\ claimed[p] = {}
  /\ status' = [status EXCEPT ![p] = "refused"]
  /\ UNCHANGED <<taken, claimed>>

PromiseNext ==
  \E p \in Payloads :
    Settle(p) \/ Refuse(p) \/ \E s \in Leaves : Take(p, s) \/ Claim(p, s)

PromiseSpec == PromiseInit /\ [][PromiseNext]_promiseVars

=============================================================================
