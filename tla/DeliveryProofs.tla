--------------------------- MODULE DeliveryProofs ---------------------------
(***************************************************************************)
(* Theorems about export calls in a pipeline, for any number of calls,     *)
(* payloads and sinks.  Calls need not be finite: in every state, finitely *)
(* many have been made.                                                    *)
(***************************************************************************)
EXTENDS Delivery, InductionFacts

-----------------------------------------------------------------------------
(* The inductive invariant. *)

Made == {c \in Calls : pc[c] # "idle"}

\* How the receiver's progress with a call and that of the leaves go together.
Fits(c) ==
  /\ carried[c] \in Payloads <=> pc[c] # "idle"
  /\ pc[c] = "ok" => Taken(c)
  /\ pc[c] = "error" => ~Taken(c)
  /\ \A s \in Leaves :
       /\ leaf[c][s] = "off" <=> pc[c] \in {"idle", "received", "rejected"}
       /\ pc[c] \in {"ok", "error"} => leaf[c][s] = "done"
       /\ leaf[c][s] # "off" => carried[c] \notin Malformed
       /\ leaf[c][s] = "off" => last[c][s] = "none"
       /\ result[c][s] = "none" <=> leaf[c][s] \in {"off", "start", "inner", "work"}

Progress == \A c \in Calls : Fits(c)

\* A leaf that reports success has taken the payload, unless its word proves
\* nothing, and none takes what the receiver cannot decode.
Trail ==
  /\ \A c \in Calls, s \in Leaves \ Unsure :
       "ok" \in {last[c][s], result[c][s]} => copies[carried[c]][s] > 0
  /\ \A p \in Payloads, s \in Leaves : copies[p][s] > 0 => p \notin Malformed

\* The exporter waits only for a call under way, of a payload it has not heard of.
Awaited ==
  \A p \in Payloads :
    /\ waiting[p] # NoCall =>
         /\ carried[waiting[p]] = p
         /\ pc[waiting[p]] \in {"received", "consuming"}
         /\ status[p] = "open"
    /\ status[p] = "refused" => p \in Malformed

\* An exporter that hears every answer waits for each call under way and knows
\* of the one call that succeeded.
Known ==
  Heard => \A c \in Calls :
    /\ pc[c] \in {"received", "consuming"} => waiting[carried[c]] = c
    /\ pc[c] = "ok" =>
         /\ status[carried[c]] = "settled"
         /\ \A d \in Calls : pc[d] = "ok" /\ carried[d] = carried[c] => d = c

\* An attempt is begun within the bound of the model.
Bounded ==
  \A c \in Calls, s \in Retrying : leaf[c][s] = "work" => sends[c][s] < MaxSends

Inv ==
  /\ TypeOK
  /\ IsFiniteSet(Made)
  /\ Bounded
  /\ Progress
  /\ MetersAddUp
  /\ Trail
  /\ Awaited
  /\ Known

-----------------------------------------------------------------------------
(* The sets that the meters count. *)

Decided     == {c \in Calls : pc[c] \notin {"idle", "received"}}
Within(s)   == {c \in Calls : Inside(c, s)}
Came(s, r)  == {c \in Calls : leaf[c][s] = "done" /\ result[c][s] = r}

\* MetersAddUp, without the choice between the two counters.
Sums ==
  /\ accepted = Cardinality(Decided)
  /\ \A s \in Leaves : /\ inflight[s] = Cardinality(Within(s))
                       /\ succeeded[s] = Cardinality(Came(s, "ok"))
                       /\ failed[s] = Cardinality(Came(s, "failed"))

LEMMA MetersMean == MetersAddUp <=> Sums
<1> DEFINE Counter(r) == IF r = "ok" THEN succeeded ELSE failed
<1>1. ASSUME NEW s \in Leaves, NEW r \in {"ok", "failed"}
      PROVE  Cardinality({c \in Calls : leaf[c][s] = "done" /\ result[c][s] = r})
               = Cardinality(Came(s, r))
  BY DEF Came
<1>2. ASSUME NEW s \in Leaves
      PROVE  Cardinality({c \in Calls : Inside(c, s)}) = Cardinality(Within(s))
  BY DEF Within
<1>3. ASSUME NEW s \in Leaves, NEW r \in {"ok", "failed"}
      PROVE  Counter(r)[s] = IF r = "ok" THEN succeeded[s] ELSE failed[s]
  OBVIOUS
<1>4. ASSUME MetersAddUp PROVE Sums
  <2>1. ASSUME NEW s \in Leaves, NEW r \in {"ok", "failed"}
        PROVE  Counter(r)[s] = Cardinality(Came(s, r))
    <3>1. Counter(r)[s] =
            Cardinality({c \in Calls : leaf[c][s] = "done" /\ result[c][s] = r})
      BY <1>4, Zenon DEF MetersAddUp
    <3> QED BY <1>1, <3>1
  <2>2. ASSUME NEW s \in Leaves PROVE inflight[s] = Cardinality(Within(s))
    BY <1>2, <1>4 DEF MetersAddUp
  <2>3. accepted = Cardinality(Decided)
    BY <1>4 DEF MetersAddUp, Decided
  <2> QED BY <1>3, <2>1, <2>2, <2>3 DEF Sums
<1>5. ASSUME Sums PROVE MetersAddUp
  <2>1. ASSUME NEW s \in Leaves, NEW r \in {"ok", "failed"}
        PROVE  Counter(r)[s] =
                 Cardinality({c \in Calls : leaf[c][s] = "done" /\ result[c][s] = r})
    <3>1. Counter(r)[s] = Cardinality(Came(s, r))
      BY <1>3, <1>5 DEF Sums
    <3> QED BY <1>1, <3>1
  <2>2. ASSUME NEW s \in Leaves PROVE inflight[s] = Cardinality({c \in Calls : Inside(c, s)})
    BY <1>2, <1>5 DEF Sums
  <2>3. accepted = Cardinality({c \in Calls : pc[c] \notin {"idle", "received"}})
    BY <1>5 DEF Sums, Decided
  <2> QED BY <2>1, <2>2, <2>3, Zenon DEF MetersAddUp
<1> QED BY <1>4, <1>5

LEMMA MetersMeanNext == MetersAddUp' <=> Sums'
BY MetersMean, PTL

\* They are finite, since only calls that were made are in them.
LEMMA MetersFinite ==
  ASSUME Progress, IsFiniteSet(Made)
  PROVE  /\ IsFiniteSet(Decided)
         /\ \A s \in Leaves : /\ IsFiniteSet(Within(s))
                              /\ \A r : IsFiniteSet(Came(s, r))
<1>1. Decided \in SUBSET Made
  BY DEF Decided, Made
<1>2. ASSUME NEW s \in Leaves, NEW r
      PROVE  Within(s) \in SUBSET Made /\ Came(s, r) \in SUBSET Made
  BY DEF Within, Came, Made, Inside, Progress, Fits
<1> QED BY <1>1, <1>2, FS_Subset

\* One more, and one less.
LEMMA OneMore ==
  ASSUME NEW S, NEW c, IsFiniteSet(S), c \notin S
  PROVE  Cardinality(S \cup {c}) = Cardinality(S) + 1
BY FS_AddElement

LEMMA OneLess ==
  ASSUME NEW S, NEW c, IsFiniteSet(S), c \in S
  PROVE  /\ Cardinality(S \ {c}) = Cardinality(S) - 1
         /\ Cardinality(S) - 1 \in Nat
<1>1. IsFiniteSet(S \ {c}) /\ Cardinality(S \ {c}) = Cardinality(S) - 1
  BY FS_RemoveElement
<1> QED BY <1>1, FS_CardinalityType

-----------------------------------------------------------------------------
(* What a step of a call in a leaf leaves alone. *)

\* It touches what the leaf knows of this call only.
LEMMA LeafStepFrame ==
  ASSUME TypeOK, NEW c \in Calls, NEW s \in Leaves, LeafStep(c, s)
  PROVE  /\ UNCHANGED <<exporterVars, callVars, accepted>>
         /\ \A d \in Calls, t \in Leaves :
              d # c \/ t # s => /\ leaf'[d][t] = leaf[d][t]
                                /\ last'[d][t] = last[d][t]
                                /\ result'[d][t] = result[d][t]
<1> USE DEF TypeOK, exporterVars, callVars
<1>1. CASE Start(c, s) \/ Enter(c, s) \/ Decline(c, s)
  BY <1>1 DEF Start, Enter, Decline
<1>2. CASE Send(c, s)
  BY <1>2 DEF Send
<1>3. CASE Finish(c, s)
  BY <1>3 DEF Finish
<1>4. ASSUME NEW ok \in BOOLEAN, Write(c, s, ok)
      PROVE  /\ UNCHANGED <<exporterVars, callVars, accepted>>
             /\ \A d \in Calls, t \in Leaves :
                  d # c \/ t # s => /\ leaf'[d][t] = leaf[d][t]
                                    /\ last'[d][t] = last[d][t]
                                    /\ result'[d][t] = result[d][t]
  BY <1>4 DEF Write
<1>5. ASSUME NEW n \in 0..MaxSends, Store(c, s, n)
      PROVE  /\ UNCHANGED <<exporterVars, callVars, accepted>>
             /\ \A d \in Calls, t \in Leaves :
                  d # c \/ t # s => /\ leaf'[d][t] = leaf[d][t]
                                    /\ last'[d][t] = last[d][t]
                                    /\ result'[d][t] = result[d][t]
  BY <1>5 DEF Store
<1> QED BY <1>1, <1>2, <1>3, <1>4, <1>5 DEF LeafStep

-----------------------------------------------------------------------------
(* Types, and the progress of a call. *)

LEMMA InvInit == Init => Inv
<1> SUFFICES ASSUME Init PROVE Inv
  OBVIOUS
<1> USE DEF Init, CallLeaf
<1>1. TypeOK
  BY DeliveryAssumption DEF TypeOK
<1>2. Made = {} /\ IsFiniteSet(Made)
  BY FS_EmptySet DEF Made
<1>3. Progress
  BY DeliveryAssumption DEF Progress, Fits, Taken
<1>4. Trail /\ Awaited /\ Known /\ Bounded
  BY DeliveryAssumption DEF Trail, Awaited, Known, Heard, Bounded
<1>5. Decided = {} /\ \A s \in Leaves : Within(s) = {} /\ \A r : Came(s, r) = {}
  BY DEF Decided, Within, Came, Inside
<1>6. Sums
  BY <1>5, FS_EmptySet DEF Sums
<1> QED BY <1>1, <1>2, <1>3, <1>4, <1>6, MetersMean DEF Inv

\* Only an exporter makes a call, and one at a time.
LEMMA MadeStep == ASSUME Inv, [Next]_vars PROVE IsFiniteSet(Made')
<1> USE DEF Inv, TypeOK
<1>1. ASSUME NEW p \in Payloads, NEW c \in Calls, Export(p, c)
      PROVE  IsFiniteSet(Made')
  <2>1. Made' = Made \cup {c}
    BY <1>1 DEF Export, Made
  <2> QED BY <2>1, FS_AddElement
<1>2. ASSUME NEW c \in Calls, Reject(c) \/ Consume(c) \/ Answer(c)
      PROVE  IsFiniteSet(Made')
  <2>1. Made' = Made
    BY <1>2 DEF Reject, Consume, Answer, Made
  <2> QED BY <2>1
<1>3. ASSUME UNCHANGED pc PROVE IsFiniteSet(Made')
  BY <1>3 DEF Made
<1>4. ASSUME NEW p \in Payloads, GiveUp(p) PROVE UNCHANGED pc
  BY <1>4 DEF GiveUp
<1>5. ASSUME NEW c \in Calls, PassDeadline(c) PROVE UNCHANGED pc
  BY <1>5 DEF PassDeadline
<1>6. ASSUME NEW c \in Calls, NEW s \in Leaves, LeafStep(c, s) PROVE UNCHANGED pc
  BY <1>6, LeafStepFrame DEF callVars
<1>7. CASE UNCHANGED vars
  BY <1>7, <1>3 DEF vars, callVars
<1> QED BY <1>1, <1>2, <1>3, <1>4, <1>5, <1>6, <1>7 DEF Next, Quiet

LEMMA OutcomeType ==
  ASSUME NEW s \in Leaves, NEW o \in SendOutcomes(s)
  PROVE  /\ o[1] \in {"ok", "retryable", "permanent", "deadline"}
         /\ o[2] \in BOOLEAN
         /\ o[1] = "ok" /\ s \notin Unsure => o[2]
<1>1. ASSUME NEW a, NEW b, o = <<a, b>>,
             a \in {"ok", "retryable", "permanent", "deadline"}, b \in BOOLEAN,
             a = "ok" /\ s \notin Unsure => b
      PROVE  /\ o[1] \in {"ok", "retryable", "permanent", "deadline"}
             /\ o[2] \in BOOLEAN
             /\ o[1] = "ok" /\ s \notin Unsure => o[2]
  <2>1. o[1] = a /\ o[2] = b
    BY <1>1
  <2> QED BY <1>1, <2>1
<1>2. CASE o \in {<<"ok", TRUE>>, <<"permanent", FALSE>>}
  BY <1>1, <1>2
<1>3. CASE o \in {"retryable", "deadline"} \X BOOLEAN
  BY <1>3
<1>4. CASE s \in Unsure /\ o = <<"ok", FALSE>>
  BY <1>1, <1>4
<1> QED BY <1>2, <1>3, <1>4 DEF SendOutcomes

LEMMA TypeStep == ASSUME Inv, [Next]_vars PROVE TypeOK'
<1> USE DEF TypeOK, exporterVars, callVars, leafVars, counterVars
<1>0. TypeOK /\ Progress /\ MetersAddUp /\ IsFiniteSet(Made)
  BY DEF Inv
<1>1. ASSUME NEW p \in Payloads, GiveUp(p) PROVE TypeOK'
  BY <1>0, <1>1 DEF GiveUp
<1>2. ASSUME NEW p \in Payloads, NEW c \in Calls, Export(p, c) PROVE TypeOK'
  BY <1>0, <1>2 DEF Export
<1>3. ASSUME NEW c \in Calls, PassDeadline(c) PROVE TypeOK'
  BY <1>0, <1>3 DEF PassDeadline
<1>4. ASSUME NEW c \in Calls, Reject(c) PROVE TypeOK'
  <2>1. /\ status' \in [Payloads -> {"open", "settled", "refused"}]
        /\ waiting' \in [Payloads -> Calls \cup {NoCall}]
    BY <1>0, <1>4 DEF Reject, Hear
  <2> QED BY <1>0, <1>4, <2>1 DEF Reject
<1>5. ASSUME NEW c \in Calls, Consume(c) PROVE TypeOK'
  BY <1>0, <1>5 DEF Consume
<1>6. ASSUME NEW c \in Calls, Answer(c) PROVE TypeOK'
  BY <1>0, <1>6 DEF Answer, Hear
<1>7. ASSUME NEW c \in Calls, NEW s \in Leaves, Start(c, s) PROVE TypeOK'
  BY <1>0, <1>7 DEF Start
<1>14. ASSUME NEW c \in Calls, NEW s \in Leaves, Enter(c, s) PROVE TypeOK'
  BY <1>0, <1>14 DEF Enter
<1>15. ASSUME NEW c \in Calls, NEW s \in Leaves, Decline(c, s) PROVE TypeOK'
  BY <1>0, <1>15 DEF Decline
<1>8. ASSUME NEW c \in Calls, NEW s \in Leaves, Copied(c, s), leaf[c][s] = "work"
      PROVE  copies' \in [Payloads -> [Leaves -> Nat]]
  BY <1>0, <1>8 DEF Copied, Progress, Fits
<1>9. ASSUME NEW c \in Calls, NEW s \in Leaves, Send(c, s) PROVE TypeOK'
  <2>1. PICK o \in SendOutcomes(s) :
          /\ last' = [last EXCEPT ![c][s] = o[1]]
          /\ IF o[2] THEN Copied(c, s) ELSE UNCHANGED copies
    BY <1>9 DEF Send
  <2>2. o[1] \in {"ok", "retryable", "permanent", "deadline"}
    BY OutcomeType
  <2>3. copies' \in [Payloads -> [Leaves -> Nat]]
    BY <1>0, <1>8, <1>9, <2>1 DEF Send
  <2>4. sends' \in [Calls -> [Leaves -> 0..MaxSends]]
    <3>1. sends[c][s] < MaxSends
      BY <1>9 DEF Send, Inv, Bounded
    <3> QED BY <1>0, <1>9, <3>1, DeliveryAssumption DEF Send
  <2>5. last' \in [Calls -> [Leaves -> {"none", "ok", "retryable", "permanent", "deadline"}]]
    BY <1>0, <2>1, <2>2
  <2> QED BY <1>0, <1>9, <2>3, <2>4, <2>5 DEF Send
<1>10. ASSUME NEW c \in Calls, NEW s \in Leaves, NEW ok \in BOOLEAN, Write(c, s, ok)
       PROVE  TypeOK'
  <2>1. copies' \in [Payloads -> [Leaves -> Nat]]
    BY <1>0, <1>8, <1>10 DEF Write
  <2> QED BY <1>0, <1>10, <2>1 DEF Write
<1>11. ASSUME NEW c \in Calls, NEW s \in Leaves, NEW n \in 0..MaxSends, Store(c, s, n)
       PROVE  TypeOK'
  BY <1>0, <1>11 DEF Store
<1>12. ASSUME NEW c \in Calls, NEW s \in Leaves, Finish(c, s) PROVE TypeOK'
  <2>1. inflight[s] - 1 \in Nat
    <3>1. c \in Within(s) /\ IsFiniteSet(Within(s))
      BY <1>0, <1>12, MetersFinite DEF Finish, Within, Inside
    <3> QED BY <1>0, <3>1, OneLess, MetersMean DEF Sums
  <2>2. inflight' \in [Leaves -> Nat] /\ retried' \in [Leaves -> Nat]
    BY <1>0, <1>12, <2>1 DEF Finish
  <2>3. succeeded' \in [Leaves -> Nat] /\ failed' \in [Leaves -> Nat]
    <3>1. succeeded \in [Leaves -> Nat] /\ failed \in [Leaves -> Nat]
      BY <1>0
    <3>2. \/ succeeded' = [succeeded EXCEPT ![s] = @ + 1] /\ failed' = failed
          \/ failed' = [failed EXCEPT ![s] = @ + 1] /\ succeeded' = succeeded
      BY <1>12, Zenon DEF Finish
    <3> HIDE DEF TypeOK
    <3> QED BY <3>1, <3>2
  <2> QED BY <1>0, <1>12, <2>2, <2>3 DEF Finish
<1>13. CASE UNCHANGED vars
  BY <1>0, <1>13 DEF vars
<1> QED BY <1>1, <1>2, <1>3, <1>4, <1>5, <1>6, <1>7, <1>9, <1>10, <1>11, <1>12, <1>13, <1>14, <1>15
        DEF Next, Quiet, LeafStep

LEMMA BoundedStep == ASSUME Inv, [Next]_vars PROVE Bounded'
<1> USE DEF exporterVars, callVars, leafVars
<1>0. TypeOK /\ Bounded /\ Retrying \subseteq Leaves
  BY DeliveryAssumption DEF Inv
<1>1. CASE UNCHANGED <<leaf, sends>>
  BY <1>0, <1>1 DEF Bounded
<1>2. ASSUME NEW p \in Payloads, GiveUp(p) \/ \E c \in Calls : Export(p, c)
      PROVE  UNCHANGED <<leaf, sends>>
  BY <1>2 DEF GiveUp, Export
<1>3. ASSUME NEW c \in Calls, PassDeadline(c) \/ Reject(c) \/ Answer(c)
      PROVE  UNCHANGED <<leaf, sends>>
  BY <1>3 DEF PassDeadline, Reject, Answer
<1>4. ASSUME NEW c \in Calls, Consume(c) PROVE Bounded'
  BY <1>0, <1>4 DEF Consume, Bounded, TypeOK
<1>5. ASSUME NEW c \in Calls, NEW s \in Leaves, LeafStep(c, s) PROVE Bounded'
  <2> USE DEF Bounded, TypeOK
  <2>1. CASE Start(c, s)
    BY <1>0, <2>1 DEF Start
  <2>6. CASE Decline(c, s)
    BY <1>0, <2>6 DEF Decline
  <2>7. CASE Finish(c, s)
    BY <1>0, <2>7 DEF Finish
  <2>2. CASE Enter(c, s)
    BY <1>0, <2>2 DEF Enter
  <2>3. CASE Send(c, s)
    <3>1. /\ leaf'[c][s] = "inner"
          /\ \A d \in Calls, u \in Leaves :
               d # c \/ u # s => leaf'[d][u] = leaf[d][u] /\ sends'[d][u] = sends[d][u]
      BY <1>0, <2>3 DEF Send
    <3> QED BY <1>0, <3>1
  <2>4. ASSUME NEW ok \in BOOLEAN, Write(c, s, ok) PROVE Bounded'
    BY <1>0, <2>4 DEF Write
  <2>5. ASSUME NEW n \in 0..MaxSends, Store(c, s, n) PROVE Bounded'
    BY <1>0, <2>5 DEF Store
  <2> QED BY <1>5, <2>1, <2>2, <2>3, <2>4, <2>5, <2>6, <2>7 DEF LeafStep
<1>6. CASE UNCHANGED vars
  BY <1>1, <1>6 DEF vars
<1> QED BY <1>1, <1>2, <1>3, <1>4, <1>5, <1>6 DEF Next, Quiet

\* A call fits as long as nothing it knows of changes.
LEMMA FitsStays ==
  ASSUME NEW c \in Calls, Fits(c),
         carried'[c] = carried[c], pc'[c] = pc[c],
         \A s \in Leaves : /\ leaf'[c][s] = leaf[c][s]
                           /\ last'[c][s] = last[c][s]
                           /\ result'[c][s] = result[c][s]
  PROVE  Fits(c)'
BY DEF Fits, Taken

LEMMA ProgressStep == ASSUME Inv, [Next]_vars PROVE Progress'
<1> USE DEF exporterVars, callVars, leafVars
<1>0. TypeOK /\ Progress /\ Trail
  BY DEF Inv
<1>1. CASE UNCHANGED <<carried, pc, leafVars>>
  BY <1>0, <1>1, FitsStays DEF Progress
<1>2. ASSUME NEW p \in Payloads, GiveUp(p) PROVE Progress'
  BY <1>1, <1>2 DEF GiveUp
<1>3. ASSUME NEW c \in Calls, PassDeadline(c) PROVE Progress'
  BY <1>1, <1>3 DEF PassDeadline
<1>4. ASSUME NEW p \in Payloads, NEW c \in Calls, Export(p, c) PROVE Progress'
  <2>1. Fits(c)'
    BY <1>0, <1>4, DeliveryAssumption DEF Export, Progress, Fits, Taken, TypeOK
  <2>2. ASSUME NEW d \in Calls, d # c PROVE Fits(d)'
    BY <1>0, <1>4, <2>2, FitsStays DEF Export, Progress, TypeOK
  <2> QED BY <2>1, <2>2 DEF Progress
<1>5. ASSUME NEW c \in Calls, Reject(c) PROVE Progress'
  <2>1. Fits(c)'
    BY <1>0, <1>5 DEF Reject, Progress, Fits, Taken, TypeOK
  <2>2. ASSUME NEW d \in Calls, d # c PROVE Fits(d)'
    BY <1>0, <1>5, <2>2, FitsStays DEF Reject, Progress, TypeOK
  <2> QED BY <2>1, <2>2 DEF Progress
<1>6. ASSUME NEW c \in Calls, Consume(c) PROVE Progress'
  <2>1. Fits(c)'
    BY <1>0, <1>6 DEF Consume, Progress, Fits, Taken, TypeOK
  <2>2. ASSUME NEW d \in Calls, d # c PROVE Fits(d)'
    BY <1>0, <1>6, <2>2, FitsStays DEF Consume, Progress, TypeOK
  <2> QED BY <2>1, <2>2 DEF Progress
<1>7. ASSUME NEW c \in Calls, Answer(c) PROVE Progress'
  <2>1. Fits(c)'
    BY <1>0, <1>7 DEF Answer, Progress, Fits, Taken, TypeOK
  <2>2. ASSUME NEW d \in Calls, d # c PROVE Fits(d)'
    BY <1>0, <1>7, <2>2, FitsStays DEF Answer, Progress, TypeOK
  <2> QED BY <2>1, <2>2 DEF Progress
<1>8. ASSUME NEW c \in Calls, NEW s \in Leaves, LeafStep(c, s) PROVE Progress'
  <2>1. /\ UNCHANGED <<carried, pc>>
        /\ \A d \in Calls, t \in Leaves :
             d # c \/ t # s => /\ leaf'[d][t] = leaf[d][t]
                               /\ last'[d][t] = last[d][t]
                               /\ result'[d][t] = result[d][t]
    BY <1>0, <1>8, LeafStepFrame
  <2>2. ASSUME NEW d \in Calls, d # c PROVE Fits(d)'
    BY <1>0, <2>1, <2>2, FitsStays DEF Progress
  <2>3. /\ leaf[c][s] \in {"start", "inner", "work", "return"}
        /\ leaf'[c][s] \in {"inner", "work", "return", "done"}
        /\ result'[c][s] = "none" <=> leaf'[c][s] \in {"off", "start", "inner", "work"}
    <3> USE DEF TypeOK
    <3>0. Fits(c)
      BY <1>0 DEF Progress
    <3>1. CASE Start(c, s)
      BY <1>0, <3>0, <3>1 DEF Start, Fits
    <3>6. CASE Enter(c, s)
      BY <1>0, <3>0, <3>6 DEF Enter, Fits
    <3>7. CASE Decline(c, s)
      BY <1>0, <3>7 DEF Decline
    <3>2. CASE Send(c, s)
      BY <1>0, <3>0, <3>2 DEF Send, Fits
    <3>3. CASE Finish(c, s)
      BY <1>0, <3>0, <3>3 DEF Finish, Fits
    <3>4. ASSUME NEW ok \in BOOLEAN, Write(c, s, ok) PROVE <2>3!:
      BY <1>0, <3>4 DEF Write
    <3>5. ASSUME NEW n \in 0..MaxSends, Store(c, s, n) PROVE <2>3!:
      BY <1>0, <3>5 DEF Store
    <3> QED BY <1>8, <3>1, <3>2, <3>3, <3>4, <3>5, <3>6, <3>7 DEF LeafStep
  <2>4. pc[c] = "consuming"
    <3>1. pc[c] \in {"idle", "received", "consuming", "rejected", "ok", "error"}
      BY <1>0 DEF TypeOK
    <3>2. Fits(c) /\ leaf[c][s] \notin {"off", "done"}
      BY <1>0, <2>3 DEF Progress
    <3> QED BY <3>1, <3>2 DEF Fits
  <2>5. Fits(c)'
    <3>1. Fits(c) /\ carried'[c] = carried[c] /\ pc'[c] = "consuming"
      BY <1>0, <2>1, <2>4 DEF Progress
    <3>2. ASSUME NEW t \in Leaves
          PROVE  /\ leaf'[c][t] = "off" <=> pc'[c] \in {"idle", "received", "rejected"}
                 /\ leaf'[c][t] # "off" => carried'[c] \notin Malformed
                 /\ leaf'[c][t] = "off" => last'[c][t] = "none"
                 /\ result'[c][t] = "none" <=> leaf'[c][t] \in {"off", "start", "inner", "work"}
      <4>1. CASE t = s
        BY <2>3, <2>4, <3>1, <4>1 DEF Fits
      <4>2. CASE t # s
        BY <2>1, <2>4, <3>1, <4>2 DEF Fits
      <4> QED BY <4>1, <4>2
    <3> QED BY <2>4, <3>1, <3>2 DEF Fits
  <2> QED BY <2>2, <2>5 DEF Progress
<1>9. CASE UNCHANGED vars
  BY <1>1, <1>9 DEF vars
<1> QED BY <1>2, <1>3, <1>4, <1>5, <1>6, <1>7, <1>8, <1>9 DEF Next, Quiet

-----------------------------------------------------------------------------
(* The meters. *)

\* Where a step leaves the progress of the calls in the leaves alone, the sinks'
\* meters stay as they are.
LEMMA SinkMetersStay ==
  ASSUME Sums, UNCHANGED <<leaf, result, inflight, succeeded, failed>>
  PROVE  \A s \in Leaves : /\ inflight'[s] = Cardinality(Within(s)')
                           /\ succeeded'[s] = Cardinality(Came(s, "ok")')
                           /\ failed'[s] = Cardinality(Came(s, "failed")')
<1>1. ASSUME NEW s \in Leaves
      PROVE  /\ Within(s)' = Within(s)
             /\ Came(s, "ok")' = Came(s, "ok")
             /\ Came(s, "failed")' = Came(s, "failed")
  BY DEF Within, Came, Inside
<1> QED BY <1>1 DEF Sums

\* The receiver counts a call when it is done with its body.
LEMMA DecidedStep ==
  ASSUME TypeOK, Progress, IsFiniteSet(Made), accepted = Cardinality(Decided),
         NEW c \in Calls, NEW step, pc[c] = "received",
         step \in {"rejected", "consuming"}, pc' = [pc EXCEPT ![c] = step],
         accepted' = accepted + 1
  PROVE  accepted' = Cardinality(Decided')
<1>1. Decided' = Decided \cup {c} /\ c \notin Decided
  BY DEF Decided, TypeOK
<1> QED BY <1>1, MetersFinite, OneMore

\* What one call in a leaf does to the three sets of that leaf and of the others.
LEMMA OtherLeaves ==
  ASSUME NEW c \in Calls, NEW s \in Leaves, NEW t \in Leaves, t # s,
         \A d \in Calls, u \in Leaves :
           d # c \/ u # s => leaf'[d][u] = leaf[d][u] /\ result'[d][u] = result[d][u]
  PROVE  /\ Within(t)' = Within(t)
         /\ Came(t, "ok")' = Came(t, "ok")
         /\ Came(t, "failed")' = Came(t, "failed")
BY DEF Within, Came, Inside

LEMMA SinkMetersStep ==
  ASSUME Inv, NEW c \in Calls, NEW s \in Leaves, LeafStep(c, s)
  PROVE  \A t \in Leaves : /\ inflight'[t] = Cardinality(Within(t)')
                           /\ succeeded'[t] = Cardinality(Came(t, "ok")')
                           /\ failed'[t] = Cardinality(Came(t, "failed")')
<1> DEFINE Right(t) == /\ inflight'[t] = Cardinality(Within(t)')
                       /\ succeeded'[t] = Cardinality(Came(t, "ok")')
                       /\ failed'[t] = Cardinality(Came(t, "failed")')
<1>1. TypeOK /\ Progress /\ IsFiniteSet(Made) /\ Sums /\ Fits(c)
  BY MetersMean DEF Inv, Progress
<1>2. \A d \in Calls, t \in Leaves :
        d # c \/ t # s => leaf'[d][t] = leaf[d][t] /\ result'[d][t] = result[d][t]
  BY <1>1, LeafStepFrame
<1>3. /\ inflight[s] = Cardinality(Within(s))
      /\ succeeded[s] = Cardinality(Came(s, "ok"))
      /\ failed[s] = Cardinality(Came(s, "failed"))
      /\ IsFiniteSet(Within(s))
      /\ IsFiniteSet(Came(s, "ok")) /\ IsFiniteSet(Came(s, "failed"))
  BY <1>1, MetersFinite DEF Sums
<1>4. ASSUME NEW t \in Leaves, t # s PROVE Right(t)
  <2>1. /\ inflight[t] = Cardinality(Within(t))
        /\ succeeded[t] = Cardinality(Came(t, "ok"))
        /\ failed[t] = Cardinality(Came(t, "failed"))
    BY <1>1 DEF Sums
  <2>2. /\ Within(t)' = Within(t)
        /\ Came(t, "ok")' = Came(t, "ok")
        /\ Came(t, "failed")' = Came(t, "failed")
    BY <1>2, <1>4, OtherLeaves
  <2>3. /\ inflight'[t] = inflight[t]
        /\ succeeded'[t] = succeeded[t]
        /\ failed'[t] = failed[t]
    <3> USE DEF TypeOK, counterVars
    <3>1. CASE Start(c, s)
      BY <1>1, <1>4, <3>1 DEF Start
    <3>2. CASE Enter(c, s) \/ Decline(c, s) \/ Send(c, s)
      BY <3>2 DEF Enter, Decline, Send
    <3>3. CASE Finish(c, s)
      BY <1>1, <1>4, <3>3 DEF Finish
    <3>4. ASSUME NEW ok \in BOOLEAN, Write(c, s, ok) PROVE <2>3!:
      BY <3>4 DEF Write
    <3>5. ASSUME NEW n \in 0..MaxSends, Store(c, s, n) PROVE <2>3!:
      BY <3>5 DEF Store
    <3> QED BY <3>1, <3>2, <3>3, <3>4, <3>5 DEF LeafStep
  <2> QED BY <2>1, <2>2, <2>3
<1>5. CASE Start(c, s)
  <2>1. /\ Within(s)' = Within(s) \cup {c} /\ c \notin Within(s)
        /\ Came(s, "ok")' = Came(s, "ok") /\ Came(s, "failed")' = Came(s, "failed")
    BY <1>1, <1>5 DEF Start, Within, Came, Inside, TypeOK
  <2>2. /\ inflight'[s] = inflight[s] + 1
        /\ succeeded'[s] = succeeded[s]
        /\ failed'[s] = failed[s]
    BY <1>1, <1>5 DEF Start, TypeOK
  <2>3. Right(s)
    BY <1>3, <2>1, <2>2, OneMore
  <2> QED BY <1>4, <2>3
<1>7. ASSUME \/ Enter(c, s) \/ Decline(c, s) \/ Send(c, s)
             \/ \E ok \in BOOLEAN : Write(c, s, ok)
             \/ \E n \in 0..MaxSends : Store(c, s, n)
      PROVE  Right(s)
  <2>1. /\ leaf[c][s] \in {"inner", "work"}
        /\ leaf'[c][s] \in {"inner", "work", "return"}
        /\ UNCHANGED counterVars
    <3> USE <1>1 DEF TypeOK
    <3>1. CASE Enter(c, s) \/ Decline(c, s) \/ Send(c, s)
      BY <3>1 DEF Enter, Decline, Send
    <3>2. ASSUME NEW ok \in BOOLEAN, Write(c, s, ok) PROVE <2>1!:
      BY <3>2 DEF Write
    <3>3. ASSUME NEW n \in 0..MaxSends, Store(c, s, n) PROVE <2>1!:
      BY <3>3 DEF Store
    <3> QED BY <1>7, <3>1, <3>2, <3>3
  <2>2. /\ Within(s)' = Within(s)
        /\ Came(s, "ok")' = Came(s, "ok") /\ Came(s, "failed")' = Came(s, "failed")
    BY <1>2, <2>1 DEF Within, Came, Inside
  <2> QED BY <1>3, <2>1, <2>2 DEF counterVars
<1>8. CASE Finish(c, s)
  <2>1. Within(s)' = Within(s) \ {c} /\ c \in Within(s)
    BY <1>1, <1>8 DEF Finish, Within, Inside, TypeOK
  <2>2. inflight'[s] = inflight[s] - 1
    BY <1>1, <1>8 DEF Finish, TypeOK
  <2>3. inflight'[s] = Cardinality(Within(s)')
    BY <1>3, <2>1, <2>2, OneLess
  <2>4. CASE result[c][s] = "ok"
    <3>1. /\ Came(s, "ok")' = Came(s, "ok") \cup {c} /\ c \notin Came(s, "ok")
          /\ Came(s, "failed")' = Came(s, "failed")
      BY <1>1, <1>8, <2>4 DEF Finish, Came, TypeOK
    <3>2. succeeded'[s] = succeeded[s] + 1 /\ failed'[s] = failed[s]
      BY <1>1, <1>8, <2>4 DEF Finish, TypeOK
    <3> QED BY <1>3, <1>4, <2>3, <3>1, <3>2, OneMore
  <2>5. CASE result[c][s] = "failed"
    <3>1. /\ Came(s, "failed")' = Came(s, "failed") \cup {c} /\ c \notin Came(s, "failed")
          /\ Came(s, "ok")' = Came(s, "ok")
      BY <1>1, <1>8, <2>5 DEF Finish, Came, TypeOK
    <3>2. failed'[s] = failed[s] + 1 /\ succeeded'[s] = succeeded[s]
      BY <1>1, <1>8, <2>5 DEF Finish, TypeOK
    <3> QED BY <1>3, <1>4, <2>3, <3>1, <3>2, OneMore
  <2>6. result[c][s] \in {"ok", "failed"}
    <3>1. leaf[c][s] = "return" /\ result[c][s] \in {"none", "ok", "failed"}
      BY <1>1, <1>8 DEF Finish, TypeOK
    <3> QED BY <1>1, <3>1 DEF Fits
  <2> QED BY <2>4, <2>5, <2>6
<1> QED BY <1>4, <1>5, <1>7, <1>8 DEF LeafStep

LEMMA MetersStep == ASSUME Inv, [Next]_vars PROVE MetersAddUp'
<1> USE DEF exporterVars, callVars, leafVars, counterVars
<1>0. TypeOK /\ Progress /\ IsFiniteSet(Made) /\ Sums
  BY MetersMean DEF Inv
<1>1. CASE UNCHANGED <<leaf, result, inflight, succeeded, failed>>
           /\ UNCHANGED <<pc, accepted>>
  <2>1. Decided' = Decided
    BY <1>1 DEF Decided
  <2> QED BY <1>0, <1>1, <2>1, SinkMetersStay, MetersMeanNext DEF Sums
<1>2. ASSUME NEW p \in Payloads, GiveUp(p) PROVE MetersAddUp'
  BY <1>1, <1>2 DEF GiveUp
<1>3. ASSUME NEW p \in Payloads, NEW c \in Calls, Export(p, c) PROVE MetersAddUp'
  <2>1. Decided' = Decided
    BY <1>0, <1>3 DEF Export, Decided, TypeOK
  <2>2. UNCHANGED <<leaf, result, inflight, succeeded, failed, accepted>>
    BY <1>3 DEF Export
  <2> QED BY <1>0, <2>1, <2>2, SinkMetersStay, MetersMeanNext DEF Sums
<1>4. ASSUME NEW c \in Calls, PassDeadline(c) PROVE MetersAddUp'
  BY <1>1, <1>4 DEF PassDeadline
<1>5. ASSUME NEW c \in Calls, Reject(c) PROVE MetersAddUp'
  <2>1. accepted' = Cardinality(Decided')
    BY <1>0, <1>5, DecidedStep DEF Reject, Sums
  <2>2. UNCHANGED <<leaf, result, inflight, succeeded, failed>>
    BY <1>5 DEF Reject
  <2> QED BY <1>0, <2>1, <2>2, SinkMetersStay, MetersMeanNext DEF Sums
<1>6. ASSUME NEW c \in Calls, Consume(c) PROVE MetersAddUp'
  <2>1. accepted' = Cardinality(Decided')
    BY <1>0, <1>6, DecidedStep DEF Consume, Sums
  <2>2. ASSUME NEW s \in Leaves
        PROVE  /\ Within(s)' = Within(s)
               /\ Came(s, "ok")' = Came(s, "ok")
               /\ Came(s, "failed")' = Came(s, "failed")
    <3>1. leaf[c][s] = "off" /\ leaf'[c][s] = "start" /\ result' = result
      BY <1>0, <1>6 DEF Consume, Progress, Fits, TypeOK
    <3>2. \A d \in Calls : d # c => leaf'[d][s] = leaf[d][s]
      BY <1>0, <1>6 DEF Consume, TypeOK
    <3> QED BY <3>1, <3>2 DEF Within, Came, Inside
  <2>3. UNCHANGED <<inflight, succeeded, failed>>
    BY <1>6 DEF Consume
  <2> QED BY <1>0, <2>1, <2>2, <2>3, MetersMeanNext DEF Sums
<1>7. ASSUME NEW c \in Calls, Answer(c) PROVE MetersAddUp'
  <2>1. Decided' = Decided
    BY <1>0, <1>7 DEF Answer, Decided, TypeOK
  <2>2. UNCHANGED <<leaf, result, inflight, succeeded, failed, accepted>>
    BY <1>7 DEF Answer
  <2> QED BY <1>0, <2>1, <2>2, SinkMetersStay, MetersMeanNext DEF Sums
<1>8. ASSUME NEW c \in Calls, NEW s \in Leaves, LeafStep(c, s) PROVE MetersAddUp'
  <2>1. UNCHANGED <<pc, accepted>>
    BY <1>0, <1>8, LeafStepFrame
  <2>2. Decided' = Decided
    BY <2>1 DEF Decided
  <2> QED BY <1>0, <1>8, <2>1, <2>2, SinkMetersStep, MetersMeanNext DEF Sums
<1>9. CASE UNCHANGED vars
  BY <1>1, <1>9 DEF vars
<1> QED BY <1>2, <1>3, <1>4, <1>5, <1>6, <1>7, <1>8, <1>9 DEF Next, Quiet

-----------------------------------------------------------------------------
(* What the leaves took, and what the exporter knows of it. *)

\* A copy more of one payload in one leaf.
LEMMA CopiedMeans ==
  ASSUME TypeOK, Progress, NEW c \in Calls, NEW s \in Leaves,
         leaf[c][s] = "work", Copied(c, s)
  PROVE  /\ carried[c] \in Payloads \ Malformed
         /\ \A p \in Payloads, t \in Leaves :
              copies'[p][t] = IF p = carried[c] /\ t = s THEN copies[p][t] + 1
                                                         ELSE copies[p][t]
<1>1. Fits(c)
  BY DEF Progress
<1>2. carried[c] \in Payloads \ Malformed
  BY <1>1 DEF Fits
<1> QED BY <1>2 DEF Copied, TypeOK

\* A step copies at most one payload, to the leaf that makes it.
Copying(c, s) == Copied(c, s) /\ leaf[c][s] = "work"

LEMMA LeafStepCopies ==
  ASSUME TypeOK, Progress, NEW c \in Calls, NEW s \in Leaves, LeafStep(c, s)
  PROVE  /\ Copying(c, s) \/ UNCHANGED copies
         /\ s \notin Unsure /\ last'[c][s] = "ok" => last[c][s] = "ok" \/ Copying(c, s)
         /\ s \notin Unsure /\ result'[c][s] = "ok" =>
              "ok" \in {last[c][s], result[c][s]} \/ Copying(c, s)
<1> USE DEF TypeOK, leafVars, Copying
<1>1. CASE Start(c, s) \/ Enter(c, s) \/ Decline(c, s)
  BY <1>1 DEF Start, Enter, Decline
<1>2. CASE Send(c, s)
  <2>1. PICK o \in SendOutcomes(s) :
          /\ last' = [last EXCEPT ![c][s] = o[1]]
          /\ IF o[2] THEN Copied(c, s) ELSE UNCHANGED copies
    BY <1>2 DEF Send
  <2>2. /\ last'[c][s] = o[1]
        /\ leaf[c][s] = "work" /\ result' = result
    BY <1>2, <2>1 DEF Send
  <2>3. CASE o[2]
    BY <2>1, <2>2, <2>3
  <2>4. CASE ~o[2]
    BY <2>1, <2>2, <2>4, OutcomeType
  <2> QED BY <2>3, <2>4
<1>3. CASE Finish(c, s)
  BY <1>3 DEF Finish
<1>4. ASSUME NEW ok \in BOOLEAN, Write(c, s, ok)
      PROVE  /\ Copying(c, s) \/ UNCHANGED copies
             /\ last' = last
             /\ s \notin Unsure /\ result'[c][s] = "ok" => Copying(c, s)
  BY <1>4 DEF Write
<1>5. ASSUME NEW n \in 0..MaxSends, Store(c, s, n)
      PROVE  /\ UNCHANGED copies
             /\ last' = last
             /\ result'[c][s] = "ok" => last[c][s] = "ok"
  BY <1>5 DEF Store
<1> QED BY <1>1, <1>2, <1>3, <1>4, <1>5 DEF LeafStep

LEMMA TrailStep == ASSUME Inv, [Next]_vars PROVE Trail'
<1> USE DEF exporterVars, callVars, leafVars
<1>0. TypeOK /\ Progress /\ Trail
  BY DEF Inv
<1>1. CASE UNCHANGED <<carried, last, result, copies>>
  BY <1>0, <1>1 DEF Trail
<1>2. ASSUME NEW p \in Payloads, GiveUp(p) PROVE Trail'
  BY <1>1, <1>2 DEF GiveUp
<1>3. ASSUME NEW c \in Calls, PassDeadline(c) \/ Reject(c) \/ Consume(c) \/ Answer(c)
      PROVE  Trail'
  BY <1>1, <1>3 DEF PassDeadline, Reject, Consume, Answer
<1>4. ASSUME NEW p \in Payloads, NEW c \in Calls, Export(p, c) PROVE Trail'
  <2>1. UNCHANGED <<last, result, copies>>
    BY <1>4 DEF Export
  <2>2. \A d \in Calls : d # c => carried'[d] = carried[d]
    BY <1>0, <1>4 DEF Export, TypeOK
  <2>3. \A s \in Leaves : "ok" \notin {last[c][s], result[c][s]}
    <3>1. Fits(c) /\ pc[c] = "idle"
      BY <1>0, <1>4 DEF Export, Progress
    <3> QED BY <3>1 DEF Fits
  <2> QED BY <1>0, <2>1, <2>2, <2>3 DEF Trail
<1>5. ASSUME NEW c \in Calls, NEW s \in Leaves, LeafStep(c, s) PROVE Trail'
  <2>1. /\ carried' = carried
        /\ \A d \in Calls, t \in Leaves :
             d # c \/ t # s => last'[d][t] = last[d][t] /\ result'[d][t] = result[d][t]
    BY <1>0, <1>5, LeafStepFrame
  <2>2. /\ \A p \in Payloads, t \in Leaves : copies[p][t] > 0 => copies'[p][t] > 0
        /\ Copying(c, s) => copies'[carried[c]][s] > 0
        /\ \A p \in Payloads, t \in Leaves : copies'[p][t] > 0 => p \notin Malformed
    <3>1. CASE UNCHANGED copies /\ ~Copying(c, s)
      BY <1>0, <3>1 DEF Trail
    <3>2. CASE Copying(c, s)
      <4>1. /\ carried[c] \in Payloads \ Malformed
            /\ \A p \in Payloads, t \in Leaves :
                 copies'[p][t] = IF p = carried[c] /\ t = s THEN copies[p][t] + 1
                                                            ELSE copies[p][t]
        BY <1>0, <3>2, CopiedMeans DEF Copying
      <4>2. \A p \in Payloads, t \in Leaves : copies[p][t] \in Nat
        BY <1>0 DEF TypeOK
      <4> QED BY <1>0, <4>1, <4>2 DEF Trail
    <3> QED BY <1>0, <1>5, <3>1, <3>2, LeafStepCopies
  <2>3. ASSUME NEW d \in Calls, NEW t \in Leaves \ Unsure, "ok" \in {last[d][t], result[d][t]}
        PROVE  copies'[carried[d]][t] > 0
    <3>1. Fits(d)
      BY <1>0 DEF Progress
    <3>2. carried[d] \in Payloads
      BY <2>3, <3>1 DEF Fits
    <3> QED BY <1>0, <2>2, <2>3, <3>2 DEF Trail
  <2>4. s \notin Unsure /\ "ok" \in {last'[c][s], result'[c][s]} => copies'[carried[c]][s] > 0
    BY <1>0, <1>5, <2>2, <2>3, LeafStepCopies
  <2> QED BY <2>1, <2>2, <2>3, <2>4 DEF Trail
<1>6. CASE UNCHANGED vars
  BY <1>1, <1>6 DEF vars
<1> QED BY <1>2, <1>3, <1>4, <1>5, <1>6 DEF Next, Quiet

\* Hearing of a call concerns the payload it is awaited for, if any.
LEMMA HearMeans ==
  ASSUME TypeOK, Awaited, NEW c \in Calls, NEW news, carried[c] \in Payloads,
         Hear(c, news)
  PROVE  \A p \in Payloads :
           /\ waiting'[p] = IF waiting[p] = c THEN NoCall ELSE waiting[p]
           /\ status'[p] = IF waiting[p] = c THEN news ELSE status[p]
<1>1. \A p \in Payloads : waiting[p] = c => p = carried[c]
  BY DeliveryAssumption DEF Awaited
<1>2. CASE waiting[carried[c]] = c
  <2>1. /\ waiting' = [waiting EXCEPT ![carried[c]] = NoCall]
        /\ status' = [status EXCEPT ![carried[c]] = news]
    BY <1>2 DEF Hear
  <2> QED BY <1>1, <1>2, <2>1 DEF TypeOK
<1>3. CASE waiting[carried[c]] # c
  <2>1. UNCHANGED <<waiting, status>>
    BY <1>3 DEF Hear, exporterVars
  <2> QED BY <1>1, <1>3, <2>1
<1> QED BY <1>2, <1>3

LEMMA AwaitedStep == ASSUME Inv, [Next]_vars PROVE Awaited'
<1> USE DEF exporterVars, callVars
<1>0. TypeOK /\ Progress /\ Awaited
  BY DEF Inv
<1>1. CASE UNCHANGED <<exporterVars, carried, pc>>
  BY <1>0, <1>1 DEF Awaited
<1>2. ASSUME NEW p \in Payloads, GiveUp(p) PROVE Awaited'
  BY <1>0, <1>2 DEF GiveUp, Awaited, TypeOK
<1>3. ASSUME NEW c \in Calls, PassDeadline(c) PROVE Awaited'
  BY <1>1, <1>3 DEF PassDeadline
<1>4. ASSUME NEW p \in Payloads, NEW c \in Calls, Export(p, c) PROVE Awaited'
  BY <1>0, <1>4 DEF Export, Awaited, TypeOK
<1>5. ASSUME NEW c \in Calls, NEW news,
             pc[c] \in {"received", "consuming"}, Hear(c, news),
             news = "refused" => carried[c] \in Malformed,
             \A d \in Calls : d # c => pc'[d] = pc[d],
             carried' = carried
      PROVE  Awaited'
  <2>1. carried[c] \in Payloads
    BY <1>0, <1>5 DEF Progress, Fits
  <2>2. \A p \in Payloads :
          /\ waiting'[p] = IF waiting[p] = c THEN NoCall ELSE waiting[p]
          /\ status'[p] = IF waiting[p] = c THEN news ELSE status[p]
    BY <1>0, <1>5, <2>1, HearMeans
  <2>3. \A p \in Payloads : waiting[p] \in Calls \cup {NoCall}
    BY <1>0 DEF TypeOK
  <2> QED BY <1>0, <1>5, <2>2, <2>3, DeliveryAssumption DEF Awaited
<1>6. ASSUME NEW c \in Calls, Reject(c) PROVE Awaited'
  BY <1>0, <1>5, <1>6 DEF Reject, TypeOK
<1>7. ASSUME NEW c \in Calls, Answer(c) PROVE Awaited'
  BY <1>0, <1>5, <1>7 DEF Answer, TypeOK
<1>8. ASSUME NEW c \in Calls, Consume(c) PROVE Awaited'
  BY <1>0, <1>8 DEF Consume, Awaited, TypeOK
<1>9. ASSUME NEW c \in Calls, NEW s \in Leaves, LeafStep(c, s) PROVE Awaited'
  BY <1>0, <1>1, <1>9, LeafStepFrame
<1>10. CASE UNCHANGED vars
  BY <1>1, <1>10 DEF vars
<1> QED BY <1>2, <1>3, <1>4, <1>6, <1>7, <1>8, <1>9, <1>10 DEF Next, Quiet

LEMMA KnownStep == ASSUME Inv, [Next]_vars PROVE Known'
<1> USE DEF exporterVars, callVars
<1>0. TypeOK /\ Progress /\ Awaited /\ Known
  BY DEF Inv
<1>1. CASE UNCHANGED <<exporterVars, callVars>>
  BY <1>0, <1>1 DEF Known, Heard
<1>2. ASSUME NEW p \in Payloads, GiveUp(p) PROVE Known'
  BY <1>2 DEF GiveUp, Known, Heard
<1>3. ASSUME NEW c \in Calls, PassDeadline(c) PROVE Known'
  BY <1>3 DEF PassDeadline, Known, Heard
<1>4. ASSUME NEW p \in Payloads, NEW c \in Calls, Export(p, c) PROVE Known'
  <2> SUFFICES ASSUME Heard' PROVE Known'
    BY DEF Known
  <2>1. Heard /\ status' = status
    BY <1>4 DEF Export, Heard
  <2>2. \A d \in Calls : /\ pc[d] \in {"received", "consuming"} => waiting[carried[d]] = d
                         /\ pc[d] # "idle" => carried[d] \in Payloads
    BY <1>0, <2>1 DEF Known, Progress, Fits
  <2>3. /\ waiting[p] = NoCall /\ waiting'[p] = c
        /\ \A q \in Payloads : q # p => waiting'[q] = waiting[q]
        /\ carried'[c] = p /\ pc'[c] = "received"
        /\ \A d \in Calls : d # c => carried'[d] = carried[d] /\ pc'[d] = pc[d]
    BY <1>0, <1>4 DEF Export, TypeOK
  <2>4. ASSUME NEW d \in Calls, pc'[d] \in {"received", "consuming"}
        PROVE  waiting'[carried'[d]] = d
    BY <2>2, <2>3, <2>4, DeliveryAssumption
  <2> QED BY <1>0, <2>1, <2>3, <2>4 DEF Known
<1>5. ASSUME NEW c \in Calls, NEW news, Heard,
             pc[c] \in {"received", "consuming"}, Hear(c, news),
             \A d \in Calls : d # c => pc'[d] = pc[d],
             pc'[c] \notin {"received", "consuming"},
             pc'[c] = "ok" => news = "settled",
             carried' = carried
      PROVE  Known'
  <2>1. carried[c] \in Payloads
    BY <1>0, <1>5 DEF Progress, Fits
  <2>2. \A p \in Payloads :
          /\ waiting'[p] = IF waiting[p] = c THEN NoCall ELSE waiting[p]
          /\ status'[p] = IF waiting[p] = c THEN news ELSE status[p]
    BY <1>0, <1>5, <2>1, HearMeans
  <2>3. waiting[carried[c]] = c /\ status[carried[c]] = "open"
    BY <1>0, <1>5, <2>1, DeliveryAssumption DEF Known, Awaited
  <2>4. ASSUME NEW d \in Calls, d # c, pc[d] \in {"received", "consuming"}
        PROVE  waiting'[carried'[d]] = d
    <3>1. carried[d] \in Payloads /\ waiting[carried[d]] = d
      BY <1>0, <1>5, <2>4 DEF Progress, Fits, Known
    <3> QED BY <1>5, <2>2, <2>4, <3>1
  <2>5. ASSUME NEW d \in Calls, d # c, pc[d] = "ok"
        PROVE  carried[d] # carried[c] /\ status'[carried[d]] = "settled"
    <3>1. carried[d] \in Payloads /\ status[carried[d]] = "settled"
      BY <1>0, <1>5, <2>5 DEF Progress, Fits, Known
    <3>2. waiting[carried[d]] # c
      BY <1>0, <3>1, DeliveryAssumption DEF Awaited
    <3> QED BY <2>2, <2>3, <3>1, <3>2
  <2>6. pc'[c] = "ok" => status'[carried[c]] = "settled"
    BY <1>5, <2>1, <2>2, <2>3
  <2> QED BY <1>0, <1>5, <2>4, <2>5, <2>6 DEF Known
<1>6. ASSUME NEW c \in Calls, Reject(c) PROVE Known'
  <2> SUFFICES ASSUME Heard' PROVE Known'
    BY DEF Known
  <2>1. Heard
    BY <1>6 DEF Reject, Heard
  <2> QED BY <1>0, <1>5, <1>6, <2>1 DEF Reject, TypeOK
<1>7. ASSUME NEW c \in Calls, Answer(c) PROVE Known'
  <2> SUFFICES ASSUME Heard' PROVE Known'
    BY DEF Known
  <2>1. Heard /\ c \notin late
    BY <1>7 DEF Answer, Heard
  <2> QED BY <1>0, <1>5, <1>7, <2>1 DEF Answer, TypeOK
<1>8. ASSUME NEW c \in Calls, Consume(c) PROVE Known'
  BY <1>0, <1>8 DEF Consume, Known, Heard, TypeOK
<1>9. ASSUME NEW c \in Calls, NEW s \in Leaves, LeafStep(c, s) PROVE Known'
  BY <1>0, <1>1, <1>9, LeafStepFrame
<1>10. CASE UNCHANGED vars
  BY <1>1, <1>10 DEF vars
<1> QED BY <1>2, <1>3, <1>4, <1>6, <1>7, <1>8, <1>9, <1>10 DEF Next, Quiet

-----------------------------------------------------------------------------
(* The theorems. *)

LEMMA Invariance == Spec => []Inv
<1>1. Inv /\ [Next]_vars => Inv'
  BY TypeStep, MadeStep, BoundedStep, ProgressStep, MetersStep, TrailStep, AwaitedStep, KnownStep DEF Inv
<1> QED BY <1>1, InvInit, PTL DEF Spec

\* Every variable has its type; a gauge is never lowered below zero
\* (metrics.go:136-153).
THEOREM Types == Spec => []TypeOK
<1>1. Inv => TypeOK
  BY DEF Inv
<1> QED BY <1>1, Invariance, PTL

\* The meters of every sink tell of its calls, and the receiver's of its requests,
\* whatever the interleaving of the calls.
THEOREM MetersTrue == Spec => []MetersAddUp
<1>1. Inv => MetersAddUp
  BY DEF Inv
<1> QED BY <1>1, Invariance, PTL

LEMMA AtMostOneElement ==
  ASSUME NEW S, \A x, y \in S : x = y
  PROVE  Cardinality(S) <= 1
<1>1. CASE S = {}
  BY <1>1, FS_EmptySet
<1>2. CASE S # {}
  <2>1. PICK x : S = {x}
    BY <1>2
  <2> QED BY <2>1, FS_Singleton
<1> QED BY <1>1, <1>2

\* As long as the exporter hears every answer, it sends no payload again that a
\* sink has taken (fanout.go:14-22).
THEOREM OneCopy == Spec => []OneCopyEach
<1>1. ASSUME Inv, Heard, NEW p \in Payloads, NEW s \in Leaves,
             NEW c \in CallsTakenBy(p, s), NEW d \in CallsTakenBy(p, s)
      PROVE  c = d
  <2>1. ASSUME NEW e \in Calls, carried[e] = p, result[e][s] = "ok"
        PROVE  pc[e] \in {"consuming", "ok"}
    <3>1. Fits(e) /\ pc[e] \in {"idle", "received", "consuming", "rejected", "ok", "error"}
      BY <1>1 DEF Inv, Progress, TypeOK
    <3>2. leaf[e][s] # "off" /\ pc[e] # "error"
      BY <2>1, <3>1 DEF Fits, Taken
    <3> QED BY <3>1, <3>2 DEF Fits
  <2>2. /\ c \in Calls /\ carried[c] = p /\ pc[c] \in {"consuming", "ok"}
        /\ d \in Calls /\ carried[d] = p /\ pc[d] \in {"consuming", "ok"}
    BY <2>1 DEF CallsTakenBy
  <2>3. \A e \in {c, d} :
          /\ pc[e] = "consuming" => waiting[p] = e /\ status[p] = "open"
          /\ pc[e] = "ok" => status[p] = "settled"
    BY <1>1, <2>2, DeliveryAssumption DEF Inv, Known, Awaited
  <2>4. CASE pc[c] = "consuming"
    BY <2>2, <2>3, <2>4
  <2>5. CASE pc[c] = "ok"
    <3>1. pc[d] = "ok"
      BY <2>2, <2>3, <2>5
    <3> QED BY <1>1, <2>2, <2>5, <3>1 DEF Inv, Known
  <2> QED BY <2>2, <2>4, <2>5
<1>2. Inv => OneCopyEach
  BY <1>1, AtMostOneElement DEF OneCopyEach
<1> QED BY <1>2, Invariance, PTL

-----------------------------------------------------------------------------
(* The retry counters. *)

\* What the retry counter needs in order to be right: no two calls are inside a
\* sink that retries at once, and no exporter gives up (metered.go:66-73).
Apart ==
  /\ ended = {}
  /\ \A s \in Retrying : \A c, d \in Calls : Inside(c, s) /\ Inside(d, s) => c = d

\* The retries of a call that left the leaf.
Counted(c, s) == IF leaf[c][s] = "done" THEN Repeats(c, s) ELSE 0

CountedBy(s) == [c \in Calls |-> Counted(c, s)]

\* Only a leaf that retries has sent, once it was called; what it stored is the count
\* of the call that returns; and those that left have been added up.
OwnCounts ==
  /\ \A c \in Calls, s \in Leaves :
       /\ leaf[c][s] \in {"off", "start"} \/ s \notin Retrying => sends[c][s] = 0
       /\ s \in Retrying /\ leaf[c][s] = "return" => lastCount[s] = Repeats(c, s)
  /\ \A s \in Leaves : retried[s] = Total(CountedBy(s))

LEMMA CountedType ==
  ASSUME TypeOK, NEW s \in Leaves
  PROVE  /\ CountedBy(s) \in [Calls -> Nat]
         /\ \A c \in Calls : Repeats(c, s) \in Nat
<1>1. ASSUME NEW c \in Calls PROVE Repeats(c, s) \in Nat /\ Counted(c, s) \in Nat
  <2>1. sends[c][s] \in 0..MaxSends
    BY DEF TypeOK
  <2> QED BY <2>1, DeliveryAssumption DEF Repeats, Counted
<1> QED BY <1>1 DEF CountedBy

\* A call that comes nearer to its sends, or returns from a leaf without retries, is
\* counted as before.
LEMMA CountsStay ==
  ASSUME OwnCounts, UNCHANGED <<sends, lastCount, retried>>,
         \A c \in Calls, s \in Leaves :
           \/ leaf'[c][s] = leaf[c][s]
           \/ leaf[c][s] \in {"off", "start"} /\ leaf'[c][s] \in {"start", "inner"}
           \/ leaf[c][s] = "inner" /\ leaf'[c][s] = "work"
           \/ s \notin Retrying /\ leaf[c][s] \in {"inner", "work"} /\ leaf'[c][s] = "return"
  PROVE  OwnCounts'
<1>1. ASSUME NEW s \in Leaves PROVE CountedBy(s)' = CountedBy(s)
  BY DEF CountedBy, Counted, Repeats
<1>2. \A s \in Leaves : retried'[s] = Total(CountedBy(s)')
  BY <1>1 DEF OwnCounts
<1>3. \A c \in Calls, s \in Leaves :
        /\ leaf'[c][s] \in {"off", "start"} \/ s \notin Retrying => sends'[c][s] = 0
        /\ s \in Retrying /\ leaf'[c][s] = "return" => lastCount'[s] = Repeats(c, s)'
  BY DEF OwnCounts, Repeats
<1> QED BY <1>2, <1>3 DEF OwnCounts

LEMMA CountsSend ==
  ASSUME TypeOK, OwnCounts, NEW c \in Calls, NEW s \in Leaves, Send(c, s)
  PROVE  OwnCounts'
<1>1. /\ leaf[c][s] = "work" /\ leaf'[c][s] = "inner" /\ s \in Retrying
      /\ UNCHANGED <<lastCount, retried>>
      /\ \A d \in Calls, t \in Leaves :
           d # c \/ t # s => sends'[d][t] = sends[d][t] /\ leaf'[d][t] = leaf[d][t]
  BY DEF Send, TypeOK, counterVars
<1>2. ASSUME NEW t \in Leaves PROVE CountedBy(t)' = CountedBy(t)
  BY <1>1 DEF CountedBy, Counted, Repeats
<1>3. \A t \in Leaves : retried'[t] = Total(CountedBy(t)')
  BY <1>1, <1>2 DEF OwnCounts
<1>4. \A d \in Calls, t \in Leaves :
        /\ leaf'[d][t] \in {"off", "start"} \/ t \notin Retrying => sends'[d][t] = 0
        /\ t \in Retrying /\ leaf'[d][t] = "return" => lastCount'[t] = Repeats(d, t)'
  BY <1>1 DEF OwnCounts, Repeats
<1> QED BY <1>3, <1>4 DEF OwnCounts

LEMMA CountsStore ==
  ASSUME TypeOK, OwnCounts, Apart, NEW c \in Calls, NEW s \in Leaves, NEW n \in 0..MaxSends,
         Store(c, s, n)
  PROVE  OwnCounts'
<1>1. /\ leaf[c][s] = "inner" /\ s \in Retrying /\ n = Repeats(c, s)
      /\ leaf'[c][s] = "return" /\ lastCount'[s] = n
      /\ UNCHANGED <<sends, retried>>
  BY DEF Store, Apart, Repeats, TypeOK, counterVars
<1>2. \A d \in Calls, t \in Leaves :
        /\ d # c \/ t # s => leaf'[d][t] = leaf[d][t]
        /\ t # s => lastCount'[t] = lastCount[t]
  BY DEF Store, TypeOK
<1>3. \A d \in Calls : leaf[d][s] = "return" => d = c
  BY <1>1 DEF Apart, Inside
<1>4. ASSUME NEW t \in Leaves PROVE CountedBy(t)' = CountedBy(t)
  BY <1>1, <1>2 DEF CountedBy, Counted, Repeats
<1>5. \A t \in Leaves : retried'[t] = Total(CountedBy(t)')
  BY <1>1, <1>4 DEF OwnCounts
<1>6. ASSUME NEW d \in Calls, NEW t \in Leaves
      PROVE  /\ leaf'[d][t] \in {"off", "start"} \/ t \notin Retrying => sends'[d][t] = 0
             /\ t \in Retrying /\ leaf'[d][t] = "return" => lastCount'[t] = Repeats(d, t)'
  BY <1>1, <1>2, <1>3 DEF OwnCounts, Repeats
<1> QED BY <1>5, <1>6 DEF OwnCounts

LEMMA CountsFinish ==
  ASSUME IsFiniteSet(Calls), TypeOK, TypeOK', OwnCounts, NEW c \in Calls, NEW s \in Leaves,
         Finish(c, s)
  PROVE  OwnCounts'
<1>1. /\ leaf[c][s] = "return" /\ leaf'[c][s] = "done"
      /\ retried'[s] = retried[s] + (IF s \in Retrying THEN lastCount[s] ELSE 0)
      /\ UNCHANGED <<sends, lastCount>>
  BY DEF Finish, TypeOK
<1>2. /\ \A d \in Calls, t \in Leaves : d # c \/ t # s => leaf'[d][t] = leaf[d][t]
      /\ \A t \in Leaves : t # s => retried'[t] = retried[t]
  BY DEF Finish, TypeOK
<1>3. retried'[s] = Total(CountedBy(s)')
  <2>1. CountedBy(s) \in [Calls -> Nat] /\ CountedBy(s)' \in [Calls -> Nat]
    <3>1. ASSUME NEW d \in Calls PROVE Counted(d, s)' \in Nat
      <4>1. sends'[d][s] \in 0..MaxSends
        BY DEF TypeOK
      <4> QED BY <4>1, DeliveryAssumption DEF Repeats, Counted
    <3>2. CountedBy(s)' \in [Calls -> Nat]
      BY <3>1 DEF CountedBy
    <3> QED BY <3>2, CountedType
  <2>2. /\ CountedBy(s)[c] = 0
        /\ CountedBy(s)'[c] = Repeats(c, s)
        /\ \A d \in Calls \ {c} : CountedBy(s)'[d] = CountedBy(s)[d]
    BY <1>1, <1>2 DEF CountedBy, Counted, Repeats
  <2>3. Total(CountedBy(s)') = Total(CountedBy(s)) + Repeats(c, s)
    BY <2>1, <2>2, TotalGrows
  <2>4. Repeats(c, s) = IF s \in Retrying THEN lastCount[s] ELSE 0
    BY <1>1 DEF OwnCounts, Repeats
  <2> QED BY <1>1, <2>3, <2>4 DEF OwnCounts
<1>4. ASSUME NEW t \in Leaves, t # s PROVE retried'[t] = Total(CountedBy(t)')
  <2>1. CountedBy(t)' = CountedBy(t)
    BY <1>1, <1>2, <1>4 DEF CountedBy, Counted, Repeats
  <2> QED BY <1>2, <1>4, <2>1 DEF OwnCounts
<1>5. ASSUME NEW d \in Calls, NEW t \in Leaves
      PROVE  /\ leaf'[d][t] \in {"off", "start"} \/ t \notin Retrying => sends'[d][t] = 0
             /\ t \in Retrying /\ leaf'[d][t] = "return" => lastCount'[t] = Repeats(d, t)'
  BY <1>1, <1>2 DEF OwnCounts, Repeats
<1> QED BY <1>3, <1>4, <1>5 DEF OwnCounts

LEMMA CountsStep ==
  ASSUME IsFiniteSet(Calls), Inv, TypeOK', OwnCounts, Apart, [Next]_vars
  PROVE  OwnCounts'
<1>0. TypeOK /\ Progress
  BY DEF Inv
<1>1. CASE UNCHANGED <<leaf, sends, lastCount, retried>>
  BY <1>1, CountsStay
<1>2. ASSUME NEW c \in Calls, Consume(c) PROVE OwnCounts'
  <2>1. /\ \A s \in Leaves : leaf[c][s] = "off" /\ leaf'[c][s] = "start"
        /\ \A d \in Calls \ {c} : leaf'[d] = leaf[d]
        /\ UNCHANGED <<sends, lastCount, retried>>
    BY <1>0, <1>2 DEF Consume, Progress, Fits, TypeOK, counterVars
  <2> QED BY <2>1, CountsStay
<1>3. ASSUME NEW c \in Calls, NEW s \in Leaves, LeafStep(c, s) PROVE OwnCounts'
  <2>1. CASE Start(c, s)
    BY <1>0, <2>1, CountsStay DEF Start, TypeOK
  <2>6. CASE Enter(c, s)
    BY <1>0, <2>6, CountsStay DEF Enter, TypeOK, counterVars
  <2>7. CASE Decline(c, s)
    BY <1>0, <2>7, CountsStay DEF Decline, TypeOK, counterVars
  <2>2. ASSUME NEW ok \in BOOLEAN, Write(c, s, ok) PROVE OwnCounts'
    BY <1>0, <2>2, CountsStay DEF Write, TypeOK, counterVars
  <2>3. CASE Send(c, s)
    BY <1>0, <2>3, CountsSend
  <2>4. ASSUME NEW n \in 0..MaxSends, Store(c, s, n) PROVE OwnCounts'
    BY <1>0, <2>4, CountsStore
  <2>5. CASE Finish(c, s)
    BY <1>0, <2>5, CountsFinish
  <2> QED BY <1>3, <2>1, <2>2, <2>3, <2>4, <2>5, <2>6, <2>7 DEF LeafStep
<1>4. ASSUME NEW p \in Payloads, GiveUp(p) \/ \E c \in Calls : Export(p, c)
      PROVE  UNCHANGED <<leaf, sends, lastCount, retried>>
  BY <1>4 DEF GiveUp, Export, leafVars, counterVars
<1>5. ASSUME NEW c \in Calls, PassDeadline(c) \/ Reject(c) \/ Answer(c)
      PROVE  UNCHANGED <<leaf, sends, lastCount, retried>>
  BY <1>5 DEF PassDeadline, Reject, Answer, leafVars, counterVars
<1>6. CASE UNCHANGED vars
  BY <1>1, <1>6 DEF vars, leafVars, counterVars
<1> QED BY <1>1, <1>2, <1>3, <1>4, <1>5, <1>6 DEF Next, Quiet

\* Where the calls of a signal do not overlap in a forwarding sink and no exporter
\* gives up, its retry counter is the number of retries issued (metrics.go:86).
\* DL_retries shows that it is not where they overlap.
THEOREM RetriesOfCallsApart ==
  ASSUME IsFiniteSet(Calls) PROVE Spec /\ []Apart => []RetriesAddUp
<1>1. Init => OwnCounts
  <2> SUFFICES ASSUME Init PROVE OwnCounts
    OBVIOUS
  <2>1. \A s \in Leaves : CountedBy(s) = [c \in Calls |-> 0]
    BY DEF Init, CallLeaf, CountedBy, Counted
  <2>2. \A s \in Leaves : retried[s] = Total(CountedBy(s))
    BY <2>1, TotalZero DEF Init
  <2>3. \A c \in Calls, s \in Leaves : sends[c][s] = 0 /\ leaf[c][s] = "off"
    BY DEF Init, CallLeaf
  <2> QED BY <2>2, <2>3 DEF OwnCounts
<1>2. Inv /\ Inv' /\ OwnCounts /\ Apart /\ [Next]_vars => OwnCounts'
  BY CountsStep DEF Inv
<1>3. Inv /\ OwnCounts => RetriesAddUp
  <2> SUFFICES ASSUME Inv, OwnCounts, AllOver, NEW s \in Leaves
               PROVE  retried[s] = FoldFunction(+, 0, [c \in Calls |-> Repeats(c, s)])
    BY DEF RetriesAddUp
  <2>1. ASSUME NEW c \in Calls PROVE Counted(c, s) = Repeats(c, s)
    <3>1. leaf[c][s] = "done" \/ leaf[c][s] = "off"
      BY DEF Inv, Progress, Fits, AllOver, Over
    <3> QED BY <3>1 DEF OwnCounts, Counted, Repeats
  <2>2. CountedBy(s) = [c \in Calls |-> Repeats(c, s)]
    BY <2>1 DEF CountedBy
  <2> QED BY <2>2 DEF OwnCounts, Total
<1> QED BY <1>1, <1>2, <1>3, Invariance, PTL DEF Spec

-----------------------------------------------------------------------------
(* What the exporter is promised. *)

\* The sinks that have taken a payload, and those that have claimed so.
Takers(p) == {s \in Leaves : copies[p][s] > 0}
Claimers(p) == {s \in Leaves : CallsTakenBy(p, s) # {}}

\* What the abstract variables are.
LEMMA PromiseMeans ==
  /\ [p \in Payloads |-> {s \in Leaves : copies[p][s] > 0}] = [p \in Payloads |-> Takers(p)]
  /\ [p \in Payloads |-> {s \in Leaves : CallsTakenBy(p, s) # {}}]
       = [p \in Payloads |-> Claimers(p)]
BY DEF Takers, Claimers

LEMMA PromiseMeansNext ==
  /\ [p \in Payloads |-> {s \in Leaves : copies[p][s] > 0}]' = [p \in Payloads |-> Takers(p)']
  /\ [p \in Payloads |-> {s \in Leaves : CallsTakenBy(p, s) # {}}]'
       = [p \in Payloads |-> Claimers(p)']
BY DEF Takers, Claimers

LEMMA TakersSame ==
  ASSUME UNCHANGED copies
  PROVE  \A p \in Payloads : Takers(p)' = Takers(p)
BY DEF Takers

LEMMA TakersGrow ==
  ASSUME TypeOK, Progress, NEW c \in Calls, NEW s \in Leaves, Copying(c, s)
  PROVE  \A p \in Payloads :
           Takers(p)' = IF p = carried[c] THEN Takers(p) \cup {s} ELSE Takers(p)
<1>1. \A p \in Payloads, t \in Leaves :
        copies'[p][t] = IF p = carried[c] /\ t = s THEN copies[p][t] + 1
                                                   ELSE copies[p][t]
  BY CopiedMeans DEF Copying
<1>2. \A p \in Payloads, t \in Leaves : copies[p][t] \in Nat
  BY DEF TypeOK
<1>3. ASSUME NEW p \in Payloads
      PROVE  Takers(p)' = IF p = carried[c] THEN Takers(p) \cup {s} ELSE Takers(p)
  <2>1. CASE p = carried[c]
    BY <1>1, <1>2, <2>1 DEF Takers
  <2>2. CASE p # carried[c]
    BY <1>1, <2>2 DEF Takers
  <2> QED BY <2>1, <2>2
<1> QED BY <1>3

\* A sink claims a payload when it reports success, and never takes it back.
LEMMA ClaimersSame ==
  ASSUME \A d \in Calls, s \in Leaves :
           /\ result'[d][s] = "ok" <=> result[d][s] = "ok"
           /\ result[d][s] = "ok" => carried'[d] = carried[d]
  PROVE  \A p \in Payloads : Claimers(p)' = Claimers(p)
<1>1. \A p \in Payloads, s \in Leaves : CallsTakenBy(p, s)' = CallsTakenBy(p, s)
  BY DEF CallsTakenBy
<1> QED BY <1>1 DEF Claimers

LEMMA ClaimersGrow ==
  ASSUME NEW c \in Calls, NEW s \in Leaves, carried' = carried, result'[c][s] = "ok",
         \A d \in Calls, t \in Leaves : d # c \/ t # s => result'[d][t] = result[d][t]
  PROVE  \A p \in Payloads :
           Claimers(p)' = IF p = carried[c] THEN Claimers(p) \cup {s} ELSE Claimers(p)
<1>1. ASSUME NEW p \in Payloads, NEW t \in Leaves, p # carried[c] \/ t # s
      PROVE  CallsTakenBy(p, t)' = CallsTakenBy(p, t)
  BY <1>1 DEF CallsTakenBy
<1>2. c \in CallsTakenBy(carried[c], s)'
  BY DEF CallsTakenBy
<1>3. ASSUME NEW p \in Payloads
      PROVE  Claimers(p)' = IF p = carried[c] THEN Claimers(p) \cup {s} ELSE Claimers(p)
  <2>1. CASE p = carried[c]
    BY <1>1, <1>2, <2>1 DEF Claimers
  <2>2. CASE p # carried[c]
    BY <1>1, <2>2 DEF Claimers
  <2> QED BY <2>1, <2>2
<1> QED BY <1>3

\* What a step of a leaf means for them.
LEMMA LeafStepClaims ==
  ASSUME Inv, NEW c \in Calls, NEW s \in Leaves, LeafStep(c, s)
  PROVE  /\ carried[c] \in Payloads \ Malformed
         /\ result[c][s] = "ok" => result'[c][s] = "ok"
<1> USE DEF TypeOK
<1>0. TypeOK /\ Fits(c)
  BY DEF Inv, Progress
<1>1. CASE Start(c, s) \/ Enter(c, s) \/ Decline(c, s) \/ Send(c, s) \/ Finish(c, s)
  BY <1>0, <1>1 DEF Start, Enter, Decline, Send, Finish, Fits
<1>2. ASSUME NEW ok \in BOOLEAN, Write(c, s, ok)
      PROVE  /\ carried[c] \in Payloads \ Malformed
             /\ result[c][s] = "ok" => result'[c][s] = "ok"
  BY <1>0, <1>2 DEF Write, Fits
<1>3. ASSUME NEW n \in 0..MaxSends, Store(c, s, n)
      PROVE  /\ carried[c] \in Payloads \ Malformed
             /\ result[c][s] = "ok" => result'[c][s] = "ok"
  BY <1>0, <1>3 DEF Store, Fits
<1> QED BY <1>1, <1>2, <1>3 DEF LeafStep

\* A leaf that copies a payload takes it, and one that reports success claims it, in
\* the terms of AtLeastOnce.
LEMMA LeafStepPromised ==
  ASSUME Inv, NEW c \in Calls, NEW s \in Leaves, LeafStep(c, s)
  PROVE  [SettledWasTaken!PromiseNext]_(SettledWasTaken!promiseVars)
<1> DEFINE taken == [p \in Payloads |-> Takers(p)]
           claimed == [p \in Payloads |-> Claimers(p)]
<1>1. /\ carried[c] \in Payloads \ Malformed
      /\ result[c][s] = "ok" => result'[c][s] = "ok"
  BY LeafStepClaims
<1>2. /\ status' = status /\ carried' = carried
      /\ \A d \in Calls, t \in Leaves : d # c \/ t # s => result'[d][t] = result[d][t]
  BY LeafStepFrame DEF Inv, exporterVars, callVars
<1>3. PICK q \in Payloads : q = carried[c]
  BY <1>1
<1>4. status[q] # "refused"
  BY <1>1, <1>3 DEF Inv, Awaited
<1>5. \/ taken' = [taken EXCEPT ![q] = @ \cup {s}]
      \/ taken' = taken /\ UNCHANGED copies
  <2>1. CASE Copying(c, s)
    BY <1>3, <2>1, TakersGrow DEF Inv
  <2>2. CASE UNCHANGED copies
    BY <2>2, TakersSame
  <2> QED BY <2>1, <2>2, LeafStepCopies DEF Inv
<1>6. CASE result'[c][s] = "ok"
  <2>1. claimed' = [claimed EXCEPT ![q] = @ \cup {s}]
    <3>1. \A p \in Payloads :
            Claimers(p)' = IF p = carried[c] THEN Claimers(p) \cup {s} ELSE Claimers(p)
      BY <1>2, <1>6, ClaimersGrow
    <3> QED BY <1>3, <3>1
  <2>2. \/ taken' = [taken EXCEPT ![q] = @ \cup {s}]
        \/ taken' = taken /\ s \in taken[q] \cup Unsure
    <3>1. CASE s \in Unsure
      BY <1>5, <3>1
    <3>2. CASE Copying(c, s)
      BY <1>3, <3>2, TakersGrow DEF Inv
    <3>3. CASE s \notin Unsure /\ "ok" \in {last[c][s], result[c][s]}
      <4>1. s \in Takers(q)
        BY <1>3, <3>3 DEF Inv, Trail, Takers
      <4> QED BY <1>5, <4>1
    <3> QED BY <1>6, <3>1, <3>2, <3>3, LeafStepCopies DEF Inv
  <2>3. SettledWasTaken!Claim(q, s)
    BY <1>2, <1>4, <2>1, <2>2, PromiseMeans, PromiseMeansNext DEF SettledWasTaken!Claim
  <2> QED BY <2>3 DEF SettledWasTaken!PromiseNext
<1>7. CASE result'[c][s] # "ok"
  <2>1. claimed' = claimed
    BY <1>1, <1>2, <1>7, ClaimersSame
  <2>2. CASE taken' = taken
    BY <1>2, <2>1, <2>2, PromiseMeans, PromiseMeansNext DEF SettledWasTaken!promiseVars
  <2>3. CASE taken' = [taken EXCEPT ![q] = @ \cup {s}]
    <3>1. SettledWasTaken!Take(q, s)
      BY <1>2, <1>4, <2>1, <2>3, PromiseMeans, PromiseMeansNext DEF SettledWasTaken!Take
    <3> QED BY <3>1 DEF SettledWasTaken!PromiseNext
  <2> QED BY <1>5, <2>2, <2>3
<1> QED BY <1>6, <1>7

\* An answer that is heard settles the payload, refuses it or changes nothing.
LEMMA HearTells ==
  ASSUME Inv, NEW c \in Calls, NEW news \in {"open", "settled", "refused"},
         pc[c] \in {"received", "consuming"}, Hear(c, news),
         UNCHANGED <<copies, result, carried>>,
         news = "settled" => Taken(c),
         news = "refused" => carried[c] \in Malformed
  PROVE  [SettledWasTaken!PromiseNext]_(SettledWasTaken!promiseVars)
<1> DEFINE taken == [p \in Payloads |-> Takers(p)]
           claimed == [p \in Payloads |-> Claimers(p)]
           q == carried[c]
<1>1. q \in Payloads
  BY DEF Inv, Progress, Fits
<1>2. taken' = taken /\ claimed' = claimed
  BY TakersSame, ClaimersSame
<1>3. CASE waiting[q] = c /\ news # "open"
  <2>1. status[q] = "open" /\ status' = [status EXCEPT ![q] = news]
    BY <1>1, <1>3, DeliveryAssumption DEF Inv, Awaited, Hear
  <2>2. CASE news = "settled"
    <3>1. PICK s \in Leaves : result[c][s] = "ok"
      BY <2>2 DEF Taken
    <3>2. s \in Claimers(q)
      BY <3>1 DEF Claimers, CallsTakenBy
    <3>3. claimed[q] # {}
      BY <1>1, <3>2
    <3>4. SettledWasTaken!Settle(q)
      BY <1>2, <2>1, <2>2, <3>3, PromiseMeans, PromiseMeansNext DEF SettledWasTaken!Settle
    <3> QED BY <1>1, <3>4 DEF SettledWasTaken!PromiseNext
  <2>3. CASE news = "refused"
    <3>1. Takers(q) = {}
      BY <1>1, <2>3 DEF Inv, Trail, Takers
    <3>2. Claimers(q) = {}
      <4>1. ASSUME NEW d \in Calls, NEW s \in Leaves, carried[d] = q PROVE result[d][s] # "ok"
        BY <2>3, <4>1 DEF Inv, Progress, Fits
      <4> QED BY <4>1 DEF Claimers, CallsTakenBy
    <3>3. taken[q] = {} /\ claimed[q] = {}
      BY <1>1, <3>1, <3>2
    <3>4. SettledWasTaken!Refuse(q)
      BY <1>2, <2>1, <2>3, <3>3, PromiseMeans, PromiseMeansNext DEF SettledWasTaken!Refuse
    <3> QED BY <1>1, <3>4 DEF SettledWasTaken!PromiseNext
  <2> QED BY <1>3, <2>2, <2>3
<1>4. CASE waiting[q] # c \/ news = "open"
  <2>1. status' = status
    <3>1. CASE waiting[q] = c
      BY <1>1, <1>4, <3>1, DeliveryAssumption DEF Inv, TypeOK, Awaited, Hear
    <3>2. CASE waiting[q] # c
      BY <3>2 DEF Hear, exporterVars
    <3> QED BY <3>1, <3>2
  <2> QED BY <1>2, <2>1, PromiseMeans, PromiseMeansNext DEF SettledWasTaken!promiseVars
<1> QED BY <1>3, <1>4

\* Delivery implements AtLeastOnce: a payload the exporter is told is accepted was
\* claimed by at least one sink (fanout.go:14-22), one refused for good was taken by
\* none (receiver/http.go:83-87), and a sink whose word counts claims nothing that
\* it has not taken.
THEOREM SinkPromise == Spec => AtLeastOneSink
<1> USE DEF exporterVars, callVars, leafVars
<1>1. Init => SettledWasTaken!PromiseInit
  <2> SUFFICES ASSUME Init PROVE SettledWasTaken!PromiseInit
    OBVIOUS
  <2>1. \A p \in Payloads : Takers(p) = {} /\ Claimers(p) = {}
    BY DEF Init, CallLeaf, Takers, Claimers, CallsTakenBy
  <2> QED BY <2>1, PromiseMeans DEF Init, SettledWasTaken!PromiseInit
<1> DEFINE Kept == [SettledWasTaken!PromiseNext]_(SettledWasTaken!promiseVars)
<1>2. ASSUME Inv, [Next]_vars PROVE Kept
  <2> HIDE DEF Kept
  <2>1. ASSUME UNCHANGED <<status, copies, result>>,
               \A d \in Calls, s \in Leaves : result[d][s] = "ok" => carried'[d] = carried[d]
        PROVE  Kept
    <3>1. \A p \in Payloads : Takers(p)' = Takers(p) /\ Claimers(p)' = Claimers(p)
      BY <2>1, TakersSame, ClaimersSame
    <3> QED BY <2>1, <3>1, PromiseMeans, PromiseMeansNext DEF Kept, SettledWasTaken!promiseVars
  <2>2. ASSUME NEW p \in Payloads, GiveUp(p) PROVE Kept
    BY <2>1, <2>2 DEF GiveUp
  <2>3. ASSUME NEW p \in Payloads, NEW c \in Calls, Export(p, c) PROVE Kept
    <3>1. UNCHANGED <<status, copies, result>>
      BY <2>3 DEF Export
    <3>2. \A d \in Calls : d # c => carried'[d] = carried[d]
      BY <1>2, <2>3 DEF Export, Inv, TypeOK
    <3>3. \A s \in Leaves : result[c][s] # "ok"
      BY <1>2, <2>3 DEF Export, Inv, Progress, Fits
    <3> QED BY <2>1, <3>1, <3>2, <3>3
  <2>4. ASSUME NEW c \in Calls, PassDeadline(c) \/ Consume(c) PROVE Kept
    BY <2>1, <2>4 DEF PassDeadline, Consume
  <2>5. ASSUME NEW c \in Calls, Reject(c) PROVE Kept
    BY <1>2, <2>5, HearTells DEF Reject, Kept
  <2>6. ASSUME NEW c \in Calls, Answer(c) PROVE Kept
    BY <1>2, <2>6, HearTells DEF Answer, Kept
  <2>7. ASSUME NEW c \in Calls, NEW s \in Leaves, LeafStep(c, s) PROVE Kept
    BY <1>2, <2>7, LeafStepPromised DEF Kept
  <2>8. CASE UNCHANGED vars
    BY <2>1, <2>8 DEF vars
  <2> QED BY <1>2, <2>2, <2>3, <2>4, <2>5, <2>6, <2>7, <2>8 DEF Next, Quiet
<1> QED BY <1>1, <1>2, Invariance, PTL DEF Spec, AtLeastOneSink, SettledWasTaken!PromiseSpec

=============================================================================
