--------------------------- MODULE RunBlockProofs ---------------------------
(***************************************************************************)
(* Theorems about RunBlock for every set of calls, runs, traces and        *)
(* requests, and every cap, timeout and clock bound: types, the lock, the  *)
(* cap, truncation, Shutdown and idleness.                                 *)
(***************************************************************************)
EXTENDS RunBlock, TLAPS, SequenceTheorems

-----------------------------------------------------------------------------
(* Data. *)

LEMMA EmptyBufferType == EmptyBuffer \in Buffer
  BY DEF EmptyBuffer, Buffer

\* What a write shows is part of what it was given.
LEMMA WrittenPart ==
  ASSUME NEW S, NEW w \in Written(S)
  PROVE  w.items \subseteq S /\ w.whole \in BOOLEAN
<1>1. CASE w = [items |-> S, whole |-> TRUE]
  BY <1>1
<1>2. CASE w \in [items : SUBSET S, whole : {FALSE}]
  BY <1>2
<1> QED BY <1>1, <1>2 DEF Written

\* An item of a call is an item of its request.
LEMMA ItemType ==
  ASSUME TypeOK, NEW c \in Calls, NEW id \in ItemsOf(c)
  PROVE  /\ pc[c] # "idle"
         /\ req[c] \in Request
         /\ id \in ItemIds
         /\ ItemOf(id) \in Item
<1>1. pc[c] # "idle" /\ req[c] \in Request
  BY RequestAssumption DEF TypeOK, ItemsOf
<1>2. PICK n \in 1..Length(c) : id = <<c, n>>
  BY <1>1 DEF ItemsOf
<1>3. req[c].items \in Seq(Item)
  BY <1>1 DEF Request
<1>4. req[c].items[n] \in Item /\ n \in Nat \ {0}
  BY <1>2, <1>3, ElementOfSeq, LenProperties DEF Length
<1> QED BY <1>1, <1>2, <1>4 DEF ItemOf, ItemIds

\* The pending item a call is at names a run and an item of the call.
LEMMA CurrentType ==
  ASSUME TypeOK, NEW c \in Calls, k[c] <= Len(pend[c])
  PROVE  /\ Current(c) \in Pending
         /\ Current(c).run \in Runs
         /\ Current(c).id \in ItemsOf(c)
<1>1. pend[c] \in Seq(Pending) /\ k[c] \in Nat \ {0}
  BY DEF TypeOK
<1>2. k[c] \in DOMAIN pend[c] /\ pend[c][k[c]] \in Pending
  BY <1>1, ElementOfSeq, LenProperties
<1> QED BY <1>2 DEF TypeOK, OwnItems, Current, Pending

-----------------------------------------------------------------------------
(* Type correctness. *)

\* Flushing a buffer of the right type leaves the buffers and stdout typed.
LEMMA FlushType ==
  ASSUME TypeOK, NEW r \in Runs, NEW b \in Buffer,
         NEW reason \in {"root", "idle", "overflow", "shutdown"},
         Flush(r, b, reason)
  PROVE  /\ open' \subseteq Runs
         /\ buf' \in [Runs -> Buffer]
         /\ traceToRun' \in [Traces -> RunIds]
         /\ truncated' \subseteq Runs
         /\ out' \in Seq(Entry)
         /\ lost' \subseteq ItemIds
<1>1. /\ open' \subseteq Runs
      /\ buf' \in [Runs -> Buffer]
      /\ traceToRun' \in [Traces -> RunIds]
      /\ truncated' \subseteq Runs
  BY EmptyBufferType DEF TypeOK, Flush, ForgetTraces, TruncatedAfter, RunIds
<1>2. PICK w \in Written(Range(b.items)) :
        /\ out' = Append(out, BlockEntry(r, reason, FooterOutcome(b, reason), b.items, w))
        /\ lost' = lost \cup (Range(b.items) \ w.items)
  BY DEF Flush
<1>3. Range(b.items) \subseteq ItemIds /\ Len(b.items) \in Nat
  BY RangeOfSeq, LenProperties DEF Buffer
<1>4. w.items \subseteq Range(b.items) /\ w.whole \in BOOLEAN
  BY WrittenPart
<1>5. FooterOutcome(b, reason) \in Outcomes \cup {NoOutcome, "<unknown>"}
  BY DEF FooterOutcome, Buffer
<1>6. BlockEntry(r, reason, FooterOutcome(b, reason), b.items, w) \in Entry
  BY <1>3, <1>4, <1>5 DEF BlockEntry, Entry, RunIds
<1> QED BY <1>1, <1>2, <1>3, <1>6 DEF TypeOK

\* So does buffering one more item.
LEMMA AppendedType ==
  ASSUME TypeOK, NEW c \in Calls, pc[c] # "idle", NEW r \in Runs,
         NEW id \in ItemIds, ItemOf(id).outcome \in Outcomes \cup {NoOutcome}
  PROVE  Appended(r, id, c) \in Buffer
<1>1. buf[r] \in Buffer /\ snap[c] \in Nat
  BY DEF TypeOK
<1>2. Append(buf[r].items, id) \in Seq(ItemIds)
  BY <1>1 DEF Buffer
<1>3. LaterOf(buf[r].arrived, snap[c]) \in Nat
  BY <1>1 DEF LaterOf, Buffer
<1>4. OutcomeAfter(buf[r], req[c].signal, ItemOf(id)) \in Outcomes \cup {NoOutcome}
  BY <1>1 DEF OutcomeAfter, Buffer
<1> QED BY <1>1, <1>2, <1>3, <1>4 DEF Appended, Buffer

LEMMA TypeInit == Init => TypeOK
<1> SUFFICES ASSUME Init PROVE TypeOK
  OBVIOUS
<1>1. \A c \in Calls : ItemsOf(c) = {} /\ DOMAIN pend[c] = {}
  BY DEF Init, ItemsOf
<1> QED BY <1>1, EmptyBufferType DEF Init, TypeOK, OwnItems, InBounds, RunIds, CallStates

\* The items of a call do not change once it is made.
LEMMA ItemsKept ==
  ASSUME TypeOK, NEW c \in Calls,
         \/ /\ pc[c] = "idle"
            /\ \E q \in Requests : req' = [req EXCEPT ![c] = q]
            /\ \E p \in CallStates : pc' = [pc EXCEPT ![c] = p]
         \/ /\ pc[c] # "idle"
            /\ req' = req
            /\ \E p \in CallStates \ {"idle"} : pc' = [pc EXCEPT ![c] = p]
         \/ pc' = pc /\ req' = req
  PROVE  \A d \in Calls : ItemsOf(d) \subseteq ItemsOf(d)'
  BY DEF ItemsOf, Length, TypeOK

LEMMA OwnItemsKept ==
  ASSUME TypeOK, \A d \in Calls : ItemsOf(d) \subseteq ItemsOf(d)',
         UNCHANGED <<pend, byp>>
  PROVE  OwnItems'
  BY DEF TypeOK, OwnItems

\* The steps of a Consume call up to the bypass write.
LEMMA TypeEarly ==
  ASSUME TypeOK, NEW c \in Calls,
         Begin(c) \/ Refuse(c) \/ Cancel(c) \/ MapTraces(c) \/ Bucket(c) \/ Bucketed(c)
  PROVE  TypeOK'
<1>1. CASE Begin(c)
  <2>1. OwnItems'
    BY <1>1, ItemsKept, OwnItemsKept DEF Begin, CallStates
  <2> QED BY <1>1, <2>1 DEF Begin, TypeOK, InBounds, CallStates, bufferVars, outVars, sweepVars
<1>2. CASE Refuse(c)
  <2>1. OwnItems'
    BY <1>2, ItemsKept, OwnItemsKept DEF Refuse, CallStates
  <2> QED BY <1>2, <2>1 DEF Refuse, TypeOK, InBounds, CallStates, bufferVars, outVars, sweepVars
<1>3. CASE Cancel(c)
  <2>1. OwnItems'
    BY <1>3, ItemsKept, OwnItemsKept DEF Cancel
  <2> QED BY <1>3, <2>1 DEF Cancel, TypeOK, InBounds, bufferVars, outVars, sweepVars
<1>4. CASE MapTraces(c)
  <2>1. traceToRun' \in [Traces -> RunIds]
    <3> SUFFICES ASSUME NEW t \in Traces PROVE traceToRun'[t] \in RunIds
      BY <1>4 DEF MapTraces
    <3>1. req[c] \in Request
      BY <1>4, RequestAssumption DEF MapTraces, TypeOK
    <3>2. ASSUME NEW i \in DOMAIN req[c].items PROVE req[c].items[i].own \in RunIds
      <4>1. req[c].items \in Seq(Item)
        BY <3>1 DEF Request
      <4>2. req[c].items[i] \in Item
        BY <4>1, LenProperties, ElementOfSeq
      <4> QED BY <4>2 DEF Item
    <3> QED BY <1>4, <3>2 DEF MapTraces, TypeOK
  <2>2. OwnItems'
    BY <1>4, ItemsKept, OwnItemsKept DEF MapTraces, CallStates
  <2> QED BY <1>4, <2>1, <2>2 DEF MapTraces, TypeOK, InBounds, CallStates, outVars, sweepVars
<1>5. CASE Bucket(c)
  <2> DEFINE id == <<c, k[c]>>
             r  == RunIdOf(req[c].signal, ItemOf(id))
  <2>1. id \in ItemsOf(c) /\ k[c] \in Nat \ {0}
    BY <1>5 DEF Bucket, ItemsOf, TypeOK, Length
  <2>2. id \in ItemIds /\ ItemOf(id) \in Item /\ req[c].signal \in Signals
    BY <2>1, ItemType DEF Request
  <2>3. r \in RunIds
    BY <2>2 DEF RunIdOf, DeclaredRun, PointRun, RecordRun, SpanRun, FirstOf, NeedsLookup,
                Item, Signals, TypeOK
  <2>4. /\ pend' \in [Calls -> Seq(Pending)]
        /\ byp' \in [Calls -> SUBSET ItemIds]
        /\ OwnItems'
    <3>1. \A d \in Calls : ItemsOf(d)' = ItemsOf(d)
      BY <1>5 DEF Bucket, ItemsOf, Length
    <3>2. CASE byp' = [byp EXCEPT ![c] = @ \cup {id}] /\ pend' = pend
      <4>1. byp' \in [Calls -> SUBSET ItemIds]
        BY <2>2, <3>2 DEF TypeOK
      <4>2. ASSUME NEW d \in Calls PROVE byp'[d] \subseteq ItemsOf(d)
        BY <2>1, <3>2 DEF TypeOK, OwnItems
      <4>3. OwnItems'
        BY <3>1, <3>2, <4>2 DEF TypeOK, OwnItems
      <4> QED BY <3>2, <4>1, <4>3 DEF TypeOK
    <3>3. CASE /\ r # NoRun
               /\ pend' = [pend EXCEPT ![c] = Append(@, [id |-> id, run |-> r])]
               /\ byp' = byp
      <4>1. [id |-> id, run |-> r] \in Pending
        BY <2>2, <2>3, <3>3 DEF Pending, RunIds
      <4>2. pend' \in [Calls -> Seq(Pending)]
        BY <3>3, <4>1, AppendProperties DEF TypeOK
      <4>3. ASSUME NEW d \in Calls, NEW n \in DOMAIN pend'[d]
            PROVE  pend'[d][n].id \in ItemsOf(d)
        <5>1. CASE d # c
          BY <3>3, <5>1 DEF TypeOK, OwnItems
        <5>2. CASE d = c
          <6>1. pend[c] \in Seq(Pending) /\ pend'[c] = Append(pend[c], [id |-> id, run |-> r])
            BY <3>3 DEF TypeOK
          <6>2. CASE n = Len(pend[c]) + 1
            BY <2>1, <4>1, <5>2, <6>1, <6>2, AppendProperties
          <6>3. CASE n \in 1..Len(pend[c])
            <7>1. pend'[c][n] = pend[c][n]
              BY <4>1, <6>1, <6>3, AppendProperties
            <7> QED BY <5>2, <6>1, <6>3, <7>1, LenProperties DEF TypeOK, OwnItems
          <6>4. n \in 1..(Len(pend[c]) + 1)
            BY <4>1, <5>2, <6>1, AppendProperties, LenProperties
          <6> QED BY <6>1, <6>2, <6>3, <6>4, LenProperties
        <5> QED BY <5>1, <5>2
      <4>4. \A d \in Calls : byp'[d] \subseteq ItemsOf(d)
        BY <3>3 DEF TypeOK, OwnItems
      <4>5. OwnItems'
        BY <3>1, <4>3, <4>4 DEF OwnItems
      <4> QED BY <3>3, <4>2, <4>5 DEF TypeOK
    <3> QED BY <1>5, <3>2, <3>3 DEF Bucket, Bypasses
  <2> QED BY <1>5, <2>4 DEF Bucket, TypeOK, InBounds, bufferVars, outVars, sweepVars
<1>6. CASE Bucketed(c)
  <2>1. OwnItems'
    BY <1>6, ItemsKept, OwnItemsKept DEF Bucketed, AfterBypass, CallStates
  <2> QED BY <1>6, <2>1 DEF Bucketed, AfterBypass, TypeOK, InBounds, CallStates, bufferVars, outVars, sweepVars
<1> QED BY <1>1, <1>2, <1>3, <1>4, <1>5, <1>6

\* What a write of the items in S appends to stdout is an entry.
LEMMA LinesType ==
  ASSUME TypeOK, NEW r \in RunIds, NEW S \in SUBSET ItemIds,
         NEW w \in Written(S), out' = Append(out, LinesEntry(r, w))
  PROVE  out' \in Seq(Entry)
<1>1. w.items \subseteq S /\ w.whole \in BOOLEAN
  BY WrittenPart
<1>2. LinesEntry(r, w) \in Entry
  BY <1>1 DEF LinesEntry, Entry
<1> QED BY <1>2, AppendProperties DEF TypeOK

\* The writes of a Consume call, and the step into its critical section.
LEMMA TypeWrites ==
  ASSUME TypeOK, NEW c \in Calls,
         Bypass(c) \/ BypassCancelled(c) \/ Lock(c) \/ Stream(c) \/ Relock(c)
  PROVE  TypeOK'
<1>1. CASE Bypass(c)
  <2>1. OwnItems'
    BY <1>1, ItemsKept, OwnItemsKept DEF Bypass, AfterBypass, CallStates
  <2>2. byp[c] \in SUBSET ItemIds
    BY DEF TypeOK
  <2>3. out' \in Seq(Entry)
    BY <1>1, <2>2, LinesType DEF Bypass, RunIds
  <2> QED BY <1>1, <2>1, <2>3 DEF Bypass, AfterBypass, TypeOK, InBounds, CallStates, bufferVars, sweepVars
<1>2. CASE BypassCancelled(c)
  <2>1. OwnItems'
    BY <1>2, ItemsKept, OwnItemsKept DEF BypassCancelled, CallStates
  <2> QED BY <1>2, <2>1 DEF BypassCancelled, TypeOK, InBounds, CallStates, bufferVars, outVars, sweepVars
<1>3. CASE Lock(c)
  <2>1. OwnItems'
    BY <1>3, ItemsKept, OwnItemsKept DEF Lock, CallStates
  <2> QED BY <1>3, <2>1 DEF Lock, TypeOK, InBounds, CallStates, bufferVars, outVars, sweepVars
<1>4. CASE Stream(c)
  <2>1. OwnItems'
    BY <1>4, ItemsKept, OwnItemsKept DEF Stream, CallStates
  <2>2. /\ Current(c).run \in RunIds
        /\ {Current(c).id} \in SUBSET ItemIds
    BY <1>4, CurrentType DEF Stream, TypeOK, InBounds, Pending, RunIds
  <2>3. /\ out' \in Seq(Entry)
        /\ lost' \subseteq ItemIds
    <3>1. CASE c \in cancelled
      BY <1>4, <2>2, <3>1 DEF Stream, TypeOK
    <3>2. CASE c \notin cancelled
      <4>1. PICK w \in Written({Current(c).id}) :
              /\ out' = Append(out, LinesEntry(Current(c).run, w))
              /\ lost' = lost \cup ({Current(c).id} \ w.items)
        BY <1>4, <3>2 DEF Stream
      <4> QED BY <2>2, <4>1, LinesType DEF TypeOK
    <3> QED BY <3>1, <3>2
  <2>4. InBounds'
    BY <1>4 DEF Stream, TypeOK, InBounds
  <2> QED BY <1>4, <2>1, <2>3, <2>4 DEF Stream, TypeOK, InBounds, CallStates, bufferVars, sweepVars
<1>5. CASE Relock(c)
  <2>1. OwnItems'
    BY <1>5, ItemsKept, OwnItemsKept DEF Relock, CallStates
  <2> QED BY <1>5, <2>1 DEF Relock, TypeOK, InBounds, CallStates, bufferVars, outVars, sweepVars
<1> QED BY <1>1, <1>2, <1>3, <1>4, <1>5

\* The sweeper, Shutdown and the clock, the flushes aside.
LEMMA TypeOthers ==
  ASSUME TypeOK,
         \/ SweepTick \/ SweepLock \/ SweepUnlock \/ SweepExit
         \/ StopBegin \/ StopLock \/ StopEnd \/ Tick \/ UNCHANGED vars
  PROVE  TypeOK'
<1>1. OwnItems'
  <2>1. UNCHANGED <<pc, req, pend, byp>>
    BY DEF SweepTick, SweepLock, SweepUnlock, SweepExit, StopBegin, StopLock, StopEnd, Tick,
           vars, callVars
  <2> QED BY <2>1, ItemsKept, OwnItemsKept DEF ItemsOf, Length
<1> QED
  BY <1>1 DEF SweepTick, SweepLock, SweepUnlock, SweepExit, StopBegin, StopLock, StopEnd, Tick,
         TypeOK, InBounds, vars, callVars, bufferVars, outVars, sweepVars

\* The steps inside the critical section of a Consume call.
LEMMA TypeLoop ==
  ASSUME TypeOK, NEW c \in Calls,
         Divert(c) \/ Overflow(c) \/ Keep(c) \/ Finish(c) \/ Return(c)
  PROVE  TypeOK'
<1>0. OwnItems'
  <2>1. UNCHANGED <<req, pend, byp>> /\ pc[c] # "idle"
    BY DEF Divert, Overflow, Keep, Finish, Return, Appending, LeaveToStream
  <2>2. \/ pc' = pc
        \/ \E p \in CallStates \ {"idle"} : pc' = [pc EXCEPT ![c] = p]
    BY DEF Divert, Overflow, Keep, Finish, Return, LeaveToStream, CallStates
  <2> QED BY <2>1, <2>2, ItemsKept, OwnItemsKept
<1>1. CASE Divert(c)
  BY <1>0, <1>1 DEF Divert, Appending, LeaveToStream, TypeOK, InBounds, CallStates,
                    bufferVars, outVars, sweepVars
<1>2. CASE Overflow(c)
  <2>1. Current(c).run \in Runs /\ buf[Current(c).run] \in Buffer
    BY <1>2, CurrentType DEF Overflow, Appending, TypeOK
  <2>2. /\ open' \subseteq Runs
        /\ buf' \in [Runs -> Buffer]
        /\ traceToRun' \in [Traces -> RunIds]
        /\ truncated' \subseteq Runs
        /\ out' \in Seq(Entry)
        /\ lost' \subseteq ItemIds
    BY <1>2, <2>1, FlushType DEF Overflow
  <2> QED BY <1>0, <1>2, <2>2 DEF Overflow, Appending, LeaveToStream, TypeOK, InBounds,
                                  CallStates, sweepVars
<1>3. ASSUME Keep(c) \/ Finish(c)
      PROVE  /\ Current(c).run \in Runs
             /\ Appended(Current(c).run, Current(c).id, c) \in Buffer
             /\ k' \in [Calls -> Nat \ {0}]
             /\ InBounds'
  <2>1. /\ pc[c] = "append"
        /\ Current(c).run \in Runs
        /\ Current(c).id \in ItemsOf(c)
    BY <1>3, CurrentType DEF Keep, Finish, Appending
  <2>2. Current(c).id \in ItemIds /\ ItemOf(Current(c).id).outcome \in Outcomes \cup {NoOutcome}
    BY <2>1, ItemType DEF Item
  <2>3. k' = [k EXCEPT ![c] = @ + 1] /\ UNCHANGED <<pc, pend>>
    BY <1>3 DEF Keep, Finish
  <2>4. k' \in [Calls -> Nat \ {0}]
    BY <2>3 DEF TypeOK
  <2>5. InBounds'
    <3> SUFFICES ASSUME NEW d \in Calls, pc[d] \in {"stream", "again"}
                 PROVE  k'[d] <= Len(pend[d])
      BY <2>3 DEF InBounds
    <3>1. d # c
      BY <2>1
    <3> QED BY <2>3, <3>1 DEF TypeOK, InBounds
  <2> QED BY <2>1, <2>2, <2>4, <2>5, AppendedType
<1>4. CASE Keep(c)
  <2>1. open' \subseteq Runs /\ buf' \in [Runs -> Buffer]
    BY <1>3, <1>4 DEF Keep, TypeOK
  <2> QED BY <1>0, <1>3, <1>4, <2>1 DEF Keep, TypeOK, outVars, sweepVars
<1>5. CASE Finish(c)
  <2>1. /\ open' \subseteq Runs
        /\ buf' \in [Runs -> Buffer]
        /\ traceToRun' \in [Traces -> RunIds]
        /\ truncated' \subseteq Runs
        /\ out' \in Seq(Entry)
        /\ lost' \subseteq ItemIds
    BY <1>3, <1>5, FlushType DEF Finish
  <2> QED BY <1>0, <1>3, <1>5, <2>1 DEF Finish, TypeOK, sweepVars
<1>6. CASE Return(c)
  BY <1>0, <1>6 DEF Return, TypeOK, InBounds, CallStates, bufferVars, outVars, sweepVars
<1> QED BY <1>1, <1>2, <1>4, <1>5, <1>6

\* The flushes of the sweeper and of Shutdown.
LEMMA TypeFlushes ==
  ASSUME TypeOK, NEW r \in Runs, SweepFlush(r) \/ StopFlush(r)
  PROVE  TypeOK'
<1>1. UNCHANGED <<clock, mu, callVars, sweepVars, shut>>
  BY DEF SweepFlush, StopFlush
<1>2. OwnItems'
  BY <1>1, ItemsKept, OwnItemsKept DEF callVars, ItemsOf, Length
<1>3. buf[r] \in Buffer
  BY DEF TypeOK
<1>4. /\ open' \subseteq Runs
      /\ buf' \in [Runs -> Buffer]
      /\ traceToRun' \in [Traces -> RunIds]
      /\ truncated' \subseteq Runs
      /\ out' \in Seq(Entry)
      /\ lost' \subseteq ItemIds
  BY <1>3, FlushType DEF SweepFlush, StopFlush
<1> QED BY <1>1, <1>2, <1>4 DEF TypeOK, InBounds, callVars, sweepVars

LEMMA TypeStep == TypeOK /\ [Next]_vars => TypeOK'
<1> SUFFICES ASSUME TypeOK, [Next]_vars PROVE TypeOK'
  OBVIOUS
<1>1. ASSUME NEW c \in Calls, CallStep(c) PROVE TypeOK'
  BY <1>1, TypeEarly, TypeWrites, TypeLoop DEF CallStep
<1>2. CASE SweepStep
  BY <1>2, TypeOthers, TypeFlushes DEF SweepStep
<1>3. CASE StopStep
  BY <1>3, TypeOthers, TypeFlushes DEF StopStep
<1>4. CASE Tick \/ UNCHANGED vars
  BY <1>4, TypeOthers
<1> QED BY <1>1, <1>2, <1>3, <1>4 DEF Next, Terminated

\* Every reachable state is well typed, and no call indexes outside its request
\* or its pendings.
THEOREM TypeCorrect == Spec => []TypeOK
  BY TypeInit, TypeStep, PTL DEF Spec

-----------------------------------------------------------------------------
(* What a step does to the buffers and to stdout: it prints some lines at most, *)
(* buffers one item, or flushes one buffer.                                     *)

PrintsLines ==
  /\ UNCHANGED <<open, buf, truncated>>
  /\ \/ out' = out
     \/ \E e : e.kind = "lines" /\ out' = Append(out, e)

Buffers(c) ==
  /\ Appending(c)
  /\ Current(c).run \notin truncated
  /\ ~Full(Current(c).run)
  /\ open' = open \cup {Current(c).run}
  /\ buf' = [buf EXCEPT ![Current(c).run] = Appended(Current(c).run, Current(c).id, c)]
  /\ UNCHANGED <<truncated, out>>

\* Buffer b of run r is printed: what the run has buffered, or that and one
\* item more when its root span ends.
Prints(r, b, reason) ==
  /\ Flush(r, b, reason)
  /\ r \notin truncated
  /\ \/ reason = "overflow" /\ b = buf[r] /\ Full(r)
     \/ reason \in {"idle", "shutdown"} /\ b = buf[r] /\ r \in open
     \/ /\ reason = "root"
        /\ ~Full(r)
        /\ \E c \in Calls : Appending(c) /\ r = Current(c).run /\ b = Appended(r, Current(c).id, c)

Reasons == {"root", "idle", "overflow", "shutdown"}

LEMMA StepKinds ==
  ASSUME TypeOK, truncated \cap open = {}, [Next]_vars
  PROVE  \/ PrintsLines
         \/ \E c \in Calls : Buffers(c)
         \/ \E r \in Runs, reason \in Reasons : \E b \in Buffer : Prints(r, b, reason)
<1>1. ASSUME NEW c \in Calls, CallStep(c)
      PROVE  \/ PrintsLines
             \/ Buffers(c)
             \/ \E r \in Runs, reason \in Reasons : \E b \in Buffer : Prints(r, b, reason)
  <2>1. CASE Begin(c) \/ Refuse(c) \/ Cancel(c) \/ MapTraces(c) \/ Bucket(c) \/ Bucketed(c)
             \/ BypassCancelled(c) \/ Lock(c) \/ Divert(c) \/ Return(c) \/ Relock(c)
    BY <2>1 DEF Begin, Refuse, Cancel, MapTraces, Bucket, Bucketed, BypassCancelled, Lock,
                Divert, Return, Relock, PrintsLines, bufferVars, outVars
  <2>2. CASE Bypass(c) \/ Stream(c)
    <3>1. UNCHANGED <<open, buf, truncated>>
      BY <2>2 DEF Bypass, Stream, bufferVars
    <3>2. ASSUME NEW r, NEW w PROVE LinesEntry(r, w).kind = "lines"
      BY DEF LinesEntry
    <3> QED BY <2>2, <3>1, <3>2 DEF Bypass, Stream, PrintsLines
  <2>3. CASE Keep(c)
    BY <2>3 DEF Keep, Buffers, outVars
  <2>4. CASE Overflow(c)
    <3>1. Current(c).run \in Runs
      BY <2>4, CurrentType DEF Overflow, Appending
    <3>2. buf[Current(c).run] \in Buffer
      BY <3>1 DEF TypeOK
    <3>3. Prints(Current(c).run, buf[Current(c).run], "overflow")
      BY <2>4 DEF Overflow, Prints
    <3> QED BY <3>1, <3>2, <3>3 DEF Reasons
  <2>5. CASE Finish(c)
    <3>1. pc[c] = "append" /\ Current(c).run \in Runs /\ Current(c).id \in ItemsOf(c)
      BY <2>5, CurrentType DEF Finish, Appending
    <3>2. Current(c).id \in ItemIds /\ ItemOf(Current(c).id).outcome \in Outcomes \cup {NoOutcome}
      BY <3>1, ItemType DEF Item
    <3>3. Appended(Current(c).run, Current(c).id, c) \in Buffer
      BY <3>1, <3>2, AppendedType
    <3>4. Prints(Current(c).run, Appended(Current(c).run, Current(c).id, c), "root")
      BY <2>5 DEF Finish, Prints
    <3> QED BY <3>1, <3>3, <3>4 DEF Reasons
  <2> QED BY <1>1, <2>1, <2>2, <2>3, <2>4, <2>5 DEF CallStep
<1>2. ASSUME NEW r \in Runs, SweepFlush(r) \/ StopFlush(r)
      PROVE  \E reason \in Reasons : \E b \in Buffer : Prints(r, b, reason)
  <2>1. buf[r] \in Buffer /\ r \in open /\ r \notin truncated
    BY <1>2 DEF SweepFlush, StopFlush, Due, TypeOK
  <2>2. Prints(r, buf[r], "idle") \/ Prints(r, buf[r], "shutdown")
    BY <1>2, <2>1 DEF SweepFlush, StopFlush, Prints
  <2> QED BY <2>1, <2>2 DEF Reasons
<1>3. CASE SweepTick \/ SweepLock \/ SweepUnlock \/ SweepExit \/ StopBegin \/ StopLock \/ StopEnd
           \/ Tick \/ Terminated \/ UNCHANGED vars
  BY <1>3 DEF SweepTick, SweepLock, SweepUnlock, SweepExit, StopBegin, StopLock, StopEnd, Tick,
              Terminated, PrintsLines, bufferVars, outVars, vars
<1> QED BY <1>1, <1>2, <1>3 DEF Next, SweepStep, StopStep

-----------------------------------------------------------------------------
(* The cap. *)

\* A step that prints block e adds it to the blocks and changes no other.
LEMMA BlocksAfter ==
  ASSUME out \in Seq(Entry), NEW e, out' = Append(out, e)
  PROVE  /\ Len(out') = Len(out) + 1
         /\ out'[Len(out) + 1] = e
         /\ \A n \in Blocks : n \in 1..Len(out) /\ out'[n] = out[n]
         /\ \A n \in Blocks' : n \in Blocks \/ n = Len(out) + 1
         /\ e.kind = "lines" => Blocks' = Blocks
BY AppendProperties, LenProperties DEF Blocks

\* The buffer that is printed is within the cap, and at it when that is the
\* reason.
LEMMA PrintedLength ==
  ASSUME TypeOK, CapRespected, NEW r \in Runs, NEW reason \in Reasons, NEW b \in Buffer,
         Prints(r, b, reason)
  PROVE  Len(b.items) <= MaxItems /\ (reason = "overflow" => Len(b.items) = MaxItems)
<1>1. buf[r].items \in Seq(ItemIds) /\ Len(buf[r].items) <= MaxItems
  BY DEF TypeOK, Buffer, CapRespected
<1>2. Len(buf[r].items) \in Nat
  BY <1>1, LenProperties
<1>3. ASSUME NEW c \in Calls, Appending(c), r = Current(c).run, ~Full(r),
             b = Appended(r, Current(c).id, c)
      PROVE  Len(b.items) <= MaxItems
  <2>1. Current(c).id \in ItemIds
    BY <1>3, CurrentType DEF Appending, Pending
  <2>2. b.items = Append(buf[r].items, Current(c).id)
    BY <1>3 DEF Appended
  <2>3. Len(b.items) = Len(buf[r].items) + 1
    BY <1>1, <2>1, <2>2, AppendProperties
  <2> QED BY <1>2, <1>3, <2>3, BoundAssumption DEF Full
<1> QED BY <1>1, <1>2, <1>3, BoundAssumption DEF Prints, Full

LEMMA CapStep ==
  ASSUME TypeOK, CapRespected, truncated \cap open = {}, [Next]_vars
  PROVE  CapRespected'
<1> USE BoundAssumption
<1>0. out \in Seq(Entry)
  BY DEF TypeOK
<1>1. CASE PrintsLines
  <2>1. buf' = buf
    BY <1>1 DEF PrintsLines
  <2>2. CASE out' = out
    BY <2>1, <2>2 DEF CapRespected, Blocks
  <2>3. CASE \E e : e.kind = "lines" /\ out' = Append(out, e)
    BY <1>0, <2>1, <2>3, BlocksAfter DEF CapRespected
  <2> QED BY <1>1, <2>2, <2>3 DEF PrintsLines
<1>2. ASSUME NEW c \in Calls, Buffers(c) PROVE CapRespected'
  <2> DEFINE r == Current(c).run
  <2>1. r \in Runs /\ Current(c).id \in ItemIds
    BY <1>2, CurrentType DEF Buffers, Appending, Pending
  <2>2. buf[r].items \in Seq(ItemIds) /\ Len(buf[r].items) \in Nat
    BY <2>1, LenProperties DEF TypeOK, Buffer
  <2>3. buf' = [buf EXCEPT ![r] = Appended(r, Current(c).id, c)] /\ out' = out
    BY <1>2 DEF Buffers
  <2>4. buf \in [Runs -> Buffer]
    BY DEF TypeOK
  <2>5. buf'[r].items = Append(buf[r].items, Current(c).id)
    BY <2>1, <2>3, <2>4 DEF Appended
  <2>6. Len(buf'[r].items) = Len(buf[r].items) + 1
    BY <2>1, <2>2, <2>5, AppendProperties
  <2>7. Len(buf'[r].items) <= MaxItems
    BY <1>2, <2>2, <2>6 DEF Buffers, Full
  <2>8. \A s \in Runs : s # r => buf'[s] = buf[s]
    BY <2>3, <2>4
  <2> QED BY <2>3, <2>7, <2>8 DEF CapRespected, Blocks
<1>3. ASSUME NEW r \in Runs, NEW reason \in Reasons, NEW b \in Buffer, Prints(r, b, reason)
      PROVE  CapRespected'
  <2>1. PICK w \in Written(Range(b.items)) :
          out' = Append(out, BlockEntry(r, reason, FooterOutcome(b, reason), b.items, w))
    BY <1>3 DEF Prints, Flush
  <2> DEFINE e == BlockEntry(r, reason, FooterOutcome(b, reason), b.items, w)
  <2>2. e.count = Len(b.items) /\ e.reason = reason
    BY DEF BlockEntry
  <2>3. Len(b.items) <= MaxItems /\ (reason = "overflow" => Len(b.items) = MaxItems)
    BY <1>3, PrintedLength
  <2>4. buf \in [Runs -> Buffer] /\ buf' = [buf EXCEPT ![r] = EmptyBuffer]
    BY <1>3 DEF Prints, Flush, TypeOK
  <2>5. \A s \in Runs : buf'[s] = buf[s] \/ buf'[s] = EmptyBuffer
    BY <2>4
  <2>6. EmptyBuffer.items = <<>> /\ Len(<<>>) = 0
    BY DEF EmptyBuffer
  <2>7. \A s \in Runs : Len(buf'[s].items) <= MaxItems
    BY <2>5, <2>6 DEF CapRespected
  <2>8. /\ out'[Len(out) + 1] = e
        /\ \A n \in Blocks : out'[n] = out[n]
        /\ \A n \in Blocks' : n \in Blocks \/ n = Len(out) + 1
    BY <1>0, <2>1, BlocksAfter
  <2>9. \A n \in Blocks' : /\ out'[n].count <= MaxItems
                           /\ out'[n].reason = "overflow" => out'[n].count = MaxItems
    BY <2>2, <2>3, <2>8 DEF CapRespected
  <2> QED BY <2>7, <2>9 DEF CapRespected
<1> QED BY <1>1, <1>2, <1>3, StepKinds

-----------------------------------------------------------------------------
(* Truncation. *)

LEMMA TruncationStep ==
  ASSUME TypeOK, TruncatedStayClosed, [Next]_vars
  PROVE  TruncatedStayClosed'
<1>0. out \in Seq(Entry) /\ truncated \cap open = {}
  BY DEF TypeOK, TruncatedStayClosed
<1>1. CASE PrintsLines
  <2>1. UNCHANGED <<open, truncated>>
    BY <1>1 DEF PrintsLines
  <2>2. CASE out' = out
    BY <2>1, <2>2 DEF TruncatedStayClosed, Blocks
  <2>3. CASE \E e : e.kind = "lines" /\ out' = Append(out, e)
    BY <1>0, <2>1, <2>3, BlocksAfter DEF TruncatedStayClosed
  <2> QED BY <1>1, <2>2, <2>3 DEF PrintsLines
<1>2. ASSUME NEW c \in Calls, Buffers(c) PROVE TruncatedStayClosed'
  BY <1>2 DEF Buffers, TruncatedStayClosed, Blocks
<1>3. ASSUME NEW r \in Runs, NEW reason \in Reasons, NEW b \in Buffer, Prints(r, b, reason)
      PROVE  TruncatedStayClosed'
  <2>1. PICK w \in Written(Range(b.items)) :
          out' = Append(out, BlockEntry(r, reason, FooterOutcome(b, reason), b.items, w))
    BY <1>3 DEF Prints, Flush
  <2> DEFINE e == BlockEntry(r, reason, FooterOutcome(b, reason), b.items, w)
             last == Len(out) + 1
  <2>2. e.run = r /\ e.reason = reason
    BY DEF BlockEntry
  <2>3. open' = open \ {r} /\ truncated' = TruncatedAfter(r, reason) /\ r \notin truncated
    BY <1>3 DEF Prints, Flush
  <2>4. truncated' \cap open' = {}
    BY <1>0, <2>3 DEF TruncatedAfter
  <2>5. /\ out'[last] = e
        /\ \A n \in Blocks : n \in 1..Len(out) /\ out'[n] = out[n]
        /\ \A n \in Blocks' : n \in Blocks \/ n = last
    BY <1>0, <2>1, BlocksAfter
  <2>6. ASSUME NEW n \in Blocks', out'[n].reason = "overflow"
        PROVE  /\ out'[n].run \in truncated'
               /\ \A m \in Blocks' : out'[m].run = out'[n].run => m <= n
    <3>1. CASE n = last
      <4>1. out'[n].run \in truncated'
        BY <2>2, <2>3, <2>5, <2>6, <3>1 DEF TruncatedAfter
      <4>2. \A m \in Blocks' : m <= n
        BY <1>0, <2>5, <3>1, LenProperties
      <4> QED BY <4>1, <4>2
    <3>2. CASE n \in Blocks
      <4>1. out'[n] = out[n] /\ out[n].run \in truncated
        BY <2>5, <2>6, <3>2 DEF TruncatedStayClosed
      <4>2. out[n].run # r
        BY <2>3, <4>1
      <4>3. \A m \in Blocks' : out'[m].run = out[n].run => m \in Blocks
        BY <2>2, <2>5, <4>2
      <4>4. \A m \in Blocks : out[m].run = out[n].run => m <= n
        BY <2>6, <3>2, <4>1 DEF TruncatedStayClosed
      <4> QED BY <2>3, <2>5, <4>1, <4>3, <4>4 DEF TruncatedAfter
    <3> QED BY <2>5, <3>1, <3>2
  <2> QED BY <2>4, <2>6 DEF TruncatedStayClosed
<1> QED BY <1>0, <1>1, <1>2, <1>3, StepKinds

\* A truncated run stays closed, and no buffer or block exceeds the cap: what
\* keeps the cap is that a truncated run has no buffer, so both go together.
Bounded == TypeOK /\ CapRespected /\ TruncatedStayClosed

LEMMA Boundedness == Spec => []Bounded
<1>1. Init => Bounded
  <2>1. ASSUME Init PROVE CapRespected /\ TruncatedStayClosed
    <3>1. Blocks = {} /\ open = {} /\ \A r \in Runs : buf[r].items = <<>>
      BY <2>1 DEF Init, Blocks, EmptyBuffer
    <3> QED BY <3>1, BoundAssumption DEF CapRespected, TruncatedStayClosed
  <2> QED BY <2>1, TypeInit DEF Bounded
<1>2. Bounded /\ [Next]_vars => Bounded'
  <2> SUFFICES ASSUME Bounded, [Next]_vars PROVE Bounded'
    OBVIOUS
  <2>1. TypeOK /\ CapRespected /\ TruncatedStayClosed /\ truncated \cap open = {}
    BY DEF Bounded, TruncatedStayClosed
  <2> QED BY <2>1, TypeStep, CapStep, TruncationStep DEF Bounded
<1> QED BY <1>1, <1>2, PTL DEF Spec

\* No buffer and no block ever exceeds MaxItems, and a truncation warning
\* follows exactly MaxItems items (runblock.go:559-569).
THEOREM CapKept == Spec => []CapRespected
<1>1. Bounded => CapRespected
  BY DEF Bounded
<1> QED BY <1>1, Boundedness, PTL

\* After its truncation warning a run has no buffer and no block, whatever
\* calls were under way when it overflowed (runblock.go:114-116).
THEOREM TruncationIsFinal == Spec => []TruncatedStayClosed
<1>1. Bounded => TruncatedStayClosed
  BY DEF Bounded
<1> QED BY <1>1, Boundedness, PTL

-----------------------------------------------------------------------------
(* Shutdown. *)

\* Once Shutdown has begun nothing but Shutdown and the sweeper moves, and once
\* it holds the lock the sweeper is gone.
Drained ==
  /\ shut # "running" => \A c \in Calls : ~InFlight(c)
  /\ shut \in {"flushing", "done"} => sweeper = "gone"
  /\ shut = "done" => open = {}

LEMMA DrainedStep ==
  ASSUME DrainFirst, TypeOK, Drained, [Next]_vars
  PROVE  Drained'
<1>1. ASSUME NEW c \in Calls, CallStep(c) PROVE Drained'
  <2>1. CASE shut = "running"
    <3>1. shut' = shut
      BY <1>1 DEF CallStep, Begin, Refuse, Cancel, MapTraces, Bucket, Bucketed, Bypass,
                  BypassCancelled, Lock, Divert, Overflow, Keep, Finish, Return, Stream, Relock
    <3> QED BY <2>1, <3>1 DEF Drained
  <2>2. CASE shut # "running"
    <3>1. pc[c] \in {"idle", "ok", "err"}
      BY <2>2 DEF Drained, InFlight
    <3>2. Cancel(c)
      BY <1>1, <2>2, <3>1
         DEF CallStep, Begin, Refuse, MapTraces, Bucket, Bucketed, Bypass, BypassCancelled,
             Lock, Appending, Divert, Overflow, Keep, Finish, Return, Stream, Relock
    <3> QED BY <3>2 DEF Cancel, Drained, InFlight, bufferVars, sweepVars
  <2> QED BY <2>1, <2>2
<1>2. CASE SweepStep
  <2>1. UNCHANGED <<pc, shut>> /\ sweeper # "gone"
    BY <1>2 DEF SweepStep, SweepTick, SweepLock, SweepUnlock, SweepExit, SweepFlush, callVars,
                sweepVars
  <2> QED BY <2>1 DEF Drained, InFlight
<1>3. CASE StopStep
  BY <1>3 DEF StopStep, StopBegin, StopLock, StopEnd, StopFlush, Drained, InFlight, callVars,
              sweepVars, bufferVars
<1>4. CASE Tick \/ Terminated \/ UNCHANGED vars
  BY <1>4 DEF Tick, Terminated, Drained, InFlight, vars, callVars, sweepVars, bufferVars
<1> QED BY <1>1, <1>2, <1>3, <1>4 DEF Next

\* When every call has returned before Shutdown begins and none is made after,
\* Shutdown leaves no buffer open (runblock.go:210-213).
THEOREM ShutdownFlushes == ASSUME DrainFirst PROVE Spec => []ShutdownFlushesAll
<1>1. Init => TypeOK /\ Drained
  BY TypeInit DEF Init, Drained
<1>2. TypeOK /\ Drained /\ [Next]_vars => (TypeOK /\ Drained)'
  BY TypeStep, DrainedStep
<1>3. Drained => ShutdownFlushesAll
  BY DEF Drained, ShutdownFlushesAll
<1> QED BY <1>1, <1>2, <1>3, PTL DEF Spec

-----------------------------------------------------------------------------
(* Idleness.                                                               *)

\* What IdleMeansIdle needs of the callers: a call that comes back from
\* streaming an item has no item left of a run that is still buffered.  Its
\* `now` is then older than what others may have appended meanwhile.
OnlyTruncatedLeft ==
  \A c \in Calls : pc[c] = "again" =>
    \A n \in (k[c] + 1)..Len(pend[c]) : pend[c][n].run \in truncated

\* Nobody has appended since call c read the clock, or c will not append.
Fresh(c) ==
  \/ \A r \in Runs : buf[r].arrived <= snap[c]
  \/ \A n \in k[c]..Len(pend[c]) : pend[c][n].run \in truncated

\* No time that was read is ahead of the clock, and lastActivity is the latest
\* arrival, because who appends has the latest `now`.
Timely ==
  /\ sweepNow <= clock
  /\ \A c \in Calls : snap[c] <= clock
  /\ \A r \in Runs : buf[r].last = buf[r].arrived /\ buf[r].arrived <= clock
  /\ \A c \in Calls : pc[c] = "append" /\ mu = c => Fresh(c)

\* A call that stays in its critical section stays fresh if arrivals do not
\* grow, no run is taken from truncated and the loop does not go back.
LEMMA FreshStays ==
  ASSUME TypeOK, TypeOK', NEW c \in Calls, Fresh(c),
         snap'[c] = snap[c], pend'[c] = pend[c], k'[c] >= k[c],
         truncated \subseteq truncated',
         \A r \in Runs : buf'[r].arrived \in {0, buf[r].arrived}
  PROVE  Fresh(c)'
<1>1. k[c] \in Nat /\ k'[c] \in Nat /\ snap[c] \in Nat /\ Len(pend[c]) \in Nat
  BY LenProperties DEF TypeOK
<1>2. CASE \A r \in Runs : buf[r].arrived <= snap[c]
  BY <1>1, <1>2 DEF Fresh
<1>3. CASE \A n \in k[c]..Len(pend[c]) : pend[c][n].run \in truncated
  <2>1. \A n \in k'[c]..Len(pend[c]) : n \in k[c]..Len(pend[c])
    BY <1>1
  <2> QED BY <1>3, <2>1 DEF Fresh
<1> QED BY <1>2, <1>3 DEF Fresh

\* The item a fresh call keeps arrives later than all others.
LEMMA KeepIsLatest ==
  ASSUME TypeOK, TypeOK', Timely, NEW c \in Calls, Keep(c)
  PROVE  Timely'
<1> DEFINE r == Current(c).run
<1>1. /\ pc[c] = "append" /\ mu = c /\ k[c] <= Len(pend[c]) /\ r \notin truncated
      /\ buf' = [buf EXCEPT ![r] = Appended(r, Current(c).id, c)]
      /\ UNCHANGED <<clock, mu, truncated, pc, pend, snap, sweepNow>>
  BY DEF Keep, Appending, sweepVars
<1>2. k[c] \in Nat /\ Len(pend[c]) \in Nat /\ snap[c] \in Nat /\ clock \in Nat
  BY LenProperties DEF TypeOK
<1>3. r \in Runs /\ \A s \in Runs : buf[s] \in Buffer
  BY <1>1, CurrentType DEF TypeOK
<1>4. \A s \in Runs : buf[s].arrived <= snap[c]
  <2>1. k[c] \in k[c]..Len(pend[c])
    BY <1>1, <1>2
  <2> QED BY <1>1, <2>1 DEF Timely, Fresh, Current
<1>5. buf'[r].last = snap[c] /\ buf'[r].arrived = snap[c]
  BY <1>1, <1>2, <1>3, <1>4 DEF Appended, LaterOf, Buffer, TypeOK
<1>6. \A s \in Runs : s # r => buf'[s] = buf[s]
  BY <1>1, <1>3 DEF TypeOK
<1>7. \A s \in Runs : /\ buf'[s].last = buf'[s].arrived
                      /\ buf'[s].arrived <= snap[c]
                      /\ buf'[s].arrived <= clock
  <2>1. snap[c] <= clock
    BY DEF Timely
  <2> QED BY <1>4, <1>5, <1>6, <2>1, <1>2 DEF Timely
<1>8. Fresh(c)'
  BY <1>1, <1>7 DEF Fresh
<1> QED BY <1>1, <1>7, <1>8 DEF Timely

\* A flush leaves an empty buffer.
LEMMA FlushResets ==
  ASSUME TypeOK, NEW r \in Runs, NEW b, NEW reason, Flush(r, b, reason)
  PROVE  /\ truncated \subseteq truncated'
         /\ \A s \in Runs : buf'[s] \in {EmptyBuffer, buf[s]}
  BY DEF Flush, TruncatedAfter, TypeOK

LEMMA TimelyStep ==
  ASSUME TypeOK, TypeOK', Timely, OnlyTruncatedLeft, [Next]_vars
  PROVE  Timely'
<1>0. /\ clock \in Nat /\ sweepNow \in Nat
      /\ \A r \in Runs : buf[r].arrived \in Nat
      /\ \A c \in Calls : k[c] \in Nat /\ snap[c] \in Nat /\ Len(pend[c]) \in Nat
  BY LenProperties DEF TypeOK, Buffer
\* Steps that append nothing and let no call into its critical section.
<1>1. ASSUME clock' \in Nat, clock' >= clock, sweepNow' <= clock', snap' = snap,
             truncated \subseteq truncated',
             \A r \in Runs : buf'[r] \in {EmptyBuffer, buf[r]},
             \A c \in Calls : pc'[c] = "append" /\ mu' = c =>
               /\ pc[c] = "append" /\ mu = c
               /\ pend'[c] = pend[c] /\ k'[c] >= k[c]
      PROVE  Timely'
  <2>1. \A r \in Runs : /\ buf'[r].last = buf'[r].arrived
                        /\ buf'[r].arrived <= clock'
                        /\ buf'[r].arrived \in {0, buf[r].arrived}
    <3> SUFFICES ASSUME NEW r \in Runs
                 PROVE  /\ buf'[r].last = buf'[r].arrived
                        /\ buf'[r].arrived <= clock'
                        /\ buf'[r].arrived \in {0, buf[r].arrived}
      OBVIOUS
    <3>1. CASE buf'[r] = EmptyBuffer
      BY <1>1, <3>1 DEF EmptyBuffer
    <3>2. CASE buf'[r] = buf[r]
      BY <1>0, <1>1, <3>2 DEF Timely
    <3> QED BY <1>1, <3>1, <3>2
  <2>2. ASSUME NEW c \in Calls, pc'[c] = "append", mu' = c PROVE Fresh(c)'
    <3>1. Fresh(c) /\ pend'[c] = pend[c] /\ k'[c] >= k[c]
      BY <1>1, <2>2 DEF Timely
    <3> QED BY <1>1, <2>1, <3>1, FreshStays
  <2>3. \A c \in Calls : snap'[c] <= clock'
    BY <1>0, <1>1 DEF Timely
  <2> QED BY <1>1, <2>1, <2>2, <2>3 DEF Timely
<1>2. ASSUME NEW c \in Calls, CallStep(c) PROVE Timely'
  <2>1. CASE \/ Begin(c) \/ Refuse(c) \/ Cancel(c) \/ MapTraces(c) \/ Bucket(c) \/ Bucketed(c)
             \/ Bypass(c) \/ BypassCancelled(c) \/ Stream(c)
    <3>1. UNCHANGED <<clock, mu, buf, truncated, snap, sweepNow>>
      BY <2>1 DEF Begin, Refuse, Cancel, MapTraces, Bucket, Bucketed, Bypass, BypassCancelled,
                  Stream, bufferVars, sweepVars
    <3>2. \A d \in Calls \ {c} : pend'[d] = pend[d] /\ k'[d] = k[d] /\ pc'[d] = pc[d]
      BY <2>1 DEF Begin, Refuse, Cancel, MapTraces, Bucket, Bucketed, Bypass, BypassCancelled,
                  Stream, TypeOK
    <3>3. pc'[c] = "append" => UNCHANGED <<pc, pend, k>>
      <4>1. CASE Cancel(c)
        BY <4>1 DEF Cancel
      <4>2. CASE \/ Begin(c) \/ Refuse(c) \/ MapTraces(c) \/ Bypass(c) \/ BypassCancelled(c)
                 \/ Stream(c) \/ Bucketed(c)
        BY <4>2 DEF Begin, Refuse, MapTraces, Bucketed, Bypass, BypassCancelled, Stream,
                    AfterBypass, TypeOK
      <4>3. CASE Bucket(c)
        BY <4>3 DEF Bucket
      <4> QED BY <2>1, <4>1, <4>2, <4>3
    <3> QED BY <1>0, <1>1, <3>1, <3>2, <3>3 DEF Timely
  <2>2. CASE Lock(c)
    <3>1. /\ UNCHANGED <<clock, buf, truncated, k, pend, sweepNow>>
          /\ mu' = c /\ snap'[c] = clock
          /\ \A d \in Calls \ {c} : snap'[d] = snap[d]
      BY <2>2 DEF Lock, TypeOK, bufferVars, sweepVars
    <3>2. Fresh(c)'
      BY <3>1 DEF Fresh, Timely
    <3> QED BY <1>0, <3>1, <3>2 DEF Timely
  <2>3. CASE Relock(c)
    <3>1. /\ UNCHANGED <<clock, buf, truncated, pend, snap, sweepNow>>
          /\ pc[c] = "again" /\ mu' = c /\ k'[c] = k[c] + 1
      BY <2>3 DEF Relock, TypeOK, bufferVars, sweepVars
    <3>2. Fresh(c)'
      BY <3>1 DEF Fresh, OnlyTruncatedLeft
    <3> QED BY <3>1, <3>2 DEF Timely
  <2>4. CASE Divert(c) \/ Return(c)
    <3>1. UNCHANGED <<clock, buf, truncated, snap, sweepNow>> /\ mu' = "free"
      BY <2>4 DEF Divert, Return, LeaveToStream, bufferVars, sweepVars
    <3> QED BY <1>0, <1>1, <3>1, SentinelAssumption DEF Timely
  <2>5. CASE Overflow(c)
    <3>1. UNCHANGED <<clock, snap, sweepNow>> /\ mu' = "free"
      BY <2>5 DEF Overflow, LeaveToStream, sweepVars
    <3>2. Current(c).run \in Runs
      BY <2>5, CurrentType DEF Overflow, Appending
    <3>3. /\ truncated \subseteq truncated'
          /\ \A s \in Runs : buf'[s] \in {EmptyBuffer, buf[s]}
      BY <2>5, <3>2, FlushResets DEF Overflow
    <3> QED BY <1>0, <1>1, <3>1, <3>3, SentinelAssumption DEF Timely
  <2>6. CASE Keep(c)
    BY <2>6, KeepIsLatest
  <2>7. CASE Finish(c)
    <3>1. /\ UNCHANGED <<clock, mu, pc, pend, snap, sweepNow>>
          /\ \A d \in Calls : k'[d] >= k[d]
      BY <1>0, <2>7 DEF Finish, sweepVars, TypeOK
    <3>2. Current(c).run \in Runs
      BY <2>7, CurrentType DEF Finish, Appending
    <3>3. /\ truncated \subseteq truncated'
          /\ \A s \in Runs : buf'[s] \in {EmptyBuffer, buf[s]}
      BY <2>7, <3>2, FlushResets DEF Finish
    <3> QED BY <1>0, <1>1, <3>1, <3>3 DEF Timely
  <2> QED BY <1>2, <2>1, <2>2, <2>3, <2>4, <2>5, <2>6, <2>7 DEF CallStep
<1>3. ASSUME NEW r \in Runs, SweepFlush(r) \/ StopFlush(r) PROVE Timely'
  <2>1. UNCHANGED <<clock, mu, pc, pend, k, snap, sweepNow>>
    BY <1>3 DEF SweepFlush, StopFlush, callVars, sweepVars
  <2>2. /\ truncated \subseteq truncated'
        /\ \A s \in Runs : buf'[s] \in {EmptyBuffer, buf[s]}
    BY <1>3, FlushResets DEF SweepFlush, StopFlush
  <2> QED BY <1>0, <1>1, <2>1, <2>2 DEF Timely
<1>4. CASE \/ SweepTick \/ SweepLock \/ SweepUnlock \/ SweepExit
           \/ StopBegin \/ StopLock \/ StopEnd \/ Tick \/ Terminated \/ UNCHANGED vars
  <2>1. /\ UNCHANGED <<buf, truncated, pc, pend, k, snap>>
        /\ mu' \in {mu, "free", "sweeper", "shutdown"}
        /\ clock' \in {clock, clock + 1} /\ sweepNow' \in {sweepNow, clock, 0}
    BY <1>4 DEF SweepTick, SweepLock, SweepUnlock, SweepExit, StopBegin, StopLock, StopEnd, Tick,
                Terminated, vars, callVars, bufferVars, sweepVars
  <2>2. clock' \in Nat /\ clock' >= clock /\ sweepNow' <= clock'
    BY <1>0, <2>1 DEF Timely
  <2>3. \A c \in Calls : mu' = c => mu = c
    BY <2>1, SentinelAssumption
  <2> QED BY <1>0, <1>1, <2>1, <2>2, <2>3
<1> QED BY <1>2, <1>3, <1>4 DEF Next, SweepStep, StopStep

\* Where no call goes on to a run that is still buffered after it streamed an
\* item, a block printed for idleness is of a run no item reached for
\* IdleTimeout (runblock.go:62-64).  RB_stale_now shows that the condition is
\* needed.
THEOREM IdleUnlessStale == Spec /\ []OnlyTruncatedLeft => IdleMeansIdle
<1> DEFINE A == \A r \in Runs : SweepFlush(r) => clock - buf[r].arrived >= IdleTimeout
<1>1. Init => TypeOK /\ Timely
  BY TypeInit DEF Init, Timely, EmptyBuffer
<1>2. TypeOK /\ Timely /\ OnlyTruncatedLeft /\ [Next]_vars => (TypeOK /\ Timely)'
  BY TypeStep, TimelyStep
<1>3. TypeOK /\ Timely => A
  <2> SUFFICES ASSUME TypeOK, Timely, NEW r \in Runs, SweepFlush(r)
               PROVE  clock - buf[r].arrived >= IdleTimeout
    OBVIOUS
  <2>1. sweepNow >= buf[r].last + IdleTimeout
    BY DEF SweepFlush, Due
  <2> QED BY <2>1, BoundAssumption DEF Timely, TypeOK, Buffer
<1> QED BY <1>1, <1>2, <1>3, PTL DEF Spec, IdleMeansIdle

=============================================================================
