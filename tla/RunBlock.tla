------------------------------ MODULE RunBlock ------------------------------
(***************************************************************************)
(* RunBlockSink (internal/sink/runblock.go) over one StdoutSink.           *)
(*                                                                         *)
(* Consume calls arrive on many goroutines.  Items that name a run are     *)
(* collected in that run's buffer; a buffer is printed as one block when   *)
(* its root span ends, when it is full, when the background sweeper finds  *)
(* it idle, or when the sink shuts down.  Items of no run are printed at   *)
(* once.  RunBlockSink.mu is the variable mu: the goroutine that holds it, *)
(* or "free".  A write to the inner sink is one step, because StdoutSink   *)
(* holds its own mutex from the first line of a write to the last and is   *)
(* only ever locked after RunBlockSink.mu (stdout.go:57-81).               *)
(*                                                                         *)
(* Data that no property tells apart is left out: header fields other than *)
(* the outcome, timestamps, the rendered text and the order of the lines   *)
(* inside a block (RenderRunBlock sorts them by timestamp).                *)
(*                                                                         *)
(* An operator whose comment starts with "Variant" is a slip one could     *)
(* make in the definition that follows it; nothing here uses it, and       *)
(* PROJECT.json names the property it breaks.                              *)
(***************************************************************************)
EXTENDS Naturals, Sequences, FiniteSets, Functions

CONSTANTS
  Calls,          \* the Consume calls of a behaviour, each made at most once
  Runs,           \* the non-empty values of the run.id attribute
  NoRun,          \* run.id absent (the empty string)
  Traces,         \* the non-empty trace ids
  NoTrace,        \* a span without a trace id
  Outcomes,       \* the values of the run.outcome attribute
  NoOutcome,      \* run.outcome absent
  Requests,       \* the export requests a call may carry
  NoRequest,      \* the request of a call that was not made yet
  MaxItems,       \* RunBlockConfig.MaxItems, the cap on one buffer
  IdleTimeout,    \* RunBlockConfig.IdleTimeout, in clock ticks
  MaxClock,       \* bound on the clock: it stops there
  Cancellable,    \* the calls whose context may end before they return
  WriterMayFail,  \* TRUE: a write to stdout may fail part of the way
  DrainFirst      \* TRUE: Shutdown is called once every call has returned,
                  \* and no call is made after it

Signals == {"metrics", "logs", "traces"}
RunIds == Runs \cup {NoRun}

\* One data point, log record or span: the run.id on the item itself, on its
\* scope and on its resource, its trace, and whether it is a span named "run"
\* without a parent, with its run.outcome.
Item == [own : RunIds, scope : RunIds, resource : RunIds,
         trace : Traces \cup {NoTrace},
         root : BOOLEAN, outcome : Outcomes \cup {NoOutcome}]

Request == [signal : Signals, items : Seq(Item)]

\* The n-th item of call c is <<c, n>>.
ItemIds == Calls \X (Nat \ {0})

ASSUME SentinelAssumption ==
  /\ NoRun \notin Runs
  /\ NoTrace \notin Traces
  /\ NoOutcome \notin Outcomes
  /\ NoRequest \notin Requests
  /\ "<unknown>" \notin Outcomes \cup {NoOutcome}
  /\ Calls \cap {"free", "sweeper", "shutdown"} = {}
ASSUME RequestAssumption == \A q \in Requests : q \in Request
ASSUME BoundAssumption ==   \* the constructor replaces a cap or timeout <= 0
  /\ MaxItems \in Nat \ {0}
  /\ IdleTimeout \in Nat \ {0}
  /\ MaxClock \in Nat
  /\ Cancellable \subseteq Calls
  /\ WriterMayFail \in BOOLEAN
  /\ DrainFirst \in BOOLEAN

VARIABLES
  clock,       \* Clock.Now()
  mu,          \* the holder of RunBlockSink.mu
  open,        \* the keys of s.runs
  buf,         \* the buffer of each open run
  traceToRun,  \* s.traceToRun, NoRun where the key is absent
  truncated,   \* s.truncated
  out,         \* what stdout received, one entry per write
  lost,        \* items dropped after their call took responsibility for them
  pc,          \* the program counter of each call
  req,         \* the request of each call
  k,           \* the loop index of each call
  pend,        \* the pendings slice of each call
  byp,         \* the items in the bypass request of each call
  snap,        \* the local `now` of each call
  cancelled,   \* the calls whose context is done
  sweeper,     \* the program counter of the sweeper goroutine
  sweepNow,    \* the local `now` of sweepIdle
  shut         \* the progress of Shutdown

bufferVars == <<open, buf, traceToRun, truncated>>
outVars    == <<out, lost>>
callVars   == <<pc, req, k, pend, byp, snap, cancelled>>
sweepVars  == <<sweeper, sweepNow>>
vars == <<clock, mu, bufferVars, outVars, callVars, sweepVars, shut>>

EmptyBuffer == [items |-> <<>>, last |-> 0, arrived |-> 0, outcome |-> NoOutcome]

Init ==
  /\ clock = 0
  /\ mu = "free"
  /\ open = {}
  /\ buf = [r \in Runs |-> EmptyBuffer]
  /\ traceToRun = [t \in Traces |-> NoRun]
  /\ truncated = {}
  /\ out = <<>>
  /\ lost = {}
  /\ pc = [c \in Calls |-> "idle"]
  /\ req = [c \in Calls |-> NoRequest]
  /\ k = [c \in Calls |-> 1]
  /\ pend = [c \in Calls |-> <<>>]
  /\ byp = [c \in Calls |-> {}]
  /\ snap = [c \in Calls |-> 0]
  /\ cancelled = {}
  /\ sweeper = "select"
  /\ sweepNow = 0
  /\ shut = "running"

-----------------------------------------------------------------------------
(* Items and the run they belong to. *)

Length(c) == Len(req[c].items)
ItemOf(id) == req[id[1]].items[id[2]]

FirstOf(a, b) == IF a = NoRun THEN b ELSE a

\* The layers each signal is searched on for a run.id.
PointRun(it)  == FirstOf(it.own, it.resource)
RecordRun(it) == FirstOf(it.own, FirstOf(it.scope, it.resource))
SpanRun(it)   == it.own

DeclaredRun(signal, it) ==
  CASE signal = "metrics" -> PointRun(it)
    [] signal = "logs"    -> RecordRun(it)
    [] signal = "traces"  -> SpanRun(it)

\* A span without run.id is looked up by its trace, under the lock.
NeedsLookup(signal, it) ==
  /\ signal = "traces"
  /\ it.own = NoRun
  /\ it.trace # NoTrace

\* Variant: the resource and scope layers are forgotten.
RunIdOfItemOnly(signal, it) ==
  IF NeedsLookup(signal, it) THEN traceToRun[it.trace] ELSE it.own

\* Variant: the trace's run takes precedence over the span's own.
RunIdOfTraceFirst(signal, it) ==
  IF signal = "traces" /\ it.trace # NoTrace
    THEN traceToRun[it.trace] ELSE DeclaredRun(signal, it)

RunIdOf(signal, it) ==
  IF NeedsLookup(signal, it) THEN traceToRun[it.trace] ELSE DeclaredRun(signal, it)

\* Span i of request q is the last one that names a run for trace t.
LastNaming(q, t, i) ==
  /\ q.items[i].trace = t
  /\ q.items[i].own # NoRun
  /\ \A j \in DOMAIN q.items :
       q.items[j].trace = t /\ q.items[j].own # NoRun => j <= i

IsRunRootEnd(signal, it) == signal = "traces" /\ it.root /\ it.outcome # NoOutcome

InFlight(c) == pc[c] \notin {"idle", "ok", "err"}

\* The items of call c, once it is made.
ItemsOf(c) == IF pc[c] = "idle" THEN {} ELSE {<<c, n>> : n \in 1..Length(c)}

-----------------------------------------------------------------------------
(* Writes to the inner sink. *)

\* What a write of the items in S puts on stdout: all of it, or, when the
\* writer fails at some line, any part of it.
Written(S) ==
  {[items |-> S, whole |-> TRUE]}
    \cup (IF WriterMayFail THEN [items : SUBSET S, whole : {FALSE}] ELSE {})

BlockEntry(r, reason, outcome, items, w) ==
  [kind |-> "block", run |-> r, reason |-> reason, outcome |-> outcome,
   count |-> Len(items), items |-> w.items, whole |-> w.whole]

LinesEntry(r, w) ==
  [kind |-> "lines", run |-> r, reason |-> "none", outcome |-> NoOutcome,
   count |-> 0, items |-> w.items, whole |-> w.whole]

-----------------------------------------------------------------------------
(* Buffers. *)

\* Variant: off by one.
FullLate(r) == Len(buf[r].items) > MaxItems

Full(r) == Len(buf[r].items) >= MaxItems

LaterOf(a, b) == IF a > b THEN a ELSE b

\* absorbRootLocked, of which the footer keeps the outcome.
OutcomeAfter(b, signal, it) ==
  IF IsRunRootEnd(signal, it) THEN it.outcome ELSE b.outcome

\* Variant: an open run's lastActivity is not refreshed.
AppendedUntouched(r, id, c) ==
  [items   |-> Append(buf[r].items, id),
   last    |-> IF r \in open THEN buf[r].last ELSE snap[c],
   arrived |-> LaterOf(buf[r].arrived, snap[c]),
   outcome |-> OutcomeAfter(buf[r], req[c].signal, ItemOf(id))]

\* openRunLocked and appendItemLocked, for item id of call c.  The
\* code keeps last (lastActivity); arrived, the latest time at which a call
\* with an item for the buffer got the lock, is kept for IdleMeansIdle.
Appended(r, id, c) ==
  [items   |-> Append(buf[r].items, id),
   last    |-> snap[c],
   arrived |-> LaterOf(buf[r].arrived, snap[c]),
   outcome |-> OutcomeAfter(buf[r], req[c].signal, ItemOf(id))]

\* The outcome in the footer; a truncation warning stands in for the footer.
FooterOutcome(b, reason) ==
  CASE reason = "root"             -> b.outcome
    [] reason = "overflow"         -> NoOutcome
    [] reason \in {"idle", "shutdown"} -> "<unknown>"

\* Variant: the entries stay.
ForgetNoTraces(r) == [t \in Traces |-> traceToRun[t]]

\* The entries of traceToRun that point at r are dropped with it.
ForgetTraces(r) ==
  [t \in Traces |-> IF traceToRun[t] = r THEN NoRun ELSE traceToRun[t]]

TruncatedAfter(r, reason) ==
  IF reason = "overflow" THEN truncated \cup {r} ELSE truncated

\* Variant: a buffer whose write failed is kept for another attempt.
FlushKeeping(r, b, reason) ==
  /\ traceToRun' = ForgetTraces(r)
  /\ truncated' = TruncatedAfter(r, reason)
  /\ \E w \in Written(Range(b.items)) :
       /\ open' = IF w.whole THEN open \ {r} ELSE open
       /\ buf' = IF w.whole THEN [buf EXCEPT ![r] = EmptyBuffer] ELSE buf
       /\ out' = Append(out, BlockEntry(r, reason, FooterOutcome(b, reason), b.items, w))
       /\ lost' = lost

\* flushLocked: the write's error is dropped, the buffer is gone either way.
Flush(r, b, reason) ==
  /\ open' = open \ {r}
  /\ buf' = [buf EXCEPT ![r] = EmptyBuffer]
  /\ traceToRun' = ForgetTraces(r)
  /\ truncated' = TruncatedAfter(r, reason)
  /\ \E w \in Written(Range(b.items)) :
       /\ out' = Append(out, BlockEntry(r, reason, FooterOutcome(b, reason), b.items, w))
       /\ lost' = lost \cup (Range(b.items) \ w.items)

-----------------------------------------------------------------------------
(* ConsumeMetrics, ConsumeLogs and ConsumeTraces, for call c. *)

\* The first statement of each Consume is the context check.
Begin(c) ==
  /\ pc[c] = "idle"
  /\ DrainFirst => shut = "running"
  /\ c \notin cancelled
  /\ \E q \in Requests :
       /\ req' = [req EXCEPT ![c] = q]
       /\ pc' = [pc EXCEPT ![c] = IF q.signal = "traces" THEN "map" ELSE "bucket"]
  /\ UNCHANGED <<clock, mu, bufferVars, outVars, k, pend, byp, snap, cancelled,
                 sweepVars, shut>>

Refuse(c) ==
  /\ pc[c] = "idle"
  /\ DrainFirst => shut = "running"
  /\ c \in cancelled
  /\ \E q \in Requests : req' = [req EXCEPT ![c] = q]
  /\ pc' = [pc EXCEPT ![c] = "err"]
  /\ UNCHANGED <<clock, mu, bufferVars, outVars, k, pend, byp, snap, cancelled,
                 sweepVars, shut>>

\* The client of call c goes away, or its deadline passes.
Cancel(c) ==
  /\ c \in Cancellable \ cancelled
  /\ pc[c] \notin {"ok", "err"}
  /\ cancelled' = cancelled \cup {c}
  /\ UNCHANGED <<clock, mu, bufferVars, outVars, pc, req, k, pend, byp, snap,
                 sweepVars, shut>>

\* ConsumeTraces, first pass: under the lock, the traces the request names.
MapTraces(c) ==
  /\ pc[c] = "map"
  /\ mu = "free"
  /\ traceToRun' =
       [t \in Traces |->
          IF \E i \in DOMAIN req[c].items : LastNaming(req[c], t, i)
            THEN req[c].items[CHOOSE i \in DOMAIN req[c].items : LastNaming(req[c], t, i)].own
            ELSE traceToRun[t]]
  /\ pc' = [pc EXCEPT ![c] = "bucket"]
  /\ UNCHANGED <<clock, mu, open, buf, truncated, outVars, req, k, pend, byp, snap,
                 cancelled, sweepVars, shut>>

\* Variant: the empty run.id is buffered like any other.
BypassesNever(r) == FALSE

\* An item of no known run goes straight out.
Bypasses(r) == r = NoRun

\* Variant: the loop does not move on from an item that bypasses the buffer.
BucketStalled(c) ==
  /\ pc[c] = "bucket"
  /\ k[c] <= Length(c)
  /\ LET it == ItemOf(<<c, k[c]>>)
         r  == RunIdOf(req[c].signal, it)
     IN /\ NeedsLookup(req[c].signal, it) => mu = "free"
        /\ \/ /\ Bypasses(r)
              /\ byp' = [byp EXCEPT ![c] = @ \cup {<<c, k[c]>>}]
              /\ UNCHANGED <<k, pend>>
           \/ /\ ~Bypasses(r)
              /\ pend' = [pend EXCEPT ![c] = Append(@, [id |-> <<c, k[c]>>, run |-> r])]
              /\ k' = [k EXCEPT ![c] = @ + 1]
              /\ UNCHANGED byp
  /\ UNCHANGED <<clock, mu, bufferVars, outVars, pc, req, snap, cancelled,
                 sweepVars, shut>>

\* Second pass, one item: a pending item of its run, or part of the bypass
\* request.  The lock is taken and released around the one map read.
Bucket(c) ==
  /\ pc[c] = "bucket"
  /\ k[c] <= Length(c)
  /\ LET it == ItemOf(<<c, k[c]>>)
         r  == RunIdOf(req[c].signal, it)
     IN /\ NeedsLookup(req[c].signal, it) => mu = "free"
        /\ \/ /\ Bypasses(r)
              /\ byp' = [byp EXCEPT ![c] = @ \cup {<<c, k[c]>>}]
              /\ pend' = pend
           \/ /\ ~Bypasses(r)
              /\ pend' = [pend EXCEPT ![c] = Append(@, [id |-> <<c, k[c]>>, run |-> r])]
              /\ byp' = byp
  /\ k' = [k EXCEPT ![c] = @ + 1]
  /\ UNCHANGED <<clock, mu, bufferVars, outVars, pc, req, snap, cancelled,
                 sweepVars, shut>>

AfterBypass(c) == IF pend[c] = <<>> THEN "ok" ELSE "lock"

\* All items are bucketed: skip the bypass write when there is nothing in it.
Bucketed(c) ==
  /\ pc[c] = "bucket"
  /\ k[c] > Length(c)
  /\ pc' = [pc EXCEPT ![c] = IF byp[c] # {} THEN "bypass" ELSE AfterBypass(c)]
  /\ k' = [k EXCEPT ![c] = 1]
  /\ UNCHANGED <<clock, mu, bufferVars, outVars, req, pend, byp, snap, cancelled,
                 sweepVars, shut>>

\* The bypass request goes out without the lock; an error ends the call and
\* drops its pending items.
Bypass(c) ==
  /\ pc[c] = "bypass"
  /\ c \notin cancelled
  /\ \E w \in Written(byp[c]) :
       /\ out' = Append(out, LinesEntry(NoRun, w))
       /\ pc' = [pc EXCEPT ![c] = IF w.whole THEN AfterBypass(c) ELSE "err"]
  /\ UNCHANGED <<clock, mu, bufferVars, lost, req, k, pend, byp, snap, cancelled,
                 sweepVars, shut>>

BypassCancelled(c) ==
  /\ pc[c] = "bypass"
  /\ c \in cancelled
  /\ pc' = [pc EXCEPT ![c] = "err"]
  /\ UNCHANGED <<clock, mu, bufferVars, outVars, req, k, pend, byp, snap, cancelled,
                 sweepVars, shut>>

\* `now` is read once, here, and used for every pending item.
Lock(c) ==
  /\ pc[c] = "lock"
  /\ mu = "free"
  /\ mu' = c
  /\ snap' = [snap EXCEPT ![c] = clock]
  /\ pc' = [pc EXCEPT ![c] = "append"]
  /\ UNCHANGED <<clock, bufferVars, outVars, req, k, pend, byp, cancelled,
                 sweepVars, shut>>

\* The pending item call c is at.
Current(c) == pend[c][k[c]]

Appending(c) == pc[c] = "append" /\ mu = c /\ k[c] <= Len(pend[c])

\* The item cannot be buffered: release the lock to stream it.
LeaveToStream(c) ==
  /\ mu' = "free"
  /\ pc' = [pc EXCEPT ![c] = "stream"]

\* Variant: the items of a truncated run are skipped.
DivertNowhere(c) ==
  /\ Appending(c)
  /\ Current(c).run \in truncated
  /\ k' = [k EXCEPT ![c] = @ + 1]
  /\ UNCHANGED <<clock, mu, bufferVars, outVars, pc, req, pend, byp, snap, cancelled,
                 sweepVars, shut>>

\* Its run was truncated earlier.
Divert(c) ==
  /\ Appending(c)
  /\ Current(c).run \in truncated
  /\ LeaveToStream(c)
  /\ UNCHANGED <<clock, bufferVars, outVars, req, k, pend, byp, snap, cancelled,
                 sweepVars, shut>>

\* Variant: the rejected item is printed in the block and streamed as well.
OverflowWithItem(c) ==
  /\ Appending(c)
  /\ Current(c).run \notin truncated
  /\ Full(Current(c).run)
  /\ Flush(Current(c).run, Appended(Current(c).run, Current(c).id, c), "overflow")
  /\ LeaveToStream(c)
  /\ UNCHANGED <<clock, req, k, pend, byp, snap, cancelled, sweepVars, shut>>

\* The buffer holds MaxItems: flush it without the item and truncate the run.
Overflow(c) ==
  /\ Appending(c)
  /\ Current(c).run \notin truncated
  /\ Full(Current(c).run)
  /\ Flush(Current(c).run, buf[Current(c).run], "overflow")
  /\ LeaveToStream(c)
  /\ UNCHANGED <<clock, req, k, pend, byp, snap, cancelled, sweepVars, shut>>

\* Variant: the truncated check is missing.
KeepTruncated(c) ==
  /\ Appending(c)
  /\ LET r == Current(c).run
         id == Current(c).id
     IN /\ ~Full(r)
        /\ ~IsRunRootEnd(req[c].signal, ItemOf(id))
        /\ open' = open \cup {r}
        /\ buf' = [buf EXCEPT ![r] = Appended(r, id, c)]
  /\ k' = [k EXCEPT ![c] = @ + 1]
  /\ UNCHANGED <<clock, mu, traceToRun, truncated, outVars, pc, req, pend, byp, snap,
                 cancelled, sweepVars, shut>>

\* Variant: the end of a run does not flush it.
KeepEnded(c) ==
  /\ Appending(c)
  /\ LET r == Current(c).run
         id == Current(c).id
     IN /\ r \notin truncated
        /\ ~Full(r)
        /\ open' = open \cup {r}
        /\ buf' = [buf EXCEPT ![r] = Appended(r, id, c)]
  /\ k' = [k EXCEPT ![c] = @ + 1]
  /\ UNCHANGED <<clock, mu, traceToRun, truncated, outVars, pc, req, pend, byp, snap,
                 cancelled, sweepVars, shut>>

\* The item is buffered.
Keep(c) ==
  /\ Appending(c)
  /\ LET r == Current(c).run
         id == Current(c).id
     IN /\ r \notin truncated
        /\ ~Full(r)
        /\ ~IsRunRootEnd(req[c].signal, ItemOf(id))
        /\ open' = open \cup {r}
        /\ buf' = [buf EXCEPT ![r] = Appended(r, id, c)]
  /\ k' = [k EXCEPT ![c] = @ + 1]
  /\ UNCHANGED <<clock, mu, traceToRun, truncated, outVars, pc, req, pend, byp, snap,
                 cancelled, sweepVars, shut>>

\* Variant: the block is printed before its last item is added, and the root
\* span is streamed after it.
FinishEarly(c) ==
  /\ Appending(c)
  /\ LET r == Current(c).run
         id == Current(c).id
     IN /\ r \notin truncated
        /\ ~Full(r)
        /\ IsRunRootEnd(req[c].signal, ItemOf(id))
        /\ Flush(r, [buf[r] EXCEPT !.outcome = ItemOf(id).outcome], "root")
  /\ LeaveToStream(c)
  /\ UNCHANGED <<clock, req, k, pend, byp, snap, cancelled, sweepVars, shut>>

\* The item is buffered and ends its run: the block is printed with it.
Finish(c) ==
  /\ Appending(c)
  /\ LET r == Current(c).run
         id == Current(c).id
     IN /\ r \notin truncated
        /\ ~Full(r)
        /\ IsRunRootEnd(req[c].signal, ItemOf(id))
        /\ Flush(r, Appended(r, id, c), "root")
  /\ k' = [k EXCEPT ![c] = @ + 1]
  /\ UNCHANGED <<clock, mu, pc, req, pend, byp, snap, cancelled, sweepVars, shut>>

Return(c) ==
  /\ pc[c] = "append"
  /\ mu = c
  /\ k[c] > Len(pend[c])
  /\ mu' = "free"
  /\ pc' = [pc EXCEPT ![c] = "ok"]
  /\ UNCHANGED <<clock, bufferVars, outVars, req, k, pend, byp, snap, cancelled,
                 sweepVars, shut>>

\* streamSingle*: one item in line mode, without the lock; its error is
\* dropped, so an item refused because the context is done is gone.
Stream(c) ==
  /\ pc[c] = "stream"
  /\ LET S == {Current(c).id}
     IN \/ /\ c \notin cancelled
           /\ \E w \in Written(S) :
                /\ out' = Append(out, LinesEntry(Current(c).run, w))
                /\ lost' = lost \cup (S \ w.items)
        \/ /\ c \in cancelled
           /\ lost' = lost \cup S
           /\ out' = out
  /\ pc' = [pc EXCEPT ![c] = "again"]
  /\ UNCHANGED <<clock, mu, bufferVars, req, k, pend, byp, snap, cancelled,
                 sweepVars, shut>>

\* The lock is taken again, and the loop goes on with the same `now`.
Relock(c) ==
  /\ pc[c] = "again"
  /\ mu = "free"
  /\ mu' = c
  /\ k' = [k EXCEPT ![c] = @ + 1]
  /\ pc' = [pc EXCEPT ![c] = "append"]
  /\ UNCHANGED <<clock, bufferVars, outVars, req, pend, byp, snap, cancelled,
                 sweepVars, shut>>

-----------------------------------------------------------------------------
(* The clock and the sweeper goroutine. *)

Tick ==
  /\ clock < MaxClock
  /\ clock' = clock + 1
  /\ UNCHANGED <<mu, bufferVars, outVars, callVars, sweepVars, shut>>

\* The ticker fires; sweepIdle reads the clock before it takes the lock.
SweepTick ==
  /\ sweeper = "select"
  /\ sweeper' = "lock"
  /\ sweepNow' = clock
  /\ UNCHANGED <<clock, mu, bufferVars, outVars, callVars, shut>>

SweepLock ==
  /\ sweeper = "lock"
  /\ mu = "free"
  /\ mu' = "sweeper"
  /\ sweeper' = "sweep"
  /\ UNCHANGED <<clock, bufferVars, outVars, callVars, sweepNow, shut>>

\* Variant: strictly past the deadline.
DueLate(r) == r \in open /\ sweepNow > buf[r].last + IdleTimeout

\* now.Sub(rb.lastActivity) >= IdleTimeout
Due(r) == r \in open /\ sweepNow >= buf[r].last + IdleTimeout

SweepFlush(r) ==
  /\ sweeper = "sweep"
  /\ Due(r)
  /\ Flush(r, buf[r], "idle")
  /\ UNCHANGED <<clock, mu, callVars, sweepVars, shut>>

SweepUnlock ==
  /\ sweeper = "sweep"
  /\ \A r \in Runs : ~Due(r)
  /\ mu' = "free"
  /\ sweeper' = "select"
  /\ sweepNow' = 0
  /\ UNCHANGED <<clock, bufferVars, outVars, callVars, shut>>

\* Variant: stopCh is closed only after the wait for the sweeper.
SweepExitLate ==
  /\ sweeper = "select"
  /\ shut \in {"flushing", "done"}
  /\ sweeper' = "gone"
  /\ UNCHANGED <<clock, mu, bufferVars, outVars, callVars, sweepNow, shut>>

\* stopCh is closed; select may still have served a tick first.
SweepExit ==
  /\ sweeper = "select"
  /\ shut # "running"
  /\ sweeper' = "gone"
  /\ UNCHANGED <<clock, mu, bufferVars, outVars, callVars, sweepNow, shut>>

-----------------------------------------------------------------------------
(* Shutdown. *)

\* Variant: calls may still be in flight.
StopUndrained ==
  /\ shut = "running"
  /\ shut' = "stopping"
  /\ UNCHANGED <<clock, mu, bufferVars, outVars, callVars, sweepVars>>

StopBegin ==
  /\ shut = "running"
  /\ DrainFirst => \A c \in Calls : ~InFlight(c)
  /\ shut' = "stopping"
  /\ UNCHANGED <<clock, mu, bufferVars, outVars, callVars, sweepVars>>

\* wg.Wait returns once the sweeper is gone.
StopLock ==
  /\ shut = "stopping"
  /\ sweeper = "gone"
  /\ mu = "free"
  /\ mu' = "shutdown"
  /\ shut' = "flushing"
  /\ UNCHANGED <<clock, bufferVars, outVars, callVars, sweepVars>>

\* The code flushes in the order of the run ids; any order is allowed here.
StopFlush(r) ==
  /\ shut = "flushing"
  /\ r \in open
  /\ Flush(r, buf[r], "shutdown")
  /\ UNCHANGED <<clock, mu, callVars, sweepVars, shut>>

StopEnd ==
  /\ shut = "flushing"
  /\ open = {}
  /\ mu' = "free"
  /\ shut' = "done"
  /\ UNCHANGED <<clock, bufferVars, outVars, callVars, sweepVars>>

-----------------------------------------------------------------------------
(* The specification. *)

\* Every call made has returned and the sink is shut down: nothing is left.
Terminated ==
  /\ shut = "done"
  /\ \A c \in Calls : ~InFlight(c)
  /\ UNCHANGED vars

CallStep(c) ==
  \/ Begin(c) \/ Refuse(c) \/ Cancel(c)
  \/ MapTraces(c) \/ Bucket(c) \/ Bucketed(c) \/ Bypass(c) \/ BypassCancelled(c)
  \/ Lock(c) \/ Divert(c) \/ Overflow(c) \/ Keep(c) \/ Finish(c) \/ Return(c)
  \/ Stream(c) \/ Relock(c)

SweepStep ==
  \/ SweepTick \/ SweepLock \/ SweepUnlock \/ SweepExit
  \/ \E r \in Runs : SweepFlush(r)

StopStep ==
  \/ StopBegin \/ StopLock \/ StopEnd
  \/ \E r \in Runs : StopFlush(r)

Next ==
  \/ \E c \in Calls : CallStep(c)
  \/ SweepStep
  \/ StopStep
  \/ Tick
  \/ Terminated

Spec == Init /\ [][Next]_vars

\* A goroutine that can run does run.  sync.Mutex hands the lock to a waiter
\* that has waited for a millisecond, so a step that takes it is strongly
\* fair; select chooses at random among ready cases, so the sweeper does not
\* miss the closed stopCh for ever.  Nothing obliges a client to make a call,
\* or the operator to shut the sink down.
Fairness ==
  /\ WF_vars(Tick)
  /\ \A c \in Calls :
       /\ WF_vars(Bucketed(c) \/ Bypass(c) \/ BypassCancelled(c))
       /\ WF_vars(Divert(c) \/ Overflow(c) \/ Keep(c) \/ Finish(c) \/ Return(c))
       /\ WF_vars(Stream(c))
       /\ SF_vars(MapTraces(c) \/ Bucket(c))
       /\ SF_vars(Lock(c) \/ Relock(c))
  /\ WF_vars(SweepTick) /\ SF_vars(SweepLock) /\ SF_vars(SweepExit)
  /\ WF_vars(SweepUnlock \/ \E r \in Runs : SweepFlush(r))
  /\ SF_vars(StopLock)
  /\ WF_vars(StopEnd \/ \E r \in Runs : StopFlush(r))

FairSpec == Spec /\ Fairness

-----------------------------------------------------------------------------
(* Types. *)

Buffer == [items : Seq(ItemIds), last : Nat, arrived : Nat,
           outcome : Outcomes \cup {NoOutcome}]

Entry == [kind : {"block", "lines"}, run : RunIds,
          reason : {"root", "idle", "overflow", "shutdown", "none"},
          outcome : Outcomes \cup {NoOutcome, "<unknown>"},
          count : Nat, items : SUBSET ItemIds, whole : BOOLEAN]

Pending == [id : ItemIds, run : Runs]

CallStates == {"idle", "map", "bucket", "bypass", "lock", "append", "stream",
               "again", "ok", "err"}

OwnItems ==
  \A c \in Calls : /\ \A n \in DOMAIN pend[c] : pend[c][n].id \in ItemsOf(c)
                  /\ byp[c] \subseteq ItemsOf(c)

\* A call that left the loop to stream an item has not run off its pendings.
InBounds ==
  \A c \in Calls : pc[c] \in {"stream", "again"} => k[c] <= Len(pend[c])

\* Every variable has its type; what a call works on is an item of its request.
TypeOK ==
  /\ clock \in Nat
  /\ mu \in Calls \cup {"free", "sweeper", "shutdown"}
  /\ open \subseteq Runs
  /\ buf \in [Runs -> Buffer]
  /\ traceToRun \in [Traces -> RunIds]
  /\ truncated \subseteq Runs
  /\ out \in Seq(Entry)
  /\ lost \subseteq ItemIds
  /\ pc \in [Calls -> CallStates]
  /\ req \in [Calls -> Requests \cup {NoRequest}]
  /\ \A c \in Calls : pc[c] # "idle" => req[c] \in Requests
  /\ k \in [Calls -> Nat \ {0}]
  /\ pend \in [Calls -> Seq(Pending)]
  /\ byp \in [Calls -> SUBSET ItemIds]
  /\ OwnItems
  /\ InBounds
  /\ snap \in [Calls -> Nat]
  /\ cancelled \subseteq Cancellable
  /\ sweeper \in {"select", "lock", "sweep", "gone"}
  /\ sweepNow \in Nat
  /\ shut \in {"running", "stopping", "flushing", "done"}

-----------------------------------------------------------------------------
(* Safety. *)

\* The items call c has still to deal with.
Waiting(c) ==
  CASE pc[c] \in {"map", "bucket", "bypass"} -> ItemsOf(c)
    [] pc[c] \in {"lock", "append", "stream"} -> {pend[c][n].id : n \in k[c]..Len(pend[c])}
    [] pc[c] = "again" -> {pend[c][n].id : n \in (k[c] + 1)..Len(pend[c])}
    [] OTHER -> {}

\* A loss the design accepts: a write that failed, or a context that ended.
Excused(id) == id \in lost /\ (WriterMayFail \/ id[1] \in cancelled)

\* How many places an item is in: still waiting, excused, printed, buffered.
Places(id) ==
    (IF id \in Waiting(id[1]) THEN 1 ELSE 0)
  + (IF Excused(id) THEN 1 ELSE 0)
  + Cardinality({n \in DOMAIN out : id \in out[n].items})
  + Cardinality(UNION {{<<r, n>> : n \in {m \in DOMAIN buf[r].items : buf[r].items[m] = id}}
                         : r \in Runs})

\* No item is printed twice, forgotten or both kept and printed: at every
\* instant an item of a call that took it is in exactly one place, whatever
\* flushes, streams and other calls come between.  A call that returned an
\* error may have dropped its items; it printed none of them twice.
ExactlyOnce ==
  \A c \in Calls : \A id \in ItemsOf(c) :
    /\ Places(id) <= 1
    /\ pc[c] # "err" => Places(id) = 1

Blocks == {n \in DOMAIN out : out[n].kind = "block"}

\* Neither a buffer nor a block ever exceeds the cap, and a truncated block is
\* exactly at it (runblock.go:551-562).
CapRespected ==
  /\ \A r \in Runs : Len(buf[r].items) <= MaxItems
  /\ \A n \in Blocks :
       /\ out[n].count <= MaxItems
       /\ out[n].reason = "overflow" => out[n].count = MaxItems

\* A truncated run has no buffer and is never printed as a block again: its
\* truncation warning is the last block of the run, whatever calls were
\* already past their check when it overflowed.
TruncatedStayClosed ==
  /\ truncated \cap open = {}
  /\ \A n \in Blocks : out[n].reason = "overflow" =>
       /\ out[n].run \in truncated
       /\ \A m \in Blocks : out[m].run = out[n].run => m <= n

\* An item that names a run is printed outside a block only once the run's
\* truncation warning is on the output (runblock.go:114-116).
StreamedOnlyAfterTruncation ==
  \A n \in DOMAIN out \ Blocks : \A id \in out[n].items :
    LET r == DeclaredRun(req[id[1]].signal, ItemOf(id))
    IN r # NoRun => \E m \in 1..(n - 1) : out[m].run = r /\ out[m].reason = "overflow"

\* Span s names run r for trace t in a call made so far.
Named(t, r) ==
  \E c \in Calls : \E id \in ItemsOf(c) :
    req[c].signal = "traces" /\ ItemOf(id).trace = t /\ ItemOf(id).own = r

\* A block holds items of one run: each names the run, or is a span without
\* run.id of a trace on which some span named it.
BlocksArePure ==
  \A n \in Blocks : \A id \in out[n].items :
    LET it  == ItemOf(id)
        sig == req[id[1]].signal
    IN \/ DeclaredRun(sig, it) = out[n].run
       \/ NeedsLookup(sig, it) /\ Named(it.trace, out[n].run)

RootEnds(S) == {id \in S : IsRunRootEnd(req[id[1]].signal, ItemOf(id))}

\* The footer tells what the block holds.  A printed outcome is that of the one
\* run-ending root span in the block; a block of a run nobody ended, or cut
\* short by the cap, holds no such span; and the count in a truncation warning
\* is that of the items printed above it.
FooterTellsTheTruth ==
  \A n \in Blocks :
    /\ out[n].whole => Cardinality(out[n].items) = out[n].count
    /\ IF out[n].reason = "root"
       THEN out[n].whole => \E id \in out[n].items :
              RootEnds(out[n].items) = {id} /\ ItemOf(id).outcome = out[n].outcome
       ELSE RootEnds(out[n].items) = {} /\ out[n].outcome \in {NoOutcome, "<unknown>"}

\* When the lock is free no buffer holds a run-ending root span: the block of
\* an ended run is not held back (runblock.go:431-433).
EndedRunsAreFlushed ==
  mu = "free" => \A r \in open : RootEnds(Range(buf[r].items)) = {}

\* Call c has still to append an item of run r, or may have.
StillToAppend(c, r) ==
  \/ /\ pc[c] \in {"bucket", "bypass"}
     /\ \E id \in ItemsOf(c) : ItemOf(id).own = r
  \/ \E n \in DOMAIN pend[c] : pend[c][n].run = r /\ pend[c][n].id \in Waiting(c)

\* A traceToRun entry is backed by something that will remove it: the open
\* buffer of its run or a call about to append to it.  The entries of truncated
\* runs and of calls that failed are the exceptions.
TraceEntriesAreBacked ==
  \A t \in Traces : LET r == traceToRun[t] IN
    r # NoRun =>
      \/ r \in open
      \/ r \in truncated
      \/ \E c \in Calls : StillToAppend(c, r)
      \/ \E c \in Calls : pc[c] = "err"

\* With every call returned before it begins, Shutdown leaves no buffer open
\* (runblock.go:210-213).
ShutdownFlushesAll ==
  shut = "done" => open = {}

\* A block printed for idleness: no item reached the run for IdleTimeout
\* (runblock.go:62-64).
IdleMeansIdle ==
  [][\A r \in Runs : SweepFlush(r) => clock - buf[r].arrived >= IdleTimeout]_vars

-----------------------------------------------------------------------------
(* Liveness. *)

\* Every call that is made returns, whatever the lock contention.
CallsReturn == \A c \in Calls : pc[c] # "idle" ~> pc[c] \in {"ok", "err"}

\* A run whose idle deadline is within the clock's bound does not stay open
\* past it, unless an item moves the deadline beyond the bound.
IdleRunsAreFlushed ==
  \A r \in Runs :
    (r \in open /\ buf[r].last + IdleTimeout <= MaxClock)
      ~> (r \notin open \/ buf[r].last + IdleTimeout > MaxClock)

\* Shutdown, once called, completes.
ShutdownCompletes == shut = "stopping" ~> shut = "done"

\* Once the sink is being shut down, every item of a call that returned nil is
\* printed or lost to a known cause.
Printed(id) == \E n \in DOMAIN out : id \in out[n].items
AcceptedIsPrinted ==
  \A c \in Calls :
    pc[c] = "ok" /\ shut = "stopping"
      ~> \A id \in ItemsOf(c) : Printed(id) \/ id \in lost

-----------------------------------------------------------------------------
(* What comments promise and the code does not keep. *)

\* runblock.go:107-112: the run of every traceToRun entry is a key of s.runs
\* (looked at while no call is in flight).
TraceEntriesHaveOpenRuns ==
  (\A c \in Calls : ~InFlight(c)) =>
    \A t \in Traces : traceToRun[t] # NoRun => traceToRun[t] \in open

\* runblock.go:450-451: a child span without run.id is bucketed with a span of
\* the same request that names a run for its trace.
SiblingsAreBucketed ==
  \A c \in Calls : \A id \in byp[c] :
    req[c].signal = "traces" =>
      ~ \E other \in ItemsOf(c) : /\ ItemOf(other).trace = ItemOf(id).trace
                                  /\ ItemOf(other).trace # NoTrace
                                  /\ ItemOf(other).own # NoRun

-----------------------------------------------------------------------------
(* What the reader of stdout is promised. *)

\* The items handed over so far, and those that were kept, printed or dropped.
Offered == UNION {ItemsOf(c) : c \in Calls}
Dealt == lost \cup (UNION {out[n].items : n \in DOMAIN out})
              \cup (UNION {Range(buf[r].items) : r \in Runs})

Held == [r \in Runs |-> buf[r].items]

\* An entry of out, as a reader can tell it from the others.
Line(e) ==
  [run   |-> e.run,
   kind  |-> IF e.reason = "overflow" THEN "warning" ELSE e.kind,
   items |-> e.items]

Shown == [n \in DOMAIN out |-> Line(out[n])]

Reader ==
  INSTANCE RunLog WITH
    MayFail <- WriterMayFail,
    offered <- Offered, dealt <- Dealt, held <- Held,
    closed <- truncated, log <- Shown

\* A block prints what was kept for its run since the last one, no item of which
\* was printed or dropped before; the truncation warning is the last block of a
\* run, and what is streamed of it comes after (runblock.go:114-116).
KeepsLog == Reader!LogSpec

=============================================================================
