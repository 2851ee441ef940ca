---------------------------- MODULE RunBlockItems ----------------------------
(***************************************************************************)
(* Where the items of RunBlock go: the theorems about what is printed, in  *)
(* which block, and how often.                                             *)
(***************************************************************************)
EXTENDS RunBlockProofs, FiniteSetTheorems

-----------------------------------------------------------------------------
(* The inductive invariant. *)

\* Item id is one of a call that was made.
Taken(id) == id[1] \in Calls /\ id \in ItemsOf(id[1])

\* What was dropped, printed or buffered are items of calls that were made.
Owned ==
  /\ \A id \in lost : Taken(id)
  /\ \A n \in DOMAIN out : \A id \in out[n].items : Taken(id)
  /\ \A r \in Runs : \A id \in Range(buf[r].items) : Taken(id)

PendingIds(c) == {pend[c][n].id : n \in DOMAIN pend[c]}

\* A call puts each of its items in one place: among the pendings, once, or in
\* the bypass request.
Sorted(c) ==
  /\ \A m, n \in DOMAIN pend[c] : pend[c][m].id = pend[c][n].id => m = n
  /\ PendingIds(c) \cap byp[c] = {}
  /\ pc[c] \in {"idle", "map"} => k[c] = 1 /\ pend[c] = <<>> /\ byp[c] = {}
  /\ pc[c] = "bucket" => /\ k[c] <= Length(c) + 1
                         /\ PendingIds(c) \cup byp[c] = {<<c, n>> : n \in 1..(k[c] - 1)}
  /\ pc[c] = "bypass" => k[c] = 1 /\ PendingIds(c) \cup byp[c] = ItemsOf(c)

Sorting == \A c \in Calls : Sorted(c)

\* Item id may be printed in a block of run r (BlocksArePure).
Belongs(id, r) ==
  LET it  == ItemOf(id)
      sig == req[id[1]].signal
  IN \/ DeclaredRun(sig, it) = r
     \/ NeedsLookup(sig, it) /\ Named(it.trace, r)

\* Every item is where its run or its trace sent it.
NamedTraces == \A t \in Traces : traceToRun[t] # NoRun => Named(t, traceToRun[t])

Placed(c) ==
  /\ pc[c] = "map" => req[c].signal = "traces"
  /\ \A n \in DOMAIN pend[c] : Belongs(pend[c][n].id, pend[c][n].run)
  /\ \A id \in byp[c] : DeclaredRun(req[c].signal, ItemOf(id)) = NoRun

Related ==
  /\ NamedTraces
  /\ \A c \in Calls : Placed(c)
  /\ \A r \in Runs : \A id \in Range(buf[r].items) : Belongs(id, r)

\* No buffer holds the end of its run.
Unended == \A r \in Runs : RootEnds(Range(buf[r].items)) = {}

\* A run is truncated after its warning, and an item is streamed after that.
Warned ==
  /\ \A r \in truncated : \E n \in DOMAIN out : out[n].run = r /\ out[n].reason = "overflow"
  /\ \A c \in Calls : pc[c] = "stream" => Current(c).run \in truncated

\* The four places an item can be in.
Waits(id)    == id \in Waiting(id[1])
Dropped(id)  == id \in lost
Buffered(id) == \E r \in Runs : id \in Range(buf[r].items)
\* and Printed(id)

\* It is in one of them, once; a call that failed may have forgotten it.
Alone(id) ==
  /\ ~(Waits(id) /\ (Dropped(id) \/ Buffered(id) \/ Printed(id)))
  /\ ~(Dropped(id) /\ (Buffered(id) \/ Printed(id)))
  /\ ~(Buffered(id) /\ Printed(id))

PrintedOnce(id) ==
  \A m, n \in DOMAIN out : id \in out[m].items /\ id \in out[n].items => m = n

BufferedOnce(id) ==
  \A r, s \in Runs : \A m \in DOMAIN buf[r].items, n \in DOMAIN buf[s].items :
    buf[r].items[m] = id /\ buf[s].items[n] = id => r = s /\ m = n

Accounted(id) ==
  /\ Alone(id)
  /\ PrintedOnce(id)
  /\ BufferedOnce(id)
  /\ pc[id[1]] # "err" => Waits(id) \/ Dropped(id) \/ Buffered(id) \/ Printed(id)
  /\ Dropped(id) => WriterMayFail \/ id[1] \in cancelled

Accounts == \A c \in Calls : \A id \in ItemsOf(c) : Accounted(id)

Inv ==
  /\ TypeOK /\ CapRespected /\ TruncatedStayClosed
  /\ Owned /\ Sorting /\ Related /\ Unended /\ Warned /\ Accounts

-----------------------------------------------------------------------------
(* What a step leaves alone. *)

\* A step that is not one of call c.
LeavesAlone(c) ==
  /\ pc'[c] = pc[c] /\ req'[c] = req[c] /\ k'[c] = k[c]
  /\ pend'[c] = pend[c] /\ byp'[c] = byp[c]

LEMMA Others ==
  ASSUME TypeOK, NEW c \in Calls, CallStep(c)
  PROVE  \A d \in Calls \ {c} : LeavesAlone(d)
<1>1. CASE Begin(c) \/ Refuse(c) \/ Cancel(c) \/ MapTraces(c) \/ Bucket(c) \/ Bucketed(c)
  BY <1>1 DEF Begin, Refuse, Cancel, MapTraces, Bucket, Bucketed, TypeOK, LeavesAlone
<1>2. CASE Bypass(c) \/ BypassCancelled(c) \/ Lock(c) \/ Stream(c) \/ Relock(c)
  BY <1>2 DEF Bypass, BypassCancelled, Lock, Stream, Relock, TypeOK, LeavesAlone
<1>3. CASE Divert(c) \/ Overflow(c) \/ Keep(c) \/ Finish(c) \/ Return(c)
  BY <1>3 DEF Divert, Overflow, Keep, Finish, Return, LeaveToStream, TypeOK, LeavesAlone
<1> QED BY <1>1, <1>2, <1>3 DEF CallStep

LEMMA Background ==
  ASSUME SweepStep \/ StopStep \/ Tick \/ Terminated \/ UNCHANGED vars
  PROVE  UNCHANGED callVars
BY DEF SweepStep, SweepTick, SweepLock, SweepUnlock, SweepExit, SweepFlush, StopStep, StopBegin,
       StopLock, StopEnd, StopFlush, Tick, Terminated, vars, callVars

\* A call that was made stays made, with its request.
LEMMA MadeStays ==
  ASSUME TypeOK, [Next]_vars, NEW c \in Calls, pc[c] # "idle"
  PROVE  pc'[c] # "idle" /\ req'[c] = req[c]
<1>1. ASSUME NEW d \in Calls, CallStep(d) PROVE pc'[c] # "idle" /\ req'[c] = req[c]
  <2>1. CASE d # c
    BY <1>1, <2>1, Others DEF LeavesAlone
  <2>2. CASE d = c
    BY <1>1, <2>2 DEF CallStep, Begin, Refuse, Cancel, MapTraces, Bucket, Bucketed, AfterBypass,
      Bypass, BypassCancelled, Lock, Divert, Overflow, Keep, Finish, Return, LeaveToStream,
      Stream, Relock, TypeOK
  <2> QED BY <2>1, <2>2
<1>2. CASE UNCHANGED callVars
  BY <1>2 DEF callVars
<1> QED BY <1>1, <1>2, Background DEF Next

\* So do its items, and what they are.
LEMMA TakenStays ==
  ASSUME TypeOK, [Next]_vars, NEW id, Taken(id)
  PROVE  /\ Taken(id)'
         /\ ItemOf(id)' = ItemOf(id)
         /\ req'[id[1]] = req[id[1]]
         /\ ItemsOf(id[1])' = ItemsOf(id[1])
<1>1. id[1] \in Calls /\ pc[id[1]] # "idle"
  BY DEF Taken, ItemsOf
<1>2. pc'[id[1]] # "idle" /\ req'[id[1]] = req[id[1]]
  BY <1>1, MadeStays
<1> QED BY <1>1, <1>2 DEF Taken, ItemsOf, Length, ItemOf

-----------------------------------------------------------------------------
(* What a step moves. *)

\* A step of call c that neither prints nor buffers.
Quiet(c) ==
  \/ Begin(c) \/ Refuse(c) \/ Cancel(c) \/ MapTraces(c) \/ Bucket(c) \/ Bucketed(c)
  \/ BypassCancelled(c) \/ Lock(c) \/ Divert(c) \/ Return(c) \/ Relock(c)

\* Nothing is printed, dropped or buffered.
Rests ==
  /\ UNCHANGED <<buf, out, lost, truncated>>
  /\ UNCHANGED callVars \/ \E c \in Calls : Quiet(c)

\* Buffer b of run r is printed, with or without the item of call c that is added to it.
Flushes(r, b, reason) ==
  /\ Flush(r, b, reason)
  /\ \/ /\ \/ reason = "overflow" /\ r \notin truncated /\ Full(r)
           \/ reason \in {"idle", "shutdown"} /\ r \in open
        /\ b = buf[r]
        /\ \A c \in Calls : Waiting(c)' = Waiting(c) /\ ItemsOf(c)' = ItemsOf(c)
     \/ /\ reason = "root"
        /\ \E c \in Calls : Finish(c) /\ r = Current(c).run /\ b = Appended(r, Current(c).id, c)

LEMMA Moves ==
  ASSUME TypeOK, [Next]_vars
  PROVE  \/ Rests
         \/ \E c \in Calls : Bypass(c) \/ Stream(c) \/ Keep(c)
         \/ \E r \in Runs, reason \in Reasons : \E b \in Buffer : Flushes(r, b, reason)
<1>1. ASSUME NEW c \in Calls, CallStep(c), ~Overflow(c), ~Finish(c)
      PROVE  Rests \/ Bypass(c) \/ Stream(c) \/ Keep(c)
  <2>1. CASE Quiet(c)
    BY <2>1 DEF Quiet, Begin, Refuse, Cancel, MapTraces, Bucket, Bucketed, BypassCancelled, Lock,
                Divert, Return, Relock, Rests, bufferVars, outVars
  <2> QED BY <1>1, <2>1 DEF CallStep, Quiet
<1>2. ASSUME NEW c \in Calls, Overflow(c)
      PROVE  \E r \in Runs : buf[r] \in Buffer /\ Flushes(r, buf[r], "overflow")
  <2>1. Current(c).run \in Runs
    BY <1>2, CurrentType DEF Overflow, Appending
  <2>2. buf[Current(c).run] \in Buffer
    BY <2>1 DEF TypeOK
  <2>3. ASSUME NEW d \in Calls PROVE Waiting(d)' = Waiting(d) /\ ItemsOf(d)' = ItemsOf(d)
    <3>1. k' = k /\ pend' = pend /\ req' = req
      BY <1>2 DEF Overflow
    <3>2. CASE d # c
      <4>1. pc'[d] = pc[d]
        BY <1>2, <3>2 DEF Overflow, LeaveToStream, TypeOK
      <4> QED BY <3>1, <4>1 DEF Waiting, ItemsOf, Length
    <3>3. CASE d = c
      <4>1. pc[d] = "append" /\ pc'[d] = "stream"
        BY <1>2, <3>3 DEF Overflow, Appending, LeaveToStream, TypeOK
      <4> QED BY <3>1, <4>1 DEF Waiting, ItemsOf, Length
    <3> QED BY <3>2, <3>3
  <2> QED BY <1>2, <2>1, <2>2, <2>3 DEF Overflow, Flushes
<1>3. ASSUME NEW c \in Calls, Finish(c)
      PROVE  \E r \in Runs : \E b \in Buffer : Flushes(r, b, "root")
  <2>1. pc[c] = "append" /\ Current(c).run \in Runs /\ Current(c).id \in ItemsOf(c)
    BY <1>3, CurrentType DEF Finish, Appending
  <2>2. Current(c).id \in ItemIds /\ ItemOf(Current(c).id).outcome \in Outcomes \cup {NoOutcome}
    BY <2>1, ItemType DEF Item
  <2>3. Appended(Current(c).run, Current(c).id, c) \in Buffer
    BY <2>1, <2>2, AppendedType
  <2> QED BY <1>3, <2>1, <2>3 DEF Finish, Flushes
<1>4. ASSUME NEW r \in Runs, SweepFlush(r) \/ StopFlush(r)
      PROVE  buf[r] \in Buffer /\ (Flushes(r, buf[r], "idle") \/ Flushes(r, buf[r], "shutdown"))
  <2>1. buf[r] \in Buffer /\ r \in open
    BY <1>4 DEF TypeOK, SweepFlush, StopFlush, Due
  <2>2. \A c \in Calls : Waiting(c)' = Waiting(c) /\ ItemsOf(c)' = ItemsOf(c)
    BY <1>4 DEF SweepFlush, StopFlush, callVars, Waiting, ItemsOf, Length
  <2> QED BY <1>4, <2>1, <2>2 DEF SweepFlush, StopFlush, Flushes
<1>5. CASE SweepTick \/ SweepLock \/ SweepUnlock \/ SweepExit \/ StopBegin \/ StopLock \/ StopEnd
           \/ Tick \/ Terminated \/ UNCHANGED vars
  BY <1>5 DEF SweepTick, SweepLock, SweepUnlock, SweepExit, StopBegin, StopLock, StopEnd, Tick,
              Terminated, Rests, callVars, bufferVars, outVars, vars
<1> QED BY <1>1, <1>2, <1>3, <1>4, <1>5 DEF Next, CallStep, SweepStep, StopStep, Reasons

-----------------------------------------------------------------------------
(* Where the items are after it. *)

LEMMA Its ==
  ASSUME NEW c \in Calls, NEW id \in ItemsOf(c)
  PROVE  id[1] = c /\ Taken(id)
BY DEF ItemsOf, Taken

\* One entry more on stdout.
LEMMA Appends ==
  ASSUME TypeOK, NEW e, out' = Append(out, e)
  PROVE  /\ DOMAIN out' = DOMAIN out \cup {Len(out) + 1}
         /\ Len(out) + 1 \notin DOMAIN out
         /\ out'[Len(out) + 1] = e
         /\ \A n \in DOMAIN out : out'[n] = out[n] /\ n \in Nat /\ n < Len(out) + 1
BY LenProperties DEF TypeOK

\* One item more in a buffer.
LEMMA AppendedItems ==
  ASSUME TypeOK, NEW r \in Runs, NEW id \in ItemIds, NEW c \in Calls
  PROVE  /\ Appended(r, id, c).items = Append(buf[r].items, id)
         /\ DOMAIN Appended(r, id, c).items = DOMAIN buf[r].items \cup {Len(buf[r].items) + 1}
         /\ Len(buf[r].items) + 1 \notin DOMAIN buf[r].items
         /\ Appended(r, id, c).items[Len(buf[r].items) + 1] = id
         /\ \A n \in DOMAIN buf[r].items : Appended(r, id, c).items[n] = buf[r].items[n]
         /\ Range(Appended(r, id, c).items) = Range(buf[r].items) \cup {id}
<1> DEFINE s == buf[r].items
           t == Append(s, id)
<1>1. s \in Seq(ItemIds)
  BY DEF TypeOK, Buffer
<1>2. Appended(r, id, c).items = t
  BY DEF Appended
<1>3. /\ DOMAIN t = DOMAIN s \cup {Len(s) + 1}
      /\ Len(s) + 1 \notin DOMAIN s
      /\ t[Len(s) + 1] = id
      /\ \A n \in DOMAIN s : t[n] = s[n]
  BY <1>1, AppendProperties, LenProperties
<1>4. Range(t) = Range(s) \cup {id}
  BY <1>3 DEF Range
<1> QED BY <1>2, <1>3, <1>4

LEMMA AppendedRange ==
  ASSUME TypeOK, NEW r \in Runs, NEW id \in ItemIds, NEW c \in Calls
  PROVE  Range(Appended(r, id, c).items) = Range(buf[r].items) \cup {id}
BY AppendedItems

\* Keep: one item more in the buffer of its run.
LEMMA Kept ==
  ASSUME TypeOK, NEW c \in Calls, Keep(c)
  PROVE  /\ Current(c).run \in Runs /\ Current(c).id \in ItemsOf(c) /\ Current(c).id \in ItemIds
         /\ ~IsRunRootEnd(req[c].signal, ItemOf(Current(c).id))
         /\ buf'[Current(c).run] = Appended(Current(c).run, Current(c).id, c)
         /\ \A s \in Runs \ {Current(c).run} : buf'[s] = buf[s]
         /\ Range(buf'[Current(c).run].items)
              = Range(buf[Current(c).run].items) \cup {Current(c).id}
<1> DEFINE r  == Current(c).run
           id == Current(c).id
<1>1. r \in Runs /\ id \in ItemsOf(c)
  BY CurrentType DEF Keep, Appending
<1>2. id \in ItemIds
  BY <1>1, ItemType
<1>3. buf' = [buf EXCEPT ![r] = Appended(r, id, c)] /\ ~IsRunRootEnd(req[c].signal, ItemOf(id))
  BY DEF Keep
<1>4. buf \in [Runs -> Buffer]
  BY DEF TypeOK
<1>5. Range(Appended(r, id, c).items) = Range(buf[r].items) \cup {id}
  BY <1>1, <1>2, AppendedRange
<1>6. buf'[r] = Appended(r, id, c) /\ \A s \in Runs \ {r} : buf'[s] = buf[s]
  BY <1>1, <1>3, <1>4
<1> QED BY <1>1, <1>2, <1>3, <1>5, <1>6

\* Flush: the buffer is on stdout, or dropped.
LEMMA Flushed ==
  ASSUME TypeOK, NEW r \in Runs, NEW b \in Buffer, NEW reason, Flush(r, b, reason)
  PROVE  /\ \A s \in Runs : buf'[s].items = IF s = r THEN <<>> ELSE buf[s].items
         /\ \E w \in Written(Range(b.items)) :
              /\ out' = Append(out, BlockEntry(r, reason, FooterOutcome(b, reason), b.items, w))
              /\ lost' = lost \cup (Range(b.items) \ w.items)
              /\ w.items \subseteq Range(b.items)
<1>1. buf \in [Runs -> Buffer] /\ buf' = [buf EXCEPT ![r] = EmptyBuffer]
  BY DEF TypeOK, Flush
<1>2. \A s \in Runs : buf'[s] = IF s = r THEN EmptyBuffer ELSE buf[s]
  BY <1>1
<1>3. EmptyBuffer.items = <<>>
  BY DEF EmptyBuffer
<1> QED BY <1>2, <1>3, WrittenPart DEF Flush

\* What is flushed was buffered, or is the item that ends the run.
LEMMA FlushedItems ==
  ASSUME TypeOK, NEW r \in Runs, NEW b \in Buffer, NEW reason, Flushes(r, b, reason)
  PROVE  \/ Range(b.items) = Range(buf[r].items)
         \/ \E c \in Calls : /\ Finish(c) /\ r = Current(c).run
                             /\ Current(c).id \in ItemsOf(c) /\ Current(c).id \in ItemIds
                             /\ b = Appended(r, Current(c).id, c)
                             /\ Range(b.items) = Range(buf[r].items) \cup {Current(c).id}
<1>1. CASE b = buf[r]
  BY <1>1
<1>2. ASSUME NEW c \in Calls, Finish(c), r = Current(c).run, b = Appended(r, Current(c).id, c)
      PROVE  /\ Current(c).id \in ItemsOf(c) /\ Current(c).id \in ItemIds
             /\ Range(b.items) = Range(buf[r].items) \cup {Current(c).id}
  <2>1. Current(c).id \in ItemsOf(c)
    BY <1>2, CurrentType DEF Finish, Appending
  <2>2. Current(c).id \in ItemIds
    BY <2>1, ItemType
  <2>3. Range(Appended(r, Current(c).id, c).items) = Range(buf[r].items) \cup {Current(c).id}
    BY <2>2, AppendedRange, Zenon
  <2> QED BY <1>2, <2>1, <2>2, <2>3
<1> QED BY <1>1, <1>2 DEF Flushes

-----------------------------------------------------------------------------
(* Owned. *)

LEMMA OwnedStep ==
  ASSUME TypeOK, Owned, [Next]_vars
  PROVE  Owned'
<1>0. /\ \A id \in lost : Taken(id)'
      /\ \A n \in DOMAIN out : \A id \in out[n].items : Taken(id)'
      /\ \A r \in Runs : \A id \in Range(buf[r].items) : Taken(id)'
  BY TakenStays DEF Owned
<1>1. ASSUME NEW c \in Calls, NEW id \in ItemsOf(c) PROVE Taken(id)'
  BY <1>1, Its, TakenStays
<1>2. CASE Rests
  BY <1>0, <1>2 DEF Rests, Owned
<1>3. ASSUME NEW e, out' = Append(out, e), \A id \in e.items : Taken(id)'
      PROVE  \A n \in DOMAIN out' : \A id \in out'[n].items : Taken(id)'
  BY <1>0, <1>3, Appends
<1>4. ASSUME NEW c \in Calls, Bypass(c) PROVE Owned'
  <2>1. PICK w \in Written(byp[c]) : out' = Append(out, LinesEntry(NoRun, w))
    BY <1>4 DEF Bypass
  <2>2. \A id \in LinesEntry(NoRun, w).items : Taken(id)'
    BY <1>1, <2>1, WrittenPart DEF LinesEntry, TypeOK, OwnItems
  <2>3. UNCHANGED <<lost, buf>>
    BY <1>4 DEF Bypass, bufferVars
  <2> QED BY <1>0, <1>3, <2>1, <2>2, <2>3 DEF Owned
<1>5. ASSUME NEW c \in Calls, Stream(c) PROVE Owned'
  <2>1. Current(c).id \in ItemsOf(c) /\ buf' = buf
    BY <1>5, CurrentType DEF Stream, TypeOK, InBounds, bufferVars
  <2>2. \A id \in lost' : Taken(id)'
    BY <1>0, <1>1, <1>5, <2>1 DEF Stream
  <2>3. CASE out' = out
    BY <1>0, <2>1, <2>2, <2>3 DEF Owned
  <2>4. ASSUME NEW w \in Written({Current(c).id}), out' = Append(out, LinesEntry(Current(c).run, w))
        PROVE  Owned'
    <3>1. \A id \in LinesEntry(Current(c).run, w).items : Taken(id)'
      BY <1>1, <2>1, <2>4, WrittenPart DEF LinesEntry
    <3> QED BY <1>0, <1>3, <2>1, <2>2, <2>4, <3>1 DEF Owned
  <2> QED BY <1>5, <2>3, <2>4 DEF Stream
<1>6. ASSUME NEW c \in Calls, Keep(c) PROVE Owned'
  <2>1. UNCHANGED <<lost, out>>
    BY <1>6 DEF Keep, outVars
  <2> QED BY <1>0, <1>1, <1>6, <2>1, Kept DEF Owned
<1>7. ASSUME NEW r \in Runs, NEW reason \in Reasons, NEW b \in Buffer, Flushes(r, b, reason)
      PROVE  Owned'
  <2>1. \A id \in Range(b.items) : Taken(id)'
    BY <1>0, <1>1, <1>7, FlushedItems
  <2>2. /\ \A s \in Runs : buf'[s].items = IF s = r THEN <<>> ELSE buf[s].items
        /\ \E w \in Written(Range(b.items)) :
              /\ out' = Append(out, BlockEntry(r, reason, FooterOutcome(b, reason), b.items, w))
              /\ lost' = lost \cup (Range(b.items) \ w.items)
              /\ w.items \subseteq Range(b.items)
    BY <1>7, Flushed DEF Flushes
  <2>3. PICK w \in Written(Range(b.items)) :
          /\ out' = Append(out, BlockEntry(r, reason, FooterOutcome(b, reason), b.items, w))
          /\ lost' = lost \cup (Range(b.items) \ w.items)
          /\ w.items \subseteq Range(b.items)
    BY <2>2
  <2>4. \A id \in BlockEntry(r, reason, FooterOutcome(b, reason), b.items, w).items : Taken(id)'
    BY <2>1, <2>3 DEF BlockEntry
  <2>5. \A n \in DOMAIN out' : \A id \in out'[n].items : Taken(id)'
    BY <1>3, <2>3, <2>4
  <2>6. \A id \in lost' : Taken(id)'
    BY <1>0, <2>1, <2>3
  <2>7. Range(<<>>) = {}
    BY DEF Range
  <2>8. \A s \in Runs : \A id \in Range(buf'[s].items) : Taken(id)'
    BY <1>0, <2>2, <2>7
  <2> QED BY <2>5, <2>6, <2>8 DEF Owned
<1> QED BY <1>2, <1>4, <1>5, <1>6, <1>7, Moves

-----------------------------------------------------------------------------
(* Sorting. *)

\* Bucket looks at the next item of its call, and finds a run id.
LEMMA BucketRun ==
  ASSUME TypeOK, NEW c \in Calls, pc[c] = "bucket", k[c] <= Length(c)
  PROVE  /\ <<c, k[c]>> \in ItemsOf(c)
         /\ RunIdOf(req[c].signal, ItemOf(<<c, k[c]>>)) \in RunIds
         /\ DeclaredRun(req[c].signal, ItemOf(<<c, k[c]>>)) \in RunIds
<1> DEFINE id == <<c, k[c]>>
<1>1. id \in ItemsOf(c) /\ k[c] \in Nat \ {0}
  BY DEF ItemsOf, TypeOK, Length
<1>2. ItemOf(id) \in Item /\ req[c].signal \in Signals
  BY <1>1, ItemType DEF Request
<1>3. DeclaredRun(req[c].signal, ItemOf(id)) \in RunIds
  BY <1>2 DEF DeclaredRun, PointRun, RecordRun, SpanRun, FirstOf, Item, Signals
<1> QED BY <1>1, <1>2, <1>3 DEF RunIdOf, NeedsLookup, Item, TypeOK

\* One pending item more.
LEMMA PendingAppended ==
  ASSUME TypeOK, NEW c \in Calls, pc[c] = "bucket", k[c] <= Length(c), NEW r \in Runs,
         pend' = [pend EXCEPT ![c] = Append(@, [id |-> <<c, k[c]>>, run |-> r])]
  PROVE  /\ DOMAIN pend'[c] = DOMAIN pend[c] \cup {Len(pend[c]) + 1}
         /\ pend'[c][Len(pend[c]) + 1] = [id |-> <<c, k[c]>>, run |-> r]
         /\ \A n \in DOMAIN pend[c] : pend'[c][n] = pend[c][n]
         /\ Len(pend[c]) + 1 \notin DOMAIN pend[c]
<1> DEFINE p == [id |-> <<c, k[c]>>, run |-> r]
<1>1. pend[c] \in Seq(Pending) /\ pend'[c] = Append(pend[c], p)
  BY DEF TypeOK
<1>2. p \in Pending
  BY BucketRun, ItemType DEF Pending
<1>3. /\ DOMAIN pend[c] = 1..Len(pend[c]) /\ Len(pend[c]) \in Nat
      /\ DOMAIN pend'[c] = 1..Len(pend'[c]) /\ Len(pend'[c]) = Len(pend[c]) + 1
      /\ pend'[c][Len(pend[c]) + 1] = p
      /\ \A n \in 1..Len(pend[c]) : pend'[c][n] = pend[c][n]
  BY <1>1, <1>2, AppendProperties, LenProperties
<1> QED BY <1>3

\* Bucket: item <<c, k[c]>> goes to the bypass request or becomes a pending item.
LEMMA BucketSorts ==
  ASSUME TypeOK, NEW c \in Calls, Sorted(c), Bucket(c)
  PROVE  Sorted(c)'
<1> DEFINE id == <<c, k[c]>>
<1>1. k[c] \in Nat \ {0} /\ pend[c] \in Seq(Pending) /\ Length(c)' = Length(c)
  BY DEF Bucket, TypeOK, Length
<1>2. pc'[c] = "bucket" /\ k'[c] = k[c] + 1 /\ k[c] <= Length(c) /\ pc[c] = "bucket"
  BY DEF Bucket, TypeOK
<1>3. PendingIds(c) \cup byp[c] = {<<c, n>> : n \in 1..(k[c] - 1)}
  BY <1>2 DEF Sorted
<1>4. id \notin PendingIds(c) \cup byp[c]
  BY <1>1, <1>3
<1>5. {<<c, n>> : n \in 1..(k'[c] - 1)} = {<<c, n>> : n \in 1..(k[c] - 1)} \cup {id}
  BY <1>1, <1>2
<1>6. Length(c) \in Nat
  <2>1. id \in ItemsOf(c)
    BY <1>1, <1>2 DEF ItemsOf
  <2>2. req[c].items \in Seq(Item)
    BY <2>1, ItemType DEF Request
  <2> QED BY <2>2, LenProperties DEF Length
<1>7. CASE pend' = pend /\ byp' = [byp EXCEPT ![c] = @ \cup {id}]
  <2>1. pend'[c] = pend[c] /\ byp'[c] = byp[c] \cup {id} /\ PendingIds(c)' = PendingIds(c)
    BY <1>7 DEF TypeOK, PendingIds
  <2>2. PendingIds(c)' \cap byp'[c] = {}
    BY <1>4, <2>1 DEF Sorted
  <2>3. PendingIds(c)' \cup byp'[c] = {<<c, n>> : n \in 1..(k'[c] - 1)}
    BY <1>3, <1>5, <2>1
  <2> QED BY <1>1, <1>2, <1>6, <2>1, <2>2, <2>3 DEF Sorted
<1>8. ASSUME NEW r, byp' = byp, pend' = [pend EXCEPT ![c] = Append(@, [id |-> id, run |-> r])],
             r \in Runs
      PROVE  Sorted(c)'
  <2> DEFINE p == [id |-> id, run |-> r]
  <2>1. pend'[c] = Append(pend[c], p) /\ byp'[c] = byp[c]
    BY <1>8 DEF TypeOK
  <2>2. /\ DOMAIN pend'[c] = DOMAIN pend[c] \cup {Len(pend[c]) + 1}
        /\ pend'[c][Len(pend[c]) + 1] = p
        /\ \A n \in DOMAIN pend[c] : pend'[c][n] = pend[c][n]
        /\ Len(pend[c]) + 1 \notin DOMAIN pend[c]
    BY <1>8, PendingAppended DEF Bucket
  <2>3. PendingIds(c)' = PendingIds(c) \cup {id}
    BY <2>2 DEF PendingIds
  <2>4. \A m, n \in DOMAIN pend'[c] : pend'[c][m].id = pend'[c][n].id => m = n
    <3>1. \A n \in DOMAIN pend[c] : pend[c][n].id # id
      BY <1>4 DEF PendingIds
    <3> QED BY <2>2, <3>1 DEF Sorted
  <2>5. PendingIds(c)' \cap byp'[c] = {}
    BY <1>4, <2>1, <2>3 DEF Sorted
  <2>6. PendingIds(c)' \cup byp'[c] = {<<c, n>> : n \in 1..(k'[c] - 1)}
    BY <1>3, <1>5, <2>1, <2>3
  <2> QED BY <1>1, <1>2, <1>6, <2>4, <2>5, <2>6 DEF Sorted
<1>9. RunIdOf(req[c].signal, ItemOf(id)) \in RunIds
  BY <1>2, BucketRun
<1> QED BY <1>7, <1>8, <1>9 DEF Bucket, Bypasses, RunIds

LEMMA SortingStep ==
  ASSUME TypeOK, Sorting, [Next]_vars
  PROVE  Sorting'
<1>1. ASSUME NEW d \in Calls, LeavesAlone(d) PROVE Sorted(d)'
  <2>1. PendingIds(d)' = PendingIds(d) /\ Length(d)' = Length(d) /\ ItemsOf(d)' = ItemsOf(d)
    BY <1>1 DEF LeavesAlone, PendingIds, Length, ItemsOf
  <2> QED BY <1>1, <2>1 DEF LeavesAlone, Sorting, Sorted
<1>2. ASSUME NEW c \in Calls, CallStep(c) PROVE Sorted(c)'
  <2>0. Sorted(c)
    BY DEF Sorting
  <2>1. ASSUME pend'[c] = pend[c], byp'[c] = byp[c],
               pc'[c] \notin {"idle", "map", "bucket", "bypass"}
        PROVE  Sorted(c)'
    BY <2>0, <2>1 DEF Sorted, PendingIds
  <2>2. ASSUME k[c] = 1, pend[c] = <<>>, byp[c] = {}, k'[c] = 1, pend'[c] = <<>>, byp'[c] = {},
               pc'[c] \in {"map", "bucket"}, req'[c] \in Request
        PROVE  Sorted(c)'
    <3>1. PendingIds(c)' = {}
      BY <2>2 DEF PendingIds
    <3>2. Length(c)' \in Nat
      BY <2>2, LenProperties DEF Length, Request
    <3> QED BY <2>2, <3>1, <3>2 DEF Sorted
  <2>3. CASE Begin(c)
    BY <2>0, <2>2, <2>3, RequestAssumption DEF Begin, Sorted, TypeOK
  <2>4. CASE MapTraces(c)
    BY <2>0, <2>2, <2>4, RequestAssumption DEF MapTraces, Sorted, TypeOK
  <2>5. CASE Cancel(c)
    BY <2>5, <1>1 DEF Cancel, LeavesAlone
  <2>6. CASE Bucketed(c)
    <3>1. /\ pend' = pend /\ byp' = byp /\ req' = req /\ k'[c] = 1 /\ pc[c] = "bucket"
          /\ k[c] > Length(c) /\ k[c] \in Nat /\ req[c] \in Request
          /\ pc'[c] # "bypass" => pc'[c] \in {"ok", "lock"}
      BY <2>6, RequestAssumption DEF Bucketed, AfterBypass, TypeOK
    <3>2. Length(c) \in Nat
      BY <3>1, LenProperties DEF Length, Request
    <3>3. k[c] - 1 = Length(c)
      BY <2>0, <3>1, <3>2 DEF Sorted
    <3>4. PendingIds(c)' = PendingIds(c) /\ ItemsOf(c)' = {<<c, n>> : n \in 1..Length(c)}
      BY <3>1, <2>6 DEF PendingIds, ItemsOf, Length, Bucketed, AfterBypass, TypeOK
    <3>5. PendingIds(c) \cup byp[c] = {<<c, n>> : n \in 1..Length(c)}
      BY <2>0, <3>1, <3>3 DEF Sorted
    <3> QED BY <2>0, <2>1, <3>1, <3>4, <3>5 DEF Sorted
  <2>7. CASE Refuse(c) \/ Bypass(c) \/ BypassCancelled(c) \/ Lock(c)
    BY <2>1, <2>7 DEF Refuse, Bypass, BypassCancelled, Lock, AfterBypass, TypeOK
  <2>8. CASE Divert(c) \/ Overflow(c) \/ Keep(c) \/ Finish(c) \/ Return(c) \/ Stream(c) \/ Relock(c)
    BY <2>1, <2>8 DEF Divert, Overflow, Keep, Finish, Return, Stream, Relock, Appending,
                      LeaveToStream, TypeOK
  <2>9. CASE Bucket(c)
    BY <2>0, <2>9, BucketSorts
  <2> QED BY <1>2, <2>3, <2>4, <2>5, <2>6, <2>7, <2>8, <2>9 DEF CallStep
<1>3. ASSUME NEW c \in Calls, CallStep(c) PROVE Sorting'
  BY <1>1, <1>2, <1>3, Others DEF Sorting
<1>4. CASE UNCHANGED callVars
  BY <1>1, <1>4 DEF callVars, LeavesAlone, Sorting
<1> QED BY <1>3, <1>4, Background DEF Next

-----------------------------------------------------------------------------
(* Related. *)

LEMMA NamedStays ==
  ASSUME TypeOK, [Next]_vars, NEW t, NEW r, Named(t, r)
  PROVE  Named(t, r)'
<1>1. PICK c \in Calls : \E id \in ItemsOf(c) :
        req[c].signal = "traces" /\ ItemOf(id).trace = t /\ ItemOf(id).own = r
  BY DEF Named
<1>0. PICK id \in ItemsOf(c) :
        req[c].signal = "traces" /\ ItemOf(id).trace = t /\ ItemOf(id).own = r
  BY <1>1
<1>2. id[1] = c /\ Taken(id)
  BY Its
<1>3. id \in ItemsOf(c)' /\ ItemOf(id)' = ItemOf(id) /\ req'[c] = req[c]
  BY <1>0, <1>2, TakenStays
<1> QED BY <1>0, <1>3 DEF Named

LEMMA BelongsStays ==
  ASSUME TypeOK, [Next]_vars, NEW id, NEW r, Taken(id), Belongs(id, r)
  PROVE  Belongs(id, r)'
<1>1. ItemOf(id)' = ItemOf(id) /\ req'[id[1]] = req[id[1]]
  BY TakenStays
<1>2. \A t : Named(t, r) => Named(t, r)'
  BY NamedStays
<1> QED BY <1>1, <1>2 DEF Belongs

\* Only MapTraces adds an entry to traceToRun.
LEMMA TracesMove ==
  ASSUME TypeOK, [Next]_vars
  PROVE  \/ \E c \in Calls : MapTraces(c)
         \/ \A t \in Traces : traceToRun'[t] \in {NoRun, traceToRun[t]}
<1>1. ASSUME NEW r, NEW b, NEW reason, Flush(r, b, reason)
      PROVE  \A t \in Traces : traceToRun'[t] \in {NoRun, traceToRun[t]}
  BY <1>1 DEF Flush, ForgetTraces
<1>2. ASSUME NEW c \in Calls, CallStep(c), ~MapTraces(c)
      PROVE  \A t \in Traces : traceToRun'[t] \in {NoRun, traceToRun[t]}
  BY <1>1, <1>2 DEF CallStep, Begin, Refuse, Cancel, Bucket, Bucketed, Bypass, BypassCancelled,
                    Lock, Divert, Overflow, Keep, Finish, Return, Stream, Relock, bufferVars
<1>3. CASE SweepStep \/ StopStep \/ Tick \/ Terminated \/ UNCHANGED vars
  BY <1>1, <1>3 DEF SweepStep, SweepTick, SweepLock, SweepUnlock, SweepExit, SweepFlush,
       StopStep, StopBegin, StopLock, StopEnd, StopFlush, Tick, Terminated, vars, bufferVars
<1> QED BY <1>2, <1>3 DEF Next

LEMMA NamedTracesStep ==
  ASSUME TypeOK, Related, [Next]_vars
  PROVE  NamedTraces'
<1>1. \A t, r : Named(t, r) => Named(t, r)'
  BY NamedStays
<1>2. ASSUME NEW c \in Calls, MapTraces(c), NEW t \in Traces, NEW i \in DOMAIN req[c].items,
             LastNaming(req[c], t, i)
      PROVE  Named(t, req[c].items[i].own)
  <2>1. pc[c] = "map" /\ req[c] \in Request /\ req[c].signal = "traces"
    BY <1>2, RequestAssumption DEF MapTraces, TypeOK, Related, Placed
  <2>2. i \in 1..Length(c)
    BY <2>1, LenProperties DEF Request, Length
  <2>3. <<c, i>> \in ItemsOf(c) /\ ItemOf(<<c, i>>) = req[c].items[i]
    BY <2>1, <2>2 DEF ItemsOf, ItemOf
  <2> QED BY <1>2, <2>1, <2>3 DEF Named, LastNaming
<1>3. ASSUME NEW c \in Calls, MapTraces(c), NEW t \in Traces, traceToRun'[t] # NoRun
      PROVE  Named(t, traceToRun'[t])
  <2>1. CASE \E i \in DOMAIN req[c].items : LastNaming(req[c], t, i)
    <3> DEFINE i == CHOOSE i \in DOMAIN req[c].items : LastNaming(req[c], t, i)
    <3>1. i \in DOMAIN req[c].items /\ LastNaming(req[c], t, i)
      BY <2>1
    <3>2. traceToRun'[t] = req[c].items[i].own
      BY <1>3, <2>1 DEF MapTraces
    <3>3. Named(t, req[c].items[i].own)
      BY <1>2, <1>3, <3>1
    <3> QED BY <3>2, <3>3
  <2>2. CASE ~ \E i \in DOMAIN req[c].items : LastNaming(req[c], t, i)
    <3>1. traceToRun'[t] = traceToRun[t]
      BY <1>3, <2>2 DEF MapTraces
    <3> QED BY <1>3, <3>1 DEF Related, NamedTraces
  <2> QED BY <2>1, <2>2
<1>4. \A t \in Traces : traceToRun'[t] # NoRun => Named(t, traceToRun'[t])
  BY <1>3, TracesMove DEF Related, NamedTraces
<1> QED BY <1>1, <1>4 DEF NamedTraces

\* Only Begin and Bucket give a call something to place.
LEMMA Placing ==
  ASSUME TypeOK, NEW c \in Calls, CallStep(c)
  PROVE  \/ Begin(c)
         \/ Bucket(c)
         \/ /\ pend'[c] = pend[c] /\ byp'[c] = byp[c]
            /\ pc'[c] = "map" => pc[c] = "map" /\ req'[c] = req[c]
BY DEF CallStep, Refuse, Cancel, MapTraces, Bucketed, AfterBypass, Bypass, BypassCancelled,
       Lock, Divert, Overflow, Keep, Finish, Return, Stream, Relock, LeaveToStream, TypeOK

LEMMA BucketPlaces ==
  ASSUME TypeOK, Related, NEW c \in Calls, Bucket(c)
  PROVE  /\ \A n \in DOMAIN pend'[c] : Belongs(pend'[c][n].id, pend'[c][n].run)
         /\ \A id \in byp'[c] : DeclaredRun(req[c].signal, ItemOf(id)) = NoRun
<1> DEFINE id == <<c, k[c]>>
           r  == RunIdOf(req[c].signal, ItemOf(id))
<1>1. Placed(c) /\ NamedTraces
  BY DEF Related
<1>2. id \in ItemsOf(c) /\ r \in RunIds /\ id[1] = c
  BY BucketRun DEF Bucket
<1>3. CASE r = NoRun /\ pend' = pend /\ byp' = [byp EXCEPT ![c] = @ \cup {id}]
  <2>1. DeclaredRun(req[c].signal, ItemOf(id)) = NoRun
    BY <1>3 DEF RunIdOf, NeedsLookup, DeclaredRun, SpanRun
  <2>2. byp'[c] = byp[c] \cup {id}
    BY <1>3 DEF TypeOK
  <2> QED BY <1>1, <1>3, <2>1, <2>2 DEF Placed
<1>4. CASE /\ r # NoRun /\ byp' = byp
           /\ pend' = [pend EXCEPT ![c] = Append(@, [id |-> id, run |-> r])]
  <2> DEFINE p == [id |-> id, run |-> r]
  <2>1. Belongs(id, r)
    <3>1. CASE NeedsLookup(req[c].signal, ItemOf(id))
      <4>1. r = traceToRun[ItemOf(id).trace] /\ ItemOf(id).trace \in Traces
        <5>1. ItemOf(id).trace \in Traces \cup {NoTrace}
          BY <1>2, ItemType DEF Item
        <5> QED BY <3>1, <5>1 DEF RunIdOf, NeedsLookup
      <4>2. Named(ItemOf(id).trace, r)
        BY <1>1, <1>4, <4>1 DEF NamedTraces
      <4> QED BY <1>2, <3>1, <4>2 DEF Belongs
    <3>2. CASE ~NeedsLookup(req[c].signal, ItemOf(id))
      BY <1>2, <3>2 DEF RunIdOf, Belongs
    <3> QED BY <3>1, <3>2
  <2>2. /\ DOMAIN pend'[c] = DOMAIN pend[c] \cup {Len(pend[c]) + 1}
        /\ pend'[c][Len(pend[c]) + 1] = p
        /\ \A n \in DOMAIN pend[c] : pend'[c][n] = pend[c][n]
    <3>1. r \in Runs /\ pc[c] = "bucket" /\ k[c] <= Length(c)
      BY <1>2, <1>4 DEF Bucket, RunIds
    <3>2. pend' = [pend EXCEPT ![c] = Append(@, [id |-> <<c, k[c]>>, run |-> r])]
      BY <1>4
    <3> QED BY <3>1, <3>2, PendingAppended
  <2> QED BY <1>1, <1>4, <2>1, <2>2 DEF Placed
<1> QED BY <1>3, <1>4 DEF Bucket, Bypasses

LEMMA PlacedStep ==
  ASSUME TypeOK, Related, [Next]_vars, NEW c \in Calls
  PROVE  Placed(c)'
<1>1. \A id, r : Taken(id) /\ Belongs(id, r) => Belongs(id, r)'
  BY BelongsStays
<1>2. \A id : Taken(id) => ItemOf(id)' = ItemOf(id) /\ req'[id[1]] = req[id[1]]
  BY TakenStays
<1>3. /\ \A n \in DOMAIN pend[c] : Taken(pend[c][n].id) /\ pend[c][n].id[1] = c
      /\ \A id \in byp[c] : Taken(id) /\ id[1] = c
  BY Its DEF TypeOK, OwnItems
<1>4. Placed(c)
  BY DEF Related
<1>5. ASSUME pend'[c] = pend[c], byp'[c] = byp[c],
             pc'[c] = "map" => pc[c] = "map" /\ req'[c] = req[c]
      PROVE  Placed(c)'
  BY <1>1, <1>2, <1>3, <1>4, <1>5 DEF Placed
<1>6. CASE Begin(c)
  <2>1. pend'[c] = pend[c] /\ byp'[c] = byp[c] /\ pc[c] = "idle"
    BY <1>6 DEF Begin
  <2>2. pend[c] = <<>> \/ \A n \in DOMAIN pend[c] : FALSE
    BY <1>3, <2>1 DEF Taken, ItemsOf
  <2>3. byp[c] = {}
    BY <1>3, <2>1 DEF Taken, ItemsOf
  <2>4. pc'[c] = "map" => req'[c].signal = "traces"
    BY <1>6 DEF Begin, TypeOK
  <2> QED BY <2>1, <2>2, <2>3, <2>4 DEF Placed
<1>7. CASE Bucket(c)
  <2>1. TypeOK'
    BY TypeStep
  <2>2. pc'[c] = pc[c] /\ req' = req /\ pc[c] = "bucket"
    BY <1>7 DEF Bucket
  <2>3. /\ \A n \in DOMAIN pend'[c] : Belongs(pend'[c][n].id, pend'[c][n].run)
        /\ \A id \in byp'[c] : DeclaredRun(req[c].signal, ItemOf(id)) = NoRun
    BY <1>7, BucketPlaces
  <2>4. /\ \A n \in DOMAIN pend'[c] : Taken(pend'[c][n].id)
        /\ \A id \in byp'[c] : Taken(id)
    <3>1. ItemsOf(c)' = ItemsOf(c)
      BY <2>2 DEF ItemsOf, Length
    <3>2. OwnItems'
      BY <2>1 DEF TypeOK
    <3>3. /\ \A n \in DOMAIN pend'[c] : pend'[c][n].id \in ItemsOf(c)'
          /\ byp'[c] \subseteq ItemsOf(c)'
      BY <3>2 DEF OwnItems
    <3> QED BY <3>1, <3>3, Its
  <2>5. \A id \in byp'[c] : ItemOf(id)' = ItemOf(id)
    BY <2>2 DEF ItemOf
  <2> QED BY <1>1, <2>2, <2>3, <2>4, <2>5 DEF Placed
<1>8. CASE CallStep(c)
  BY <1>5, <1>6, <1>7, <1>8, Placing
<1>9. CASE LeavesAlone(c)
  BY <1>5, <1>9 DEF LeavesAlone
<1>10. CASE UNCHANGED callVars
  BY <1>5, <1>10 DEF callVars
<1> QED BY <1>8, <1>9, <1>10, Others, Background DEF Next

LEMMA RelatedStep ==
  ASSUME TypeOK, Owned, Related, [Next]_vars
  PROVE  Related'
<1>1. \A id, r : Taken(id) /\ Belongs(id, r) => Belongs(id, r)'
  BY BelongsStays
<1>2. \A r \in Runs : \A id \in Range(buf[r].items) : Belongs(id, r)'
  BY <1>1 DEF Owned, Related
<1>3. ASSUME Rests
      PROVE  \A r \in Runs : \A id \in Range(buf'[r].items) : Belongs(id, r)'
  BY <1>2, <1>3 DEF Rests
<1>4. ASSUME NEW c \in Calls, Bypass(c) \/ Stream(c)
      PROVE  \A r \in Runs : \A id \in Range(buf'[r].items) : Belongs(id, r)'
  BY <1>2, <1>4 DEF Bypass, Stream, bufferVars
<1>5. ASSUME NEW c \in Calls, Keep(c)
      PROVE  \A r \in Runs : \A id \in Range(buf'[r].items) : Belongs(id, r)'
  <2>0. PICK id, r : id = Current(c).id /\ r = Current(c).run
    OBVIOUS
  <2>1. Taken(id) /\ Belongs(id, r)
    <3>1. k[c] \in DOMAIN pend[c]
      BY <1>5, LenProperties DEF Keep, Appending, TypeOK
    <3>2. Placed(c)
      BY DEF Related
    <3> QED BY <2>0, <3>1, <3>2, Its DEF Placed, Current, TypeOK, OwnItems
  <2>2. Belongs(id, r)'
    BY <1>1, <2>1
  <2>3. /\ \A s \in Runs \ {r} : buf'[s] = buf[s]
        /\ r \in Runs /\ Range(buf'[r].items) = Range(buf[r].items) \cup {id}
    BY <1>5, <2>0, Kept
  <2> QED BY <1>2, <2>2, <2>3
<1>6. ASSUME NEW r \in Runs, NEW reason \in Reasons, NEW b \in Buffer, Flushes(r, b, reason)
      PROVE  \A s \in Runs : \A id \in Range(buf'[s].items) : Belongs(id, s)'
  <2>1. \A s \in Runs : buf'[s].items = IF s = r THEN <<>> ELSE buf[s].items
    BY <1>6, Flushed DEF Flushes
  <2>2. Range(<<>>) = {}
    BY DEF Range
  <2> QED BY <1>2, <2>1, <2>2
<1>7. \A r \in Runs : \A id \in Range(buf'[r].items) : Belongs(id, r)'
  BY <1>3, <1>4, <1>5, <1>6, Moves
<1> QED BY <1>7, NamedTracesStep, PlacedStep DEF Related

-----------------------------------------------------------------------------
(* Unended. *)

LEMMA EndsStay ==
  ASSUME TypeOK, [Next]_vars, NEW S, \A id \in S : Taken(id)
  PROVE  RootEnds(S)' = RootEnds(S)
<1>1. \A id \in S : ItemOf(id)' = ItemOf(id) /\ req'[id[1]] = req[id[1]]
  BY TakenStays
<1> QED BY <1>1 DEF RootEnds

LEMMA UnendedStep ==
  ASSUME TypeOK, Owned, Unended, [Next]_vars
  PROVE  Unended'
<1>2. ASSUME NEW r \in Runs, NEW id \in Range(buf[r].items)
      PROVE  ~IsRunRootEnd(req'[id[1]].signal, ItemOf(id)')
  <2>1. ~IsRunRootEnd(req[id[1]].signal, ItemOf(id))
    BY DEF Unended, RootEnds
  <2> QED BY <2>1, TakenStays DEF Owned
<1>3. ASSUME NEW r \in Runs, NEW id \in Range(buf'[r].items)
      PROVE  ~IsRunRootEnd(req'[id[1]].signal, ItemOf(id)')
  <2>1. CASE Rests
    BY <1>2, <1>3, <2>1 DEF Rests
  <2>2. ASSUME NEW c \in Calls, Bypass(c) \/ Stream(c)
        PROVE  ~IsRunRootEnd(req'[id[1]].signal, ItemOf(id)')
    <3>1. buf' = buf
      BY <2>2 DEF Bypass, Stream, bufferVars
    <3> QED BY <1>2, <1>3, <3>1
  <2>3. ASSUME NEW c \in Calls, Keep(c)
        PROVE  ~IsRunRootEnd(req'[id[1]].signal, ItemOf(id)')
    <3>1. CASE id \in Range(buf[r].items)
      BY <1>2, <3>1
    <3>2. CASE id \notin Range(buf[r].items)
      <4>1. id = Current(c).id /\ id \in ItemsOf(c) /\ ~IsRunRootEnd(req[c].signal, ItemOf(id))
        BY <1>3, <2>3, <3>2, Kept
      <4>2. id[1] = c /\ Taken(id)
        BY <4>1, Its
      <4> QED BY <4>1, <4>2, TakenStays
    <3> QED BY <3>1, <3>2
  <2>4. ASSUME NEW s \in Runs, NEW reason \in Reasons, NEW b \in Buffer, Flushes(s, b, reason)
        PROVE  ~IsRunRootEnd(req'[id[1]].signal, ItemOf(id)')
    <3>1. buf'[r].items = IF r = s THEN <<>> ELSE buf[r].items
      BY <2>4, Flushed DEF Flushes
    <3>2. Range(<<>>) = {}
      BY DEF Range
    <3> QED BY <1>2, <1>3, <3>1, <3>2
  <2> QED BY <2>1, <2>2, <2>3, <2>4, Moves
<1> QED BY <1>3 DEF Unended, RootEnds

-----------------------------------------------------------------------------
(* Warned. *)

\* What is on stdout stays there, and a truncated run stays truncated.
LEMMA Grows ==
  ASSUME TypeOK, [Next]_vars
  PROVE  /\ \A n \in DOMAIN out : n \in DOMAIN out' /\ out'[n] = out[n]
         /\ truncated \subseteq truncated'
<1>1. ASSUME NEW e, out' = Append(out, e)
      PROVE  \A n \in DOMAIN out : n \in DOMAIN out' /\ out'[n] = out[n]
  BY <1>1, Appends
<1>2. CASE Rests
  BY <1>2 DEF Rests
<1>3. ASSUME NEW c \in Calls, Bypass(c) \/ Stream(c) \/ Keep(c)
      PROVE  truncated' = truncated /\ (out' = out \/ \E e : out' = Append(out, e))
  BY <1>3 DEF Bypass, Stream, Keep, bufferVars, outVars
<1>4. ASSUME NEW r \in Runs, NEW reason \in Reasons, NEW b \in Buffer, Flushes(r, b, reason)
      PROVE  truncated \subseteq truncated' /\ \E e : out' = Append(out, e)
  BY <1>4 DEF Flushes, Flush, TruncatedAfter
<1> QED BY <1>1, <1>2, <1>3, <1>4, Moves

LEMMA StreamsTruncated ==
  ASSUME TypeOK, Warned, [Next]_vars, NEW c \in Calls, pc'[c] = "stream"
  PROVE  Current(c)'.run \in truncated'
<1>1. CASE UNCHANGED <<pc, k, pend>>
  BY <1>1, Grows DEF Warned, Current
<1>2. CASE LeavesAlone(c)
  BY <1>2, Grows DEF Warned, LeavesAlone, Current
<1>3. CASE Divert(c)
  BY <1>3 DEF Divert, Current, bufferVars
<1>4. CASE Overflow(c)
  BY <1>4 DEF Overflow, Flush, TruncatedAfter, Current
<1>5. CASE CallStep(c)
  <2>1. Divert(c) \/ Overflow(c) \/ UNCHANGED <<pc, k, pend>>
    BY <1>5 DEF CallStep, Begin, Refuse, Cancel, MapTraces, Bucket, Bucketed, AfterBypass, Bypass,
      BypassCancelled, Lock, Keep, Finish, Return, Stream, Relock, Appending, TypeOK
  <2> QED BY <1>1, <1>3, <1>4, <2>1
<1>6. CASE UNCHANGED callVars
  BY <1>1, <1>6 DEF callVars
<1> QED BY <1>2, <1>5, <1>6, Others, Background DEF Next

LEMMA WarnedStep ==
  ASSUME TypeOK, Warned, [Next]_vars
  PROVE  Warned'
<1>1. \A r \in truncated : \E n \in DOMAIN out' : out'[n].run = r /\ out'[n].reason = "overflow"
  BY Grows DEF Warned
<1>2. ASSUME NEW r \in truncated'
      PROVE  \E n \in DOMAIN out' : out'[n].run = r /\ out'[n].reason = "overflow"
  <2>1. CASE Rests \/ \E c \in Calls : Bypass(c) \/ Stream(c) \/ Keep(c)
    BY <1>1, <1>2, <2>1 DEF Rests, Bypass, Stream, Keep, bufferVars
  <2>2. ASSUME NEW s \in Runs, NEW reason \in Reasons, NEW b \in Buffer, Flushes(s, b, reason)
        PROVE  \E n \in DOMAIN out' : out'[n].run = r /\ out'[n].reason = "overflow"
    <3>1. CASE r \in truncated
      BY <1>1, <3>1
    <3>2. CASE r \notin truncated
      <4>1. r = s /\ reason = "overflow"
        BY <1>2, <2>2, <3>2 DEF Flushes, Flush, TruncatedAfter
      <4>2. PICK e : out' = Append(out, e) /\ e.run = r /\ e.reason = "overflow"
        BY <2>2, <4>1 DEF Flushes, Flush, BlockEntry
      <4> QED BY <4>2, Appends
    <3> QED BY <3>1, <3>2
  <2> QED BY <2>1, <2>2, Moves
<1>3. \A c \in Calls : pc'[c] = "stream" => Current(c)'.run \in truncated'
  BY StreamsTruncated
<1> QED BY <1>2, <1>3 DEF Warned

-----------------------------------------------------------------------------
(* Accounts: what the calls wait for. *)

\* A call that failed stays failed, and a context that ended stays so.
LEMMA FailuresStay ==
  ASSUME TypeOK, [Next]_vars
  PROVE  /\ cancelled \subseteq cancelled'
         /\ \A c \in Calls : pc[c] = "err" => pc'[c] = "err"
<1>1. ASSUME NEW c \in Calls, CallStep(c)
      PROVE  cancelled \subseteq cancelled' /\ (pc[c] = "err" => pc'[c] = "err")
  BY <1>1 DEF CallStep, Begin, Refuse, Cancel, MapTraces, Bucket, Bucketed, Bypass,
     BypassCancelled, Lock, Divert, Overflow, Keep, Finish, Return, Stream, Relock, Appending
<1>2. CASE UNCHANGED callVars
  BY <1>2 DEF callVars
<1> QED BY <1>1, <1>2, Others, Background DEF Next, LeavesAlone

LEMMA WaitingAlone ==
  ASSUME NEW c \in Calls, LeavesAlone(c)
  PROVE  Waiting(c)' = Waiting(c)
BY DEF LeavesAlone, Waiting, ItemsOf, Length

\* Once its items are bucketed, call c waits for its pendings.
LEMMA WaitingPending ==
  ASSUME NEW c \in Calls, k'[c] = 1, pend' = pend, pc'[c] = AfterBypass(c)
  PROVE  Waiting(c)' = PendingIds(c)
<1>1. CASE pend[c] = <<>>
  BY <1>1 DEF Waiting, PendingIds, AfterBypass
<1>2. CASE pend[c] # <<>>
  <2>1. Waiting(c)' = {pend[c][n].id : n \in 1..Len(pend[c])}
    BY <1>2 DEF Waiting, AfterBypass
  <2> QED BY <2>1 DEF PendingIds
<1> QED BY <1>1, <1>2

LEMMA QuietWaiting ==
  ASSUME TypeOK, Sorting, NEW c \in Calls, Quiet(c), pc[c] # "idle"
  PROVE  Waiting(c)' = Waiting(c) \/ (pc'[c] = "err" /\ Waiting(c)' = {})
<1>1. CASE Cancel(c)
  BY <1>1 DEF Cancel, Waiting, ItemsOf, Length
<1>2. CASE MapTraces(c) \/ Bucket(c)
  <2>1. pc[c] \in {"map", "bucket"} /\ pc'[c] = "bucket" /\ req' = req
    BY <1>2 DEF MapTraces, Bucket, TypeOK
  <2> QED BY <2>1 DEF Waiting, ItemsOf, Length
<1>3. CASE BypassCancelled(c)
  BY <1>3 DEF BypassCancelled, Waiting, TypeOK
<1>4. CASE Lock(c)
  BY <1>4 DEF Lock, Waiting, TypeOK
<1>5. CASE Divert(c)
  BY <1>5 DEF Divert, Appending, LeaveToStream, Waiting, TypeOK
<1>6. CASE Return(c)
  <2>1. k[c] \in Nat /\ k[c] > Len(pend[c]) /\ Len(pend[c]) \in Nat
    BY <1>6, LenProperties DEF Return, TypeOK
  <2>2. k[c]..Len(pend[c]) = {}
    BY <2>1
  <2>3. Waiting(c) = {}
    BY <1>6, <2>2 DEF Return, Waiting
  <2>4. Waiting(c)' = {}
    BY <1>6 DEF Return, Waiting, TypeOK
  <2> QED BY <2>3, <2>4
<1>7. CASE Relock(c)
  BY <1>7 DEF Relock, Waiting, TypeOK
<1>8. CASE Bucketed(c)
  <2>1. /\ pend' = pend /\ byp' = byp /\ req' = req /\ k'[c] = 1 /\ pc[c] = "bucket"
        /\ pc'[c] = IF byp[c] # {} THEN "bypass" ELSE AfterBypass(c)
        /\ k[c] > Length(c) /\ k[c] \in Nat /\ req[c] \in Request
    BY <1>8, RequestAssumption DEF Bucketed, TypeOK
  <2>2. Length(c) \in Nat
    BY <2>1, LenProperties DEF Length, Request
  <2>3. Sorted(c)
    BY DEF Sorting
  <2>4. k[c] - 1 = Length(c)
    BY <2>1, <2>2, <2>3 DEF Sorted
  <2>5. PendingIds(c) \cup byp[c] = ItemsOf(c) /\ Waiting(c) = ItemsOf(c)
    BY <2>1, <2>3, <2>4 DEF Sorted, ItemsOf, Waiting
  <2>6. CASE byp[c] # {}
    BY <2>1, <2>5, <2>6 DEF Waiting, ItemsOf, Length
  <2>7. CASE byp[c] = {}
    BY <2>1, <2>5, <2>7, WaitingPending
  <2> QED BY <2>6, <2>7
<1> QED BY <1>1, <1>2, <1>3, <1>4, <1>5, <1>6, <1>7, <1>8 DEF Quiet, Begin, Refuse

\* The item a call has dealt with is the one thing it no longer waits for.
LEMMA Advances ==
  ASSUME TypeOK, Sorting, NEW c \in Calls, Stream(c) \/ Keep(c) \/ Finish(c)
  PROVE  /\ Current(c).id \in Waiting(c)
         /\ Waiting(c)' = Waiting(c) \ {Current(c).id}
         /\ Current(c).id \in ItemsOf(c) /\ Current(c).id[1] = c
         /\ \A d \in Calls \ {c} : Waiting(d)' = Waiting(d)
         /\ pc'[c] # "err"
<1>1. /\ k[c] \in Nat \ {0} /\ Len(pend[c]) \in Nat /\ k[c] <= Len(pend[c]) /\ pend' = pend
      /\ pc[c] \in {"append", "stream"} /\ DOMAIN pend[c] = 1..Len(pend[c])
  BY LenProperties DEF Stream, Keep, Finish, Appending, TypeOK, InBounds
<1>2. \/ pc'[c] = "again" /\ k'[c] = k[c]
      \/ pc'[c] = "append" /\ k'[c] = k[c] + 1
  BY DEF Stream, Keep, Finish, Appending, TypeOK
<1>3. Waiting(c) = {pend[c][n].id : n \in k[c]..Len(pend[c])}
  BY <1>1 DEF Waiting
<1>4. Waiting(c)' = {pend[c][n].id : n \in (k[c] + 1)..Len(pend[c])}
  BY <1>1, <1>2 DEF Waiting
<1>5. \A m, n \in 1..Len(pend[c]) : pend[c][m].id = pend[c][n].id => m = n
  BY <1>1 DEF Sorting, Sorted
<1>6. Waiting(c)' = Waiting(c) \ {pend[c][k[c]].id} /\ pend[c][k[c]].id \in Waiting(c)
  <2>1. k[c]..Len(pend[c]) = {k[c]} \cup ((k[c] + 1)..Len(pend[c]))
    BY <1>1
  <2>2. \A n \in (k[c] + 1)..Len(pend[c]) : n \in 1..Len(pend[c]) /\ n # k[c]
    BY <1>1
  <2>3. k[c] \in 1..Len(pend[c])
    BY <1>1
  <2>4. \A n \in (k[c] + 1)..Len(pend[c]) : pend[c][n].id # pend[c][k[c]].id
    BY <1>5, <2>2, <2>3
  <2> QED BY <1>3, <1>4, <2>1, <2>4
<1>7. Current(c).id \in ItemsOf(c)
  BY <1>1, CurrentType
<1>8. \A d \in Calls \ {c} : Waiting(d)' = Waiting(d)
  BY Others, WaitingAlone DEF CallStep
<1> QED BY <1>2, <1>6, <1>7, <1>8, Its DEF Current

-----------------------------------------------------------------------------
(* Accounts: where an item is after a step. *)

\* One entry more: its items are printed, once if they were not before.
LEMMA PrintedAfter ==
  ASSUME TypeOK, NEW e, out' = Append(out, e), NEW id
  PROVE  /\ Printed(id)' <=> Printed(id) \/ id \in e.items
         /\ PrintedOnce(id) /\ ~(Printed(id) /\ id \in e.items) => PrintedOnce(id)'
<1>1. /\ DOMAIN out' = DOMAIN out \cup {Len(out) + 1}
      /\ out'[Len(out) + 1] = e
      /\ \A n \in DOMAIN out : out'[n] = out[n]
  BY Appends
<1>2. Printed(id)' <=> Printed(id) \/ id \in e.items
  BY <1>1 DEF Printed
<1>3. ASSUME PrintedOnce(id), ~(Printed(id) /\ id \in e.items) PROVE PrintedOnce(id)'
  BY <1>1, <1>3 DEF Printed, PrintedOnce
<1> QED BY <1>2, <1>3

\* One item more in a buffer.
LEMMA BufferedAfterKeep ==
  ASSUME TypeOK, NEW c \in Calls, Keep(c), NEW id
  PROVE  /\ Buffered(id)' <=> Buffered(id) \/ id = Current(c).id
         /\ BufferedOnce(id) /\ ~(Buffered(id) /\ id = Current(c).id) => BufferedOnce(id)'
<1> DEFINE r == Current(c).run
           i == Current(c).id
<1>1. /\ r \in Runs /\ i \in ItemIds
      /\ buf'[r] = Appended(r, i, c)
      /\ \A s \in Runs \ {r} : buf'[s] = buf[s]
      /\ Range(buf'[r].items) = Range(buf[r].items) \cup {i}
  BY Kept
<1>2. Buffered(id)' <=> Buffered(id) \/ id = i
  BY <1>1 DEF Buffered
<1>3. /\ DOMAIN buf'[r].items = DOMAIN buf[r].items \cup {Len(buf[r].items) + 1}
      /\ buf'[r].items[Len(buf[r].items) + 1] = i
      /\ \A n \in DOMAIN buf[r].items : buf'[r].items[n] = buf[r].items[n]
  BY <1>1, AppendedItems
<1>4. ASSUME BufferedOnce(id), ~(Buffered(id) /\ id = i) PROVE BufferedOnce(id)'
  <2>1. CASE id # i
    <3>1. \A s \in Runs : \A m \in DOMAIN buf'[s].items :
            buf'[s].items[m] = id => m \in DOMAIN buf[s].items /\ buf[s].items[m] = id
      BY <1>1, <1>3, <2>1
    <3> QED BY <1>4, <3>1 DEF BufferedOnce
  <2>2. CASE id = i
    <3>1. \A s \in Runs : \A m \in DOMAIN buf[s].items : buf[s].items[m] # i
      BY <1>4, <2>2 DEF Buffered, Range
    <3>2. \A s \in Runs : \A m \in DOMAIN buf'[s].items :
            buf'[s].items[m] = i => s = r /\ m = Len(buf[r].items) + 1
      BY <1>1, <1>3, <3>1
    <3> QED BY <2>2, <3>2 DEF BufferedOnce
  <2> QED BY <2>1, <2>2
<1> QED BY <1>2, <1>4

\* One buffer less.
LEMMA BufferedAfterFlush ==
  ASSUME TypeOK, NEW r \in Runs, NEW b \in Buffer, NEW reason, Flush(r, b, reason), NEW id
  PROVE  /\ Buffered(id)' <=> \E s \in Runs \ {r} : id \in Range(buf[s].items)
         /\ BufferedOnce(id) => BufferedOnce(id)'
<1>1. \A s \in Runs : buf'[s].items = IF s = r THEN <<>> ELSE buf[s].items
  BY Flushed
<1>2. Range(<<>>) = {} /\ DOMAIN <<>> = {}
  BY DEF Range
<1>3. Buffered(id)' <=> \E s \in Runs \ {r} : id \in Range(buf[s].items)
  BY <1>1, <1>2 DEF Buffered
<1>4. BufferedOnce(id) => BufferedOnce(id)'
  <2>1. \A s \in Runs : \A m \in DOMAIN buf'[s].items :
          m \in DOMAIN buf[s].items /\ buf'[s].items[m] = buf[s].items[m]
    BY <1>1, <1>2
  <2> QED BY <2>1 DEF BufferedOnce
<1> QED BY <1>3, <1>4

\* A write that shows less than it was given is one that failed.
LEMMA WrittenWhole ==
  ASSUME NEW S, NEW w \in Written(S)
  PROVE  /\ w.whole => w.items = S
         /\ ~w.whole => WriterMayFail
<1>1. CASE w = [items |-> S, whole |-> TRUE]
  BY <1>1
<1>2. CASE WriterMayFail /\ w \in [items : SUBSET S, whole : {FALSE}]
  BY <1>2
<1> QED BY <1>1, <1>2 DEF Written

\* The same, in terms of what is shown.
LEMMA WrittenShown ==
  ASSUME NEW S, NEW w \in Written(S)
  PROVE  WriterMayFail \/ w.items = S
<1>1. w = [items |-> S, whole |-> TRUE] => w.items = S
  OBVIOUS
<1> QED BY <1>1 DEF Written

LEMMA AccountsRests ==
  ASSUME TypeOK, Owned, Sorting, [Next]_vars, Rests, NEW c \in Calls, NEW id \in ItemsOf(c)',
         pc[c] # "idle" => Accounted(id)
  PROVE  Accounted(id)'
<1>1. UNCHANGED <<buf, out, lost>>
  BY DEF Rests
<1>2. /\ Printed(id)' <=> Printed(id)
      /\ Buffered(id)' <=> Buffered(id)
      /\ Dropped(id)' <=> Dropped(id)
      /\ PrintedOnce(id)' <=> PrintedOnce(id)
      /\ BufferedOnce(id)' <=> BufferedOnce(id)
  BY <1>1 DEF Printed, Buffered, Dropped, PrintedOnce, BufferedOnce
<1>3. cancelled \subseteq cancelled' /\ (pc[c] = "err" => pc'[c] = "err")
  BY FailuresStay
<1>4. id[1] = c
  BY DEF ItemsOf
<1>5. CASE pc[c] = "idle"
  <2>1. ~Taken(id)
    BY <1>4, <1>5 DEF Taken, ItemsOf
  <2>2. ~Printed(id) /\ ~Buffered(id) /\ ~Dropped(id)
    BY <2>1 DEF Owned, Printed, Buffered, Dropped
  <2>3. PrintedOnce(id) /\ BufferedOnce(id)
    <3>1. \A n \in DOMAIN out : id \notin out[n].items
      BY <2>2 DEF Printed
    <3>2. \A r \in Runs : \A n \in DOMAIN buf[r].items : buf[r].items[n] # id
      BY <2>2 DEF Buffered, Range
    <3> QED BY <3>1, <3>2 DEF PrintedOnce, BufferedOnce
  <2>4. Begin(c) \/ pc'[c] = "err"
    <3>1. pc'[c] # "idle"
      BY DEF ItemsOf
    <3>2. \A d \in Calls : Quiet(d) /\ d # c => pc'[c] = pc[c]
      BY Others DEF Quiet, CallStep, LeavesAlone
    <3>3. Quiet(c)
      BY <1>5, <3>1, <3>2 DEF Rests, callVars
    <3> QED BY <1>5, <3>1, <3>3 DEF Quiet, Begin, Refuse, Cancel, MapTraces, Bucket, Bucketed,
              BypassCancelled, Lock, Divert, Appending, Return, Relock, TypeOK
  <2>5. pc'[c] # "err" => Waits(id)'
    <3>1. ASSUME Begin(c) PROVE id \in Waiting(c)'
      <4>1. pc'[c] \in {"map", "bucket"}
        BY <3>1 DEF Begin, TypeOK
      <4> QED BY <4>1 DEF Waiting
    <3> QED BY <1>4, <2>4, <3>1 DEF Waits
  <2> QED BY <1>2, <1>4, <2>2, <2>3, <2>5 DEF Accounted, Alone
<1>6. CASE pc[c] # "idle"
  <2>1. Waiting(c)' = Waiting(c) \/ (pc'[c] = "err" /\ Waiting(c)' = {})
    <3>1. CASE UNCHANGED callVars
      BY <3>1 DEF callVars, Waiting, ItemsOf, Length
    <3>2. ASSUME NEW d \in Calls, Quiet(d), d # c PROVE Waiting(c)' = Waiting(c)
      BY <3>2, Others, WaitingAlone DEF Quiet, CallStep
    <3>3. CASE Quiet(c)
      BY <1>6, <3>3, QuietWaiting
    <3> QED BY <3>1, <3>2, <3>3 DEF Rests
  <2>2. (Waits(id)' => Waits(id)) /\ (pc'[c] # "err" => (Waits(id)' <=> Waits(id)))
    BY <1>4, <2>1 DEF Waits
  <2> QED BY <1>2, <1>3, <1>4, <1>6, <2>2 DEF Accounted, Alone
<1> QED BY <1>5, <1>6

\* Nobody begins a call in a step that prints or buffers.
LEMMA OldItems ==
  ASSUME TypeOK, [Next]_vars, NEW c \in Calls,
         \/ \E d \in Calls : Bypass(d) \/ Stream(d) \/ Keep(d) \/ Finish(d) \/ Overflow(d)
         \/ \E r \in Runs : SweepFlush(r) \/ StopFlush(r)
  PROVE  ItemsOf(c)' = ItemsOf(c) /\ (pc[c] # "idle" \/ ItemsOf(c) = {})
<1>1. req' = req /\ (pc'[c] = "idle" <=> pc[c] = "idle")
  BY DEF Bypass, AfterBypass, Stream, Keep, Finish, Overflow, LeaveToStream, Appending,
         SweepFlush, StopFlush, callVars, TypeOK
<1> QED BY <1>1 DEF ItemsOf, Length

LEMMA AccountsBypass ==
  ASSUME TypeOK, Sorting, [Next]_vars, NEW d \in Calls, Bypass(d),
         NEW c \in Calls, NEW id \in ItemsOf(c), Accounted(id)
  PROVE  Accounted(id)'
<1>0. id[1] = c
  BY Its
<1>1. PICK w \in Written(byp[d]) :
        /\ out' = Append(out, LinesEntry(NoRun, w))
        /\ pc' = [pc EXCEPT ![d] = IF w.whole THEN AfterBypass(d) ELSE "err"]
  BY DEF Bypass
<1>2. w.items \subseteq byp[d] /\ (w.whole => w.items = byp[d]) /\ w.whole \in BOOLEAN
  BY WrittenPart, WrittenWhole
<1>3. UNCHANGED <<buf, lost, cancelled>>
  BY DEF Bypass, bufferVars
<1>4. /\ Buffered(id)' <=> Buffered(id)
      /\ Dropped(id)' <=> Dropped(id)
      /\ BufferedOnce(id)' <=> BufferedOnce(id)
  BY <1>3 DEF Buffered, Dropped, BufferedOnce
<1>5. LinesEntry(NoRun, w).items = w.items
  BY DEF LinesEntry
<1>6. /\ Printed(id)' <=> Printed(id) \/ id \in w.items
      /\ PrintedOnce(id) /\ ~(Printed(id) /\ id \in w.items) => PrintedOnce(id)'
  BY <1>1, <1>5, PrintedAfter
<1>7. CASE c # d
  <2>1. id \notin byp[d]
    BY <1>0, <1>7, Its DEF TypeOK, OwnItems
  <2>2. Waiting(c)' = Waiting(c) /\ pc'[c] = pc[c]
    BY <1>7, Others, WaitingAlone DEF CallStep, LeavesAlone
  <2> QED BY <1>0, <1>2, <1>3, <1>4, <1>6, <2>1, <2>2 DEF Accounted, Alone, Waits
<1>8. CASE c = d
  <2>1. /\ Waiting(c) = ItemsOf(c) /\ PendingIds(c) \cup byp[c] = ItemsOf(c)
        /\ PendingIds(c) \cap byp[c] = {} /\ k[c] = 1
    BY <1>8 DEF Bypass, Waiting, Sorting, Sorted
  <2>2. Waits(id) /\ ~Dropped(id) /\ ~Buffered(id) /\ ~Printed(id)
    BY <1>0, <2>1 DEF Accounted, Alone, Waits
  <2>3. CASE w.whole
    <3>1. Waiting(c)' = PendingIds(c)
      BY <1>1, <1>8, <2>1, <2>3, WaitingPending DEF Bypass, TypeOK
    <3>2. Waits(id)' <=> id \in PendingIds(c)
      BY <1>0, <3>1 DEF Waits
    <3> QED BY <1>2, <1>4, <1>6, <1>8, <2>1, <2>2, <2>3, <3>2 DEF Accounted, Alone
  <2>4. CASE ~w.whole
    <3>1. pc'[c] = "err"
      BY <1>1, <1>8, <2>4 DEF TypeOK
    <3>2. ~Waits(id)'
      BY <1>0, <3>1 DEF Waits, Waiting
    <3> QED BY <1>0, <1>4, <1>6, <2>2, <3>1, <3>2 DEF Accounted, Alone
  <2> QED BY <1>2, <2>3, <2>4
<1> QED BY <1>7, <1>8

LEMMA AccountsStream ==
  ASSUME TypeOK, Sorting, [Next]_vars, NEW d \in Calls, Stream(d),
         NEW c \in Calls, NEW id \in ItemsOf(c), Accounted(id)
  PROVE  Accounted(id)'
<1>0. id[1] = c
  BY Its
<1>1. PICK i : i = Current(d).id
  OBVIOUS
<1>2. UNCHANGED <<buf, cancelled>> /\ (pc[c] = "err" => pc'[c] = "err")
  BY FailuresStay DEF Stream, bufferVars
<1>3. Waits(id)' <=> Waits(id) /\ id # i
  BY <1>0, <1>1, Advances DEF Waits
<1>4. id = i => Waits(id)
  BY <1>0, <1>1, Advances DEF Waits
<1>5. (Buffered(id)' <=> Buffered(id)) /\ (BufferedOnce(id)' <=> BufferedOnce(id))
  BY <1>2 DEF Buffered, BufferedOnce
<1>6. CASE d \in cancelled /\ lost' = lost \cup {i} /\ out' = out
  <2>1. (Printed(id)' <=> Printed(id)) /\ (PrintedOnce(id)' <=> PrintedOnce(id))
    BY <1>6 DEF Printed, PrintedOnce
  <2>2. Dropped(id)' <=> Dropped(id) \/ id = i
    BY <1>6 DEF Dropped
  <2>3. id = i => id[1] = d
    BY <1>1, Advances
  <2> QED BY <1>2, <1>3, <1>4, <1>5, <1>6, <1>0, <2>1, <2>2, <2>3 DEF Accounted, Alone
<1>7. ASSUME NEW w \in Written({i}),
             out' = Append(out, LinesEntry(Current(d).run, w)),
             lost' = lost \cup ({i} \ w.items)
      PROVE  Accounted(id)'
  <2>1. w.items \subseteq {i} /\ (w.items # {i} => WriterMayFail)
    BY WrittenPart, WrittenWhole
  <2>2. LinesEntry(Current(d).run, w).items = w.items
    BY DEF LinesEntry
  <2>3. /\ Printed(id)' <=> Printed(id) \/ id \in w.items
        /\ PrintedOnce(id) /\ ~(Printed(id) /\ id \in w.items) => PrintedOnce(id)'
    BY <1>7, <2>2, PrintedAfter
  <2>4. Dropped(id)' <=> Dropped(id) \/ (id = i /\ id \notin w.items)
    BY <1>7 DEF Dropped
  <2>5. id \in w.items => id = i
    BY <2>1
  <2>6. Dropped(id)' => WriterMayFail \/ id[1] \in cancelled'
    BY <1>2, <2>1, <2>4 DEF Accounted
  <2> QED BY <1>0, <1>2, <1>3, <1>4, <1>5, <2>3, <2>4, <2>5, <2>6 DEF Accounted, Alone
<1> QED BY <1>1, <1>6, <1>7 DEF Stream

LEMMA AccountsKeep ==
  ASSUME TypeOK, Sorting, [Next]_vars, NEW d \in Calls, Keep(d),
         NEW c \in Calls, NEW id \in ItemsOf(c), Accounted(id)
  PROVE  Accounted(id)'
<1>0. id[1] = c
  BY Its
<1>1. PICK i : i = Current(d).id
  OBVIOUS
<1>2. UNCHANGED <<out, lost, cancelled>> /\ (pc[c] = "err" => pc'[c] = "err")
  BY FailuresStay DEF Keep, outVars
<1>3. (Waits(id)' <=> Waits(id) /\ id # i) /\ (id = i => Waits(id))
  BY <1>0, <1>1, Advances DEF Waits
<1>4. /\ Printed(id)' <=> Printed(id)
      /\ Dropped(id)' <=> Dropped(id)
      /\ PrintedOnce(id)' <=> PrintedOnce(id)
  BY <1>2 DEF Printed, Dropped, PrintedOnce
<1>5. /\ Buffered(id)' <=> Buffered(id) \/ id = i
      /\ BufferedOnce(id) /\ ~(Buffered(id) /\ id = i) => BufferedOnce(id)'
  BY <1>1, BufferedAfterKeep
<1> QED BY <1>0, <1>2, <1>3, <1>4, <1>5 DEF Accounted, Alone

LEMMA AccountsFlush ==
  ASSUME TypeOK, Sorting, [Next]_vars, NEW r \in Runs, NEW b \in Buffer, NEW reason,
         Flushes(r, b, reason), NEW c \in Calls, NEW id \in ItemsOf(c), Accounted(id)
  PROVE  Accounted(id)'
<1>0. id[1] = c
  BY Its
<1>1. cancelled \subseteq cancelled' /\ (pc[c] = "err" => pc'[c] = "err")
  BY FailuresStay
<1>2. PICK w \in Written(Range(b.items)) :
        /\ out' = Append(out, BlockEntry(r, reason, FooterOutcome(b, reason), b.items, w))
        /\ lost' = lost \cup (Range(b.items) \ w.items)
        /\ w.items \subseteq Range(b.items)
  BY Flushed DEF Flushes
<1>3. Range(b.items) # w.items => WriterMayFail
  BY WrittenPart, WrittenWhole
<1>4. BlockEntry(r, reason, FooterOutcome(b, reason), b.items, w).items = w.items
  BY DEF BlockEntry
<1>5. /\ Printed(id)' <=> Printed(id) \/ id \in w.items
      /\ PrintedOnce(id) /\ ~(Printed(id) /\ id \in w.items) => PrintedOnce(id)'
  BY <1>2, <1>4, PrintedAfter
<1>6. Dropped(id)' <=> Dropped(id) \/ (id \in Range(b.items) /\ id \notin w.items)
  BY <1>2 DEF Dropped
<1>7. /\ Buffered(id)' <=> \E s \in Runs \ {r} : id \in Range(buf[s].items)
      /\ BufferedOnce(id) => BufferedOnce(id)'
  BY BufferedAfterFlush DEF Flushes
<1>8. id \in Range(buf[r].items) => Buffered(id) /\ ~Buffered(id)'
  <2>1. BufferedOnce(id)
    BY DEF Accounted
  <2>2. ASSUME id \in Range(buf[r].items), NEW s \in Runs, id \in Range(buf[s].items) PROVE s = r
    <3>1. (\E m \in DOMAIN buf[r].items : buf[r].items[m] = id)
          /\ (\E n \in DOMAIN buf[s].items : buf[s].items[n] = id)
      BY <2>2 DEF Range
    <3> QED BY <2>1, <3>1 DEF BufferedOnce
  <2> QED BY <1>7, <2>2 DEF Buffered
<1>9. id \notin Range(buf[r].items) => (Buffered(id)' <=> Buffered(id))
  BY <1>7 DEF Buffered
<1>10. Dropped(id)' => WriterMayFail \/ id[1] \in cancelled'
  BY <1>1, <1>3, <1>6 DEF Accounted
<1>11. CASE Range(b.items) = Range(buf[r].items) /\ Waiting(c)' = Waiting(c)
  <2>1. Waits(id)' <=> Waits(id)
    BY <1>0, <1>11 DEF Waits
  <2> QED BY <1>0, <1>1, <1>2, <1>5, <1>6, <1>7, <1>8, <1>9, <1>10, <1>11, <2>1 DEF Accounted, Alone
<1>12. ASSUME NEW d \in Calls, Finish(d), NEW i, i = Current(d).id,
              Range(b.items) = Range(buf[r].items) \cup {i}
       PROVE  Accounted(id)'
  <2>1. (Waits(id)' <=> Waits(id) /\ id # i) /\ (id = i => Waits(id))
    BY <1>0, <1>12, Advances DEF Waits
  <2> QED BY <1>0, <1>1, <1>2, <1>5, <1>6, <1>7, <1>8, <1>9, <1>10, <1>12, <2>1 DEF Accounted, Alone
<1>13. CASE b = buf[r] /\ \A a \in Calls : Waiting(a)' = Waiting(a)
  BY <1>11, <1>13
<1>14. CASE \E d \in Calls : Finish(d) /\ r = Current(d).run /\ b = Appended(r, Current(d).id, d)
  <2>1. PICK d \in Calls : Finish(d) /\ r = Current(d).run /\ b = Appended(r, Current(d).id, d)
    BY <1>14
  <2>2. Current(d).id \in ItemIds
    BY <2>1, Advances, ItemType
  <2>3. Range(b.items) = Range(buf[r].items) \cup {Current(d).id}
    BY <2>1, <2>2, AppendedRange, Zenon
  <2> QED BY <1>12, <2>1, <2>3
<1> QED BY <1>13, <1>14 DEF Flushes

LEMMA AccountsStep ==
  ASSUME TypeOK, Owned, Sorting, Accounts, [Next]_vars
  PROVE  Accounts'
<1> SUFFICES ASSUME NEW c \in Calls, NEW id \in ItemsOf(c)' PROVE Accounted(id)'
  BY DEF Accounts
<1>1. ASSUME pc[c] # "idle" PROVE id \in ItemsOf(c) /\ Accounted(id)
  BY <1>1, MadeStays DEF Accounts, ItemsOf, Length
<1>2. CASE Rests
  BY <1>1, <1>2, AccountsRests
<1>3. ASSUME NEW d \in Calls, Bypass(d) \/ Stream(d) \/ Keep(d) PROVE Accounted(id)'
  <2>1. id \in ItemsOf(c) /\ Accounted(id)
    BY <1>3, OldItems DEF Accounts
  <2> QED BY <1>3, <2>1, AccountsBypass, AccountsStream, AccountsKeep
<1>4. ASSUME NEW r \in Runs, NEW reason \in Reasons, NEW b \in Buffer, Flushes(r, b, reason)
      PROVE  Accounted(id)'
  <2>1. id \in ItemsOf(c) /\ Accounted(id)
    BY <1>4, OldItems DEF Accounts, Flushes
  <2> QED BY <1>4, <2>1, AccountsFlush
<1> QED BY <1>2, <1>3, <1>4, Moves

-----------------------------------------------------------------------------
(* What is printed. *)

\* The entry a step adds to stdout: lines without the lock, or a block.
AddsBypass(n, c, w) == Bypass(c) /\ out'[n] = LinesEntry(NoRun, w)
AddsStream(n, c, w) == Stream(c) /\ out'[n] = LinesEntry(Current(c).run, w)
AddsBlock(n, r, b, reason, w) ==
  /\ Flushes(r, b, reason)
  /\ out'[n] = BlockEntry(r, reason, FooterOutcome(b, reason), b.items, w)

LEMMA NewEntry ==
  ASSUME TypeOK, [Next]_vars, NEW n \in DOMAIN out', n \notin DOMAIN out
  PROVE  /\ \A m \in DOMAIN out : m \in 1..(n - 1)
         /\ \/ \E c \in Calls : \E w \in Written(byp[c]) : AddsBypass(n, c, w)
            \/ \E c \in Calls : \E w \in Written({Current(c).id}) : AddsStream(n, c, w)
            \/ \E r \in Runs, reason \in Reasons : \E b \in Buffer :
                 \E w \in Written(Range(b.items)) : AddsBlock(n, r, b, reason, w)
<1>1. ASSUME NEW e, out' = Append(out, e)
      PROVE  out'[n] = e /\ \A m \in DOMAIN out : m \in 1..(n - 1)
  <2>1. out \in Seq(Entry) /\ DOMAIN out = 1..Len(out) /\ Len(out) \in Nat
    BY LenProperties DEF TypeOK
  <2> QED BY <1>1, <2>1, Appends
<1>2. CASE Rests \/ \E c \in Calls : Keep(c)
  BY <1>2 DEF Rests, Keep, outVars
<1>3. ASSUME NEW c \in Calls, Bypass(c)
      PROVE  \E w \in Written(byp[c]) : AddsBypass(n, c, w) /\ \A m \in DOMAIN out : m \in 1..(n - 1)
  <2>1. PICK w \in Written(byp[c]) : out' = Append(out, LinesEntry(NoRun, w))
    BY <1>3 DEF Bypass
  <2> QED BY <1>1, <1>3, <2>1 DEF AddsBypass
<1>4. ASSUME NEW c \in Calls, Stream(c)
      PROVE  \E w \in Written({Current(c).id}) :
               AddsStream(n, c, w) /\ \A m \in DOMAIN out : m \in 1..(n - 1)
  <2>1. PICK w \in Written({Current(c).id}) : out' = Append(out, LinesEntry(Current(c).run, w))
    BY <1>4 DEF Stream
  <2> QED BY <1>1, <1>4, <2>1 DEF AddsStream
<1>5. ASSUME NEW r \in Runs, NEW reason \in Reasons, NEW b \in Buffer, Flushes(r, b, reason)
      PROVE  \E w \in Written(Range(b.items)) :
               AddsBlock(n, r, b, reason, w) /\ \A m \in DOMAIN out : m \in 1..(n - 1)
  <2>1. PICK w \in Written(Range(b.items)) :
          out' = Append(out, BlockEntry(r, reason, FooterOutcome(b, reason), b.items, w))
    BY <1>5, Flushed DEF Flushes
  <2> QED BY <1>1, <1>5, <2>1 DEF AddsBlock
<1> QED BY <1>2, <1>3, <1>4, <1>5, Moves

LEMMA EntryKinds ==
  ASSUME NEW n, NEW w
  PROVE  /\ \A c : AddsBypass(n, c, w) \/ AddsStream(n, c, w) => out'[n].kind = "lines"
         /\ \A r, b, reason : AddsBlock(n, r, b, reason, w) => out'[n].kind = "block"
BY DEF AddsBypass, AddsStream, AddsBlock, LinesEntry, BlockEntry

\* The items a block is printed with belong to its run.
LEMMA FlushBelongs ==
  ASSUME TypeOK, Owned, Related, NEW r \in Runs, NEW b \in Buffer, NEW reason,
         Flushes(r, b, reason), NEW id \in Range(b.items)
  PROVE  Taken(id) /\ Belongs(id, r)
<1>1. CASE id \in Range(buf[r].items)
  BY <1>1 DEF Owned, Related
<1>2. ASSUME NEW c \in Calls, Finish(c), r = Current(c).run, id = Current(c).id
      PROVE  Taken(id) /\ Belongs(id, r)
  <2>1. k[c] \in DOMAIN pend[c]
    BY <1>2, LenProperties DEF Finish, Appending, TypeOK
  <2>2. Placed(c)
    BY DEF Related
  <2> QED BY <1>2, <2>1, <2>2, Its DEF Placed, Current, TypeOK, OwnItems
<1> QED BY <1>1, <1>2, FlushedItems

LEMMA PureStep ==
  ASSUME TypeOK, Owned, Related, BlocksArePure, [Next]_vars
  PROVE  BlocksArePure'
<1>1. ASSUME NEW n \in Blocks', NEW id \in out'[n].items, NEW r, r = out'[n].run
      PROVE  Belongs(id, r)'
  <2>1. CASE n \in DOMAIN out
    <3>1. out'[n] = out[n] /\ n \in Blocks
      BY <1>1, <2>1, Grows DEF Blocks
    <3>2. Belongs(id, r)
      BY <1>1, <3>1 DEF BlocksArePure, Belongs
    <3>3. Taken(id)
      BY <1>1, <2>1, <3>1 DEF Owned
    <3> QED BY <3>2, <3>3, BelongsStays
  <2>2. CASE n \notin DOMAIN out
    <3>1. n \in DOMAIN out' /\ out'[n].kind = "block"
      BY <1>1 DEF Blocks
    <3>2. PICK s \in Runs, reason \in Reasons : \E b \in Buffer :
            \E w \in Written(Range(b.items)) : AddsBlock(n, s, b, reason, w)
      BY <2>2, <3>1, NewEntry, EntryKinds
    <3>3. PICK b \in Buffer : \E w \in Written(Range(b.items)) : AddsBlock(n, s, b, reason, w)
      BY <3>2
    <3>4. PICK w \in Written(Range(b.items)) : AddsBlock(n, s, b, reason, w)
      BY <3>3
    <3>5. s = r /\ id \in Range(b.items)
      BY <1>1, <3>4, WrittenPart DEF AddsBlock, BlockEntry
    <3>6. Belongs(id, r)'
      BY <3>4, <3>5, FlushBelongs, BelongsStays DEF AddsBlock
    <3> QED BY <3>6
  <2> QED BY <2>1, <2>2
<1> QED BY <1>1 DEF BlocksArePure, Belongs

\* An item that names a run and is printed in lines was streamed.
LEMMA StreamedStep ==
  ASSUME TypeOK, Owned, Related, Warned, StreamedOnlyAfterTruncation, [Next]_vars
  PROVE  StreamedOnlyAfterTruncation'
<1>1. ASSUME NEW n \in DOMAIN out', n \notin Blocks', NEW id \in out'[n].items,
             NEW r, r = DeclaredRun(req'[id[1]].signal, ItemOf(id)'), r # NoRun
      PROVE  \E m \in 1..(n - 1) : out'[m].run = r /\ out'[m].reason = "overflow"
  <2>1. CASE n \in DOMAIN out
    <3>1. out'[n] = out[n] /\ n \notin Blocks
      BY <1>1, <2>1, Grows DEF Blocks
    <3>2. Taken(id)
      BY <1>1, <2>1, <3>1 DEF Owned
    <3>3. r = DeclaredRun(req[id[1]].signal, ItemOf(id))
      BY <1>1, <3>2, TakenStays
    <3>4. PICK m \in 1..(n - 1) : out[m].run = r /\ out[m].reason = "overflow"
      BY <1>1, <2>1, <3>1, <3>3 DEF StreamedOnlyAfterTruncation
    <3>5. m \in DOMAIN out
      BY <2>1, LenProperties DEF TypeOK
    <3> QED BY <3>4, <3>5, Grows
  <2>2. CASE n \notin DOMAIN out
    <3>0. out'[n].kind # "block"
      BY <1>1 DEF Blocks
    <3>1. ASSUME NEW c \in Calls, NEW w \in Written(byp[c]), AddsBypass(n, c, w)
          PROVE  FALSE
      <4>1. id \in byp[c]
        BY <1>1, <3>1, WrittenPart DEF AddsBypass, LinesEntry
      <4>2. Taken(id) /\ id[1] = c
        BY <4>1, Its DEF TypeOK, OwnItems
      <4>3. DeclaredRun(req[c].signal, ItemOf(id)) = NoRun
        BY <4>1 DEF Related, Placed
      <4> QED BY <1>1, <4>2, <4>3, TakenStays
    <3>2. ASSUME NEW c \in Calls, NEW w \in Written({Current(c).id}), AddsStream(n, c, w)
          PROVE  \E m \in DOMAIN out : out[m].run = r /\ out[m].reason = "overflow"
      <4>1. id = Current(c).id
        BY <1>1, <3>2, WrittenPart DEF AddsStream, LinesEntry
      <4>2. pc[c] = "stream" /\ k[c] \in DOMAIN pend[c]
        BY <3>2, LenProperties DEF AddsStream, Stream, TypeOK, InBounds
      <4>3. Taken(id) /\ id[1] = c /\ Belongs(id, Current(c).run)
        BY <4>1, <4>2, Its DEF Related, Placed, Current, TypeOK, OwnItems
      <4>4. r = DeclaredRun(req[c].signal, ItemOf(id))
        BY <1>1, <4>3, TakenStays
      <4>5. r = Current(c).run
        BY <1>1, <4>3, <4>4 DEF Belongs, NeedsLookup, DeclaredRun, SpanRun
      <4> QED BY <4>2, <4>5 DEF Warned
    <3>3. PICK m \in DOMAIN out : out[m].run = r /\ out[m].reason = "overflow"
      <4>1. \/ \E c \in Calls : \E w \in Written(byp[c]) : AddsBypass(n, c, w)
            \/ \E c \in Calls : \E w \in Written({Current(c).id}) : AddsStream(n, c, w)
        BY <2>2, <3>0, NewEntry, EntryKinds
      <4> QED BY <3>1, <3>2, <4>1
    <3>4. m \in 1..(n - 1) /\ out'[m] = out[m]
      BY <2>2, NewEntry, Grows
    <3> QED BY <3>3, <3>4
  <2> QED BY <2>1, <2>2
<1> QED BY <1>1 DEF StreamedOnlyAfterTruncation

\* A sequence without repetitions has as many elements as it is long.
LEMMA DistinctCount ==
  ASSUME NEW T, NEW s \in Seq(T), \A m, n \in DOMAIN s : s[m] = s[n] => m = n
  PROVE  Cardinality(Range(s)) = Len(s)
<1>1. Len(s) \in Nat /\ DOMAIN s = 1..Len(s) /\ s \in [1..Len(s) -> Range(s)]
  BY LenProperties DEF Range
<1>2. \A e \in Range(s) : \E n \in 1..Len(s) : s[n] = e
  BY <1>1 DEF Range
<1>3. s \in Surjection(1..Len(s), Range(s))
  BY <1>1, <1>2 DEF Surjection
<1>4. s \in Injection(1..Len(s), Range(s))
  BY <1>1 DEF Injection, IsInjective
<1>5. IsFiniteSet(1..Len(s)) /\ Cardinality(1..Len(s)) = Len(s)
  BY <1>1, FS_Interval
<1> QED BY <1>3, <1>4, <1>5, FS_Surjection

\* A buffer holds no item twice, nor the one that is added to it.
LEMMA BufferDistinct ==
  ASSUME TypeOK, Owned, Accounts, NEW r \in Runs
  PROVE  /\ \A m, n \in DOMAIN buf[r].items : buf[r].items[m] = buf[r].items[n] => m = n
         /\ \A c \in Calls : \A id \in ItemsOf(c) : id \in Waiting(c) => id \notin Range(buf[r].items)
<1>1. ASSUME NEW m \in DOMAIN buf[r].items, NEW n \in DOMAIN buf[r].items,
             buf[r].items[m] = buf[r].items[n]
      PROVE  m = n
  <2>1. buf[r].items[m] \in Range(buf[r].items)
    BY DEF Range
  <2>2. BufferedOnce(buf[r].items[m])
    BY <2>1 DEF Owned, Taken, Accounts, Accounted
  <2> QED BY <1>1, <2>2 DEF BufferedOnce
<1>2. ASSUME NEW c \in Calls, NEW id \in ItemsOf(c), id \in Waiting(c)
      PROVE  id \notin Range(buf[r].items)
  BY <1>2, Its DEF Accounts, Accounted, Alone, Waits, Buffered
<1> QED BY <1>1, <1>2

LEMMA FlushDistinct ==
  ASSUME TypeOK, Owned, Sorting, Accounts, NEW r \in Runs, NEW b \in Buffer, NEW reason,
         Flushes(r, b, reason)
  PROVE  Cardinality(Range(b.items)) = Len(b.items)
<1>1. b.items \in Seq(ItemIds)
  BY DEF Buffer
<1>2. \A m, n \in DOMAIN b.items : b.items[m] = b.items[n] => m = n
  <2>1. CASE b = buf[r]
    BY <2>1, BufferDistinct
  <2>2. ASSUME NEW c \in Calls, Finish(c), NEW i, i = Current(c).id, b = Appended(r, i, c)
        PROVE  \A m, n \in DOMAIN b.items : b.items[m] = b.items[n] => m = n
    <3>1. i \in Waiting(c) /\ i \in ItemsOf(c)
      BY <2>2, Advances
    <3>2. i \in ItemIds
      BY <3>1, ItemType
    <3>3. /\ DOMAIN b.items = DOMAIN buf[r].items \cup {Len(buf[r].items) + 1}
          /\ b.items[Len(buf[r].items) + 1] = i
          /\ \A n \in DOMAIN buf[r].items : b.items[n] = buf[r].items[n]
      BY <2>2, <3>2, AppendedItems
    <3>4. /\ \A m, n \in DOMAIN buf[r].items : buf[r].items[m] = buf[r].items[n] => m = n
          /\ \A n \in DOMAIN buf[r].items : buf[r].items[n] # i
      BY <3>1, BufferDistinct DEF Range
    <3> QED BY <3>3, <3>4
  <2> QED BY <2>1, <2>2 DEF Flushes
<1> QED BY <1>1, <1>2, DistinctCount

\* The root span that ends the run of a block, if any, is the last item added.
LEMMA FlushEnds ==
  ASSUME TypeOK, Unended, NEW r \in Runs, NEW b \in Buffer, NEW reason, Flushes(r, b, reason)
  PROVE  \/ /\ reason # "root"
            /\ RootEnds(Range(b.items)) = {}
            /\ FooterOutcome(b, reason) \in {NoOutcome, "<unknown>"}
         \/ /\ reason = "root"
            /\ \E i \in Range(b.items) : /\ RootEnds(Range(b.items)) = {i}
                                         /\ FooterOutcome(b, reason) = ItemOf(i).outcome
<1>1. CASE reason \in {"overflow", "idle", "shutdown"} /\ b = buf[r]
  BY <1>1 DEF Unended, FooterOutcome
<1>2. ASSUME NEW c \in Calls, Finish(c), r = Current(c).run, reason = "root",
             NEW i, i = Current(c).id, b = Appended(r, i, c)
      PROVE  \E j \in Range(b.items) : /\ RootEnds(Range(b.items)) = {j}
                                       /\ FooterOutcome(b, reason) = ItemOf(j).outcome
  <2>1. i \in ItemsOf(c) /\ i[1] = c /\ IsRunRootEnd(req[c].signal, ItemOf(i))
    <3>1. i \in ItemsOf(c)
      BY <1>2, CurrentType DEF Finish, Appending
    <3> QED BY <1>2, <3>1, Its DEF Finish
  <2>2. i \in ItemIds
    BY <2>1, ItemType
  <2>3. Range(b.items) = Range(buf[r].items) \cup {i}
    BY <1>2, <2>2, AppendedRange, Zenon
  <2>4. RootEnds(Range(b.items)) = {i}
    BY <2>1, <2>3 DEF Unended, RootEnds
  <2>5. FooterOutcome(b, reason) = ItemOf(i).outcome
    BY <1>2, <2>1 DEF FooterOutcome, Appended, OutcomeAfter
  <2> QED BY <2>3, <2>4, <2>5
<1> QED BY <1>1, <1>2 DEF Flushes

\* What the footer says of entry e.
FooterTrue(e) ==
  /\ e.whole => Cardinality(e.items) = e.count
  /\ IF e.reason = "root"
     THEN e.whole => \E id \in e.items :
            RootEnds(e.items) = {id} /\ ItemOf(id).outcome = e.outcome
     ELSE RootEnds(e.items) = {} /\ e.outcome \in {NoOutcome, "<unknown>"}

LEMMA FooterStays ==
  ASSUME TypeOK, [Next]_vars, NEW e, FooterTrue(e), \A id \in e.items : Taken(id)
  PROVE  FooterTrue(e)'
<1>1. RootEnds(e.items)' = RootEnds(e.items)
  BY EndsStay
<1>2. \A id \in e.items : ItemOf(id)' = ItemOf(id)
  BY TakenStays
<1> QED BY <1>1, <1>2 DEF FooterTrue

LEMMA FooterStep ==
  ASSUME TypeOK, Owned, Sorting, Related, Unended, Accounts, FooterTellsTheTruth, [Next]_vars
  PROVE  FooterTellsTheTruth'
<1>1. ASSUME NEW n \in Blocks', NEW e, e = out'[n]
      PROVE  FooterTrue(e)'
  <2>1. CASE n \in DOMAIN out
    <3>1. out'[n] = out[n] /\ n \in Blocks
      BY <1>1, <2>1, Grows DEF Blocks
    <3>2. FooterTrue(e)
      BY <1>1, <3>1 DEF FooterTellsTheTruth, FooterTrue
    <3>3. \A id \in e.items : Taken(id)
      BY <1>1, <2>1, <3>1 DEF Owned
    <3> QED BY <3>2, <3>3, FooterStays
  <2>2. CASE n \notin DOMAIN out
    <3>1. n \in DOMAIN out' /\ out'[n].kind = "block"
      BY <1>1 DEF Blocks
    <3>2. PICK r \in Runs, reason \in Reasons : \E b \in Buffer :
            \E w \in Written(Range(b.items)) : AddsBlock(n, r, b, reason, w)
      BY <2>2, <3>1, NewEntry, EntryKinds
    <3>3. PICK b \in Buffer : \E w \in Written(Range(b.items)) : AddsBlock(n, r, b, reason, w)
      BY <3>2
    <3>4. PICK w \in Written(Range(b.items)) : AddsBlock(n, r, b, reason, w)
      BY <3>3
    <3>5. /\ e.items = w.items /\ e.count = Len(b.items) /\ e.reason = reason
          /\ e.whole = w.whole /\ e.outcome = FooterOutcome(b, reason)
      BY <1>1, <3>4 DEF AddsBlock, BlockEntry
    <3>6. w.items \subseteq Range(b.items) /\ (w.whole => w.items = Range(b.items))
      BY WrittenPart, WrittenWhole
    <3>7. Flushes(r, b, reason)
      BY <3>4 DEF AddsBlock
    <3>8. \A id \in e.items : Taken(id)
      BY <3>5, <3>6, <3>7, FlushBelongs
    <3>9. e.whole => Cardinality(e.items) = e.count
      BY <3>5, <3>6, <3>7, FlushDistinct
    <3>10. RootEnds(w.items) \subseteq RootEnds(Range(b.items))
      BY <3>6 DEF RootEnds
    <3>11. FooterTrue(e)
      <4>1. CASE /\ reason # "root" /\ RootEnds(Range(b.items)) = {}
                 /\ FooterOutcome(b, reason) \in {NoOutcome, "<unknown>"}
        BY <3>5, <3>9, <3>10, <4>1 DEF FooterTrue
      <4>2. CASE reason = "root" /\ \E i \in Range(b.items) :
                   RootEnds(Range(b.items)) = {i} /\ FooterOutcome(b, reason) = ItemOf(i).outcome
        BY <3>5, <3>6, <3>9, <4>2 DEF FooterTrue
      <4> QED BY <3>7, <4>1, <4>2, FlushEnds
    <3> QED BY <3>8, <3>11, FooterStays
  <2> QED BY <2>1, <2>2
<1> QED BY <1>1 DEF FooterTellsTheTruth, FooterTrue

-----------------------------------------------------------------------------
(* What keeps an entry of traceToRun from being left behind. *)

Backed(r) ==
  \/ r \in open
  \/ r \in truncated
  \/ \E c \in Calls : StillToAppend(c, r)
  \/ \E c \in Calls : pc[c] = "err"

\* An item that names a run is among the pendings of that run.
LEMMA OwnPending ==
  ASSUME TypeOK, Related, NEW c \in Calls, PendingIds(c) \cup byp[c] = ItemsOf(c),
         NEW id \in ItemsOf(c), ItemOf(id).own # NoRun
  PROVE  \E n \in DOMAIN pend[c] : pend[c][n].id = id /\ pend[c][n].run = ItemOf(id).own
<1>1. req[c].signal \in Signals /\ id[1] = c
  BY ItemType, Its DEF Request
<1>2. DeclaredRun(req[c].signal, ItemOf(id)) = ItemOf(id).own
  BY <1>1 DEF DeclaredRun, PointRun, RecordRun, SpanRun, FirstOf, Signals
<1>3. id \notin byp[c]
  BY <1>2 DEF Related, Placed
<1>4. PICK n \in DOMAIN pend[c] : pend[c][n].id = id
  BY <1>3 DEF PendingIds
<1>5. Belongs(id, pend[c][n].run)
  BY <1>4 DEF Related, Placed
<1> QED BY <1>1, <1>2, <1>4, <1>5 DEF Belongs, NeedsLookup

\* A call with an item of run r still to append has it after a step, or has
\* dealt with it, or has failed.
LEMMA StillStays ==
  ASSUME TypeOK, Sorting, Related, Warned, [Next]_vars, NEW c \in Calls, NEW r \in Runs,
         StillToAppend(c, r), \E t \in Traces : traceToRun'[t] = r
  PROVE  Backed(r)'
<1>0. r # NoRun
  BY SentinelAssumption
<1>1. ASSUME Waiting(c)' = Waiting(c), ItemsOf(c)' = ItemsOf(c), req'[c] = req[c],
             \A n \in DOMAIN pend[c] : n \in DOMAIN pend'[c] /\ pend'[c][n] = pend[c][n],
             pc[c] \in {"bucket", "bypass"} => pc'[c] \in {"bucket", "bypass"}
      PROVE  Backed(r)'
  <2>1. \A id \in ItemsOf(c) : ItemOf(id)' = ItemOf(id)
    BY <1>1, Its DEF ItemOf
  <2> QED BY <1>1, <2>1 DEF StillToAppend, Backed
<1>2. CASE LeavesAlone(c)
  BY <1>1, <1>2, WaitingAlone DEF LeavesAlone, ItemsOf, Length
<1>3. ASSUME pend'[c] = pend[c], Waiting(c)' = PendingIds(c),
             PendingIds(c) \cup byp[c] = ItemsOf(c)
      PROVE  Backed(r)'
  <2>1. \E n \in DOMAIN pend[c] : pend[c][n].run = r
    BY <1>0, <1>3, OwnPending DEF StillToAppend
  <2>2. StillToAppend(c, r)'
    BY <1>3, <2>1 DEF StillToAppend, PendingIds
  <2> QED BY <2>2 DEF Backed
<1>4. ASSUME pc[c] \in {"idle", "map"} PROVE FALSE
  <2>1. pend[c] = <<>>
    BY <1>4 DEF Sorting, Sorted
  <2>2. DOMAIN pend[c] = {}
    BY <2>1
  <2> QED BY <1>4, <2>2 DEF StillToAppend
<1>5. CASE Cancel(c)
  BY <1>1, <1>5 DEF Cancel, Waiting, ItemsOf, Length
<1>6. CASE Bucket(c)
  <2>1. pc[c] = "bucket" /\ pc' = pc /\ req' = req /\ k[c] <= Length(c)
    BY <1>6 DEF Bucket
  <2>2. ItemsOf(c)' = ItemsOf(c) /\ Waiting(c)' = Waiting(c)
    BY <2>1 DEF ItemsOf, Length, Waiting
  <2>3. \A n \in DOMAIN pend[c] : n \in DOMAIN pend'[c] /\ pend'[c][n] = pend[c][n]
    <3>1. CASE pend' = pend
      BY <3>1
    <3>2. ASSUME NEW s \in Runs, pend' = [pend EXCEPT ![c] = Append(@, [id |-> <<c, k[c]>>, run |-> s])]
          PROVE  \A n \in DOMAIN pend[c] : n \in DOMAIN pend'[c] /\ pend'[c][n] = pend[c][n]
      BY <2>1, <3>2, PendingAppended
    <3>3. RunIdOf(req[c].signal, ItemOf(<<c, k[c]>>)) \in RunIds
      BY <2>1, BucketRun
    <3> QED BY <1>6, <3>1, <3>2, <3>3 DEF Bucket, Bypasses, RunIds
  <2> QED BY <1>1, <2>1, <2>2, <2>3
<1>7. CASE Bucketed(c)
  <2>1. /\ pend' = pend /\ byp' = byp /\ req' = req /\ k'[c] = 1 /\ pc[c] = "bucket"
        /\ pc'[c] = IF byp[c] # {} THEN "bypass" ELSE AfterBypass(c)
        /\ k[c] > Length(c) /\ k[c] \in Nat /\ req[c] \in Request
    BY <1>7, RequestAssumption DEF Bucketed, TypeOK
  <2>2. Length(c) \in Nat
    BY <2>1, LenProperties DEF Length, Request
  <2>3. Sorted(c)
    BY DEF Sorting
  <2>4. k[c] - 1 = Length(c)
    BY <2>1, <2>2, <2>3 DEF Sorted
  <2>5. PendingIds(c) \cup byp[c] = ItemsOf(c)
    BY <2>1, <2>3, <2>4 DEF Sorted, ItemsOf
  <2>6. CASE byp[c] # {}
    BY <1>1, <2>1, <2>6 DEF Waiting, ItemsOf, Length
  <2>7. CASE byp[c] = {}
    BY <1>3, <2>1, <2>5, <2>7, WaitingPending
  <2> QED BY <2>6, <2>7
<1>8. CASE Bypass(c)
  <2>1. PICK w \in Written(byp[c]) :
          pc' = [pc EXCEPT ![c] = IF w.whole THEN AfterBypass(c) ELSE "err"]
    BY <1>8 DEF Bypass
  <2>2. PendingIds(c) \cup byp[c] = ItemsOf(c) /\ k'[c] = 1 /\ pend' = pend
    BY <1>8 DEF Bypass, Sorting, Sorted
  <2>3. CASE w.whole
    BY <1>3, <2>1, <2>2, <2>3, WaitingPending DEF TypeOK
  <2>4. CASE ~w.whole
    BY <2>1, <2>4 DEF Backed, TypeOK
  <2> QED BY <2>3, <2>4, WrittenPart
<1>9. CASE BypassCancelled(c)
  BY <1>9 DEF BypassCancelled, Backed, TypeOK
<1>10. CASE Lock(c) \/ Divert(c) \/ Return(c) \/ Relock(c)
  <2>1. /\ Waiting(c)' = Waiting(c) /\ UNCHANGED <<req, pend>>
        /\ pc[c] \notin {"idle", "bucket", "bypass"} /\ pc'[c] # "idle"
    BY <1>10, QuietWaiting DEF Quiet, Lock, Divert, Return, Relock, Appending, LeaveToStream, TypeOK
  <2> QED BY <1>1, <2>1 DEF ItemsOf, Length
<1>11. CASE Overflow(c)
  BY <1>1, <1>11 DEF Overflow, Appending, LeaveToStream, Waiting, ItemsOf, Length, TypeOK
<1>12. CASE Stream(c) \/ Keep(c) \/ Finish(c)
  <2>1. /\ k[c] \in DOMAIN pend[c] /\ pend' = pend
        /\ pc[c] \in {"append", "stream"}
    BY <1>12, LenProperties DEF Stream, Keep, Finish, Appending, TypeOK, InBounds
  <2>2. PICK n \in DOMAIN pend[c] : pend[c][n].run = r /\ pend[c][n].id \in Waiting(c)
    BY <2>1 DEF StillToAppend
  <2>3. CASE pend[c][n].id # Current(c).id
    <3>1. pend[c][n].id \in Waiting(c)'
      BY <1>12, <2>2, <2>3, Advances
    <3>2. StillToAppend(c, r)'
      BY <2>1, <2>2, <3>1 DEF StillToAppend
    <3> QED BY <3>2 DEF Backed
  <2>4. CASE pend[c][n].id = Current(c).id
    <3>1. r = Current(c).run
      BY <2>1, <2>2, <2>4 DEF Sorting, Sorted, Current
    <3>2. CASE Stream(c)
      BY <3>1, <3>2, Grows DEF Stream, Warned, Backed
    <3>3. CASE Keep(c)
      BY <3>1, <3>3 DEF Keep, Backed
    <3>4. CASE Finish(c)
      BY <1>0, <3>1, <3>4 DEF Finish, Flush, ForgetTraces
    <3> QED BY <1>12, <3>2, <3>3, <3>4
  <2> QED BY <2>3, <2>4
<1>13. CASE CallStep(c)
  BY <1>4, <1>5, <1>6, <1>7, <1>8, <1>9, <1>10, <1>11, <1>12, <1>13
     DEF CallStep, Begin, Refuse, MapTraces
<1>14. CASE UNCHANGED callVars
  BY <1>2, <1>14 DEF callVars, LeavesAlone
<1> QED BY <1>2, <1>13, <1>14, Others, Background DEF Next

LEMMA BackedStays ==
  ASSUME TypeOK, Sorting, Related, Warned, [Next]_vars, NEW r \in Runs, Backed(r),
         \E t \in Traces : traceToRun'[t] = r
  PROVE  Backed(r)'
<1>1. CASE r \in open
  <2>1. ASSUME NEW s, NEW b, NEW reason, Flush(s, b, reason) PROVE r \in open'
    BY <1>1, <2>1, SentinelAssumption DEF Flush, ForgetTraces
  <2>2. ASSUME NEW c \in Calls, CallStep(c) PROVE r \in open'
    BY <1>1, <2>1, <2>2 DEF CallStep, Begin, Refuse, Cancel, MapTraces, Bucket, Bucketed, Bypass,
      BypassCancelled, Lock, Divert, Overflow, Keep, Finish, Return, Stream, Relock, bufferVars
  <2>3. ASSUME SweepStep \/ StopStep \/ Tick \/ Terminated \/ UNCHANGED vars PROVE r \in open'
    BY <1>1, <2>1, <2>3 DEF SweepStep, SweepTick, SweepLock, SweepUnlock, SweepExit, SweepFlush,
       StopStep, StopBegin, StopLock, StopEnd, StopFlush, Tick, Terminated, vars, bufferVars
  <2> QED BY <2>2, <2>3 DEF Next, Backed
<1>2. CASE r \in truncated
  BY <1>2, Grows DEF Backed
<1>3. CASE \E c \in Calls : pc[c] = "err"
  BY <1>3, FailuresStay DEF Backed
<1> QED BY <1>1, <1>2, <1>3, StillStays DEF Backed

LEMMA BackedStep ==
  ASSUME TypeOK, Sorting, Related, Warned, TraceEntriesAreBacked, [Next]_vars
  PROVE  TraceEntriesAreBacked'
<1>1. ASSUME NEW t \in Traces, traceToRun'[t] # NoRun, traceToRun'[t] = traceToRun[t],
             NEW r, r = traceToRun'[t]
      PROVE  Backed(r)'
  <2>1. r \in Runs /\ Backed(r)
    BY <1>1 DEF TypeOK, RunIds, TraceEntriesAreBacked, Backed
  <2> QED BY <1>1, <2>1, BackedStays
<1>2. ASSUME NEW c \in Calls, MapTraces(c), NEW t \in Traces,
             NEW i \in DOMAIN req[c].items, LastNaming(req[c], t, i)
      PROVE  StillToAppend(c, req[c].items[i].own)'
  <2>1. pc[c] = "map" /\ pc'[c] = "bucket" /\ req' = req /\ req[c] \in Request
    BY <1>2, RequestAssumption DEF MapTraces, TypeOK
  <2>2. i \in 1..Length(c)
    BY <2>1, LenProperties DEF Request, Length
  <2>3. <<c, i>> \in ItemsOf(c)' /\ ItemOf(<<c, i>>)' = req'[c].items[i]
    BY <2>1, <2>2 DEF ItemsOf, ItemOf, Length
  <2> QED BY <2>1, <2>3 DEF StillToAppend
<1>3. ASSUME NEW c \in Calls, MapTraces(c), NEW t \in Traces, traceToRun'[t] # NoRun,
             NEW r, r = traceToRun'[t]
      PROVE  Backed(r)'
  <2>1. CASE \E i \in DOMAIN req[c].items : LastNaming(req[c], t, i)
    <3>1. PICK i \in DOMAIN req[c].items :
            LastNaming(req[c], t, i) /\ traceToRun'[t] = req[c].items[i].own
      BY <1>3, <2>1 DEF MapTraces
    <3>2. req' = req
      BY <1>3 DEF MapTraces
    <3>3. StillToAppend(c, r)'
      BY <1>2, <1>3, <3>1, <3>2
    <3> QED BY <3>3 DEF Backed
  <2>2. CASE ~ \E i \in DOMAIN req[c].items : LastNaming(req[c], t, i)
    <3>1. traceToRun'[t] = traceToRun[t]
      BY <1>3, <2>2 DEF MapTraces
    <3> QED BY <1>1, <1>3, <3>1
  <2> QED BY <2>1, <2>2
<1>4. ASSUME NEW t \in Traces, traceToRun'[t] # NoRun, NEW r, r = traceToRun'[t]
      PROVE  Backed(r)'
  BY <1>1, <1>3, <1>4, TracesMove
<1> QED BY <1>4 DEF TraceEntriesAreBacked, Backed

-----------------------------------------------------------------------------
(* The theorems. *)

\* What is printed, and what the traces lead to.
Output ==
  /\ BlocksArePure
  /\ StreamedOnlyAfterTruncation
  /\ FooterTellsTheTruth
  /\ TraceEntriesAreBacked

LEMMA InvInit == Init => Inv /\ Output
<1> SUFFICES ASSUME Init PROVE Inv /\ Output
  OBVIOUS
<1>1. TypeOK
  BY TypeInit
<1>2. /\ DOMAIN out = {} /\ Blocks = {} /\ lost = {} /\ open = {} /\ truncated = {}
      /\ \A r \in Runs : buf[r].items = <<>> /\ Range(buf[r].items) = {}
      /\ \A c \in Calls : /\ pc[c] = "idle" /\ k[c] = 1 /\ pend[c] = <<>> /\ byp[c] = {}
                          /\ ItemsOf(c) = {} /\ PendingIds(c) = {} /\ DOMAIN pend[c] = {}
      /\ \A t \in Traces : traceToRun[t] = NoRun
  BY DEF Init, Blocks, EmptyBuffer, Range, ItemsOf, PendingIds
<1>3. CapRespected /\ TruncatedStayClosed
  BY <1>2, BoundAssumption DEF CapRespected, TruncatedStayClosed
<1>4. Owned /\ Related /\ Warned
  BY <1>2 DEF Owned, Related, NamedTraces, Placed, Warned
<1>5. Sorting
  BY <1>2 DEF Sorting, Sorted
<1>6. Unended /\ Accounts
  BY <1>2 DEF Unended, RootEnds, Accounts
<1>7. Output
  BY <1>2 DEF Output, BlocksArePure, StreamedOnlyAfterTruncation, FooterTellsTheTruth,
              TraceEntriesAreBacked
<1> QED BY <1>1, <1>3, <1>4, <1>5, <1>6, <1>7 DEF Inv

LEMMA InvStep == Inv /\ Output /\ [Next]_vars => (Inv /\ Output)'
<1> SUFFICES ASSUME Inv, Output, [Next]_vars PROVE Inv' /\ Output'
  OBVIOUS
<1>1. /\ TypeOK /\ CapRespected /\ TruncatedStayClosed /\ truncated \cap open = {}
      /\ Owned /\ Sorting /\ Related /\ Unended /\ Warned /\ Accounts
  BY DEF Inv, TruncatedStayClosed
<1>2. TypeOK' /\ CapRespected' /\ TruncatedStayClosed'
  BY <1>1, TypeStep, CapStep, TruncationStep
<1>3. Owned' /\ Sorting' /\ Related' /\ Unended' /\ Warned' /\ Accounts'
  BY <1>1, OwnedStep, SortingStep, RelatedStep, UnendedStep, WarnedStep, AccountsStep
<1>4. Output'
  BY <1>1, PureStep, StreamedStep, FooterStep, BackedStep DEF Output
<1> QED BY <1>2, <1>3, <1>4 DEF Inv

LEMMA Invariance == Spec => [](Inv /\ Output)
  BY InvInit, InvStep, PTL DEF Spec

\* Nothing is printed as part of a block that does not belong to the block's
\* run (the bucketing of runblock.go:427-429).
THEOREM BlocksPure == Spec => []BlocksArePure
<1>1. Inv /\ Output => BlocksArePure
  BY DEF Output
<1> QED BY <1>1, Invariance, PTL

\* An item that names a run appears outside a block only after the run's
\* truncation warning (runblock.go:114-116).
THEOREM StreamedAfterWarning == Spec => []StreamedOnlyAfterTruncation
<1>1. Inv /\ Output => StreamedOnlyAfterTruncation
  BY DEF Output
<1> QED BY <1>1, Invariance, PTL

\* The outcome and the count in a footer are those of the items above it
\* (runblock.go:601-633).
THEOREM FootersTrue == Spec => []FooterTellsTheTruth
<1>1. Inv /\ Output => FooterTellsTheTruth
  BY DEF Output
<1> QED BY <1>1, Invariance, PTL

\* A traceToRun entry outlives its run's buffer only when the run is truncated
\* or a call failed (runblock.go:107-112).
THEOREM TracesBacked == Spec => []TraceEntriesAreBacked
<1>1. Inv /\ Output => TraceEntriesAreBacked
  BY DEF Output
<1> QED BY <1>1, Invariance, PTL

\* No buffer holds the root span that ends its run, so the block of an ended
\* run is on stdout when the lock is free again (runblock.go:431-433).
THEOREM EndedFlushed == Spec => []EndedRunsAreFlushed
<1>1. Inv /\ Output => EndedRunsAreFlushed
  BY DEF Inv, TypeOK, Unended, EndedRunsAreFlushed
<1> QED BY <1>1, Invariance, PTL

\* A set whose elements are all the same has one element at most.
LEMMA AtMostOne ==
  ASSUME NEW S, \A x, y \in S : x = y
  PROVE  Cardinality(S) = IF S = {} THEN 0 ELSE 1
<1>1. CASE S = {}
  BY <1>1, FS_EmptySet
<1>2. CASE S # {}
  <2>1. PICK x : S = {x}
    BY <1>2
  <2> QED BY <1>2, <2>1, FS_Singleton
<1> QED BY <1>1, <1>2

LEMMA PlacesCount ==
  ASSUME NEW c \in Calls, NEW id \in ItemsOf(c), Accounted(id)
  PROVE  Places(id) <= 1 /\ (pc[c] # "err" => Places(id) = 1)
<1> DEFINE P == {n \in DOMAIN out : id \in out[n].items}
           B == UNION {{<<r, n>> : n \in {m \in DOMAIN buf[r].items : buf[r].items[m] = id}}
                         : r \in Runs}
<1>1. (P = {} <=> ~Printed(id)) /\ (B = {} <=> ~Buffered(id))
  <2>1. P = {} <=> ~Printed(id)
    BY DEF Printed
  <2>2. ASSUME NEW r \in Runs, NEW m \in DOMAIN buf[r].items, buf[r].items[m] = id
        PROVE  <<r, m>> \in B
    BY <2>2
  <2>3. ASSUME NEW x \in B
        PROVE  \E r \in Runs : \E m \in DOMAIN buf[r].items : buf[r].items[m] = id
    BY <2>3
  <2>4. Buffered(id) <=> \E r \in Runs : \E m \in DOMAIN buf[r].items : buf[r].items[m] = id
    BY DEF Buffered, Range
  <2> QED BY <2>1, <2>2, <2>3, <2>4
<1>2. Cardinality(P) = IF Printed(id) THEN 1 ELSE 0
  <2>1. \A m, n \in P : m = n
    BY DEF Accounted, PrintedOnce
  <2> QED BY <1>1, <2>1, AtMostOne
<1>3. Cardinality(B) = IF Buffered(id) THEN 1 ELSE 0
  <2>1. \A x, y \in B : x = y
    BY DEF Accounted, BufferedOnce
  <2> QED BY <1>1, <2>1, AtMostOne
<1>4. Excused(id) <=> Dropped(id)
  BY DEF Excused, Dropped, Accounted
<1>5. Places(id) = (IF Waits(id) THEN 1 ELSE 0) + (IF Dropped(id) THEN 1 ELSE 0)
                     + Cardinality(P) + Cardinality(B)
  BY <1>4 DEF Places, Waits
<1>6. id[1] = c
  BY Its
<1> QED BY <1>2, <1>3, <1>5, <1>6 DEF Accounted, Alone

\* Whatever flushes, streams and other calls come between, an item of a call
\* that took it is in exactly one place: still to be dealt with, buffered,
\* printed, or lost to a failed write or an ended context.
THEOREM ItemsExactlyOnce == Spec => []ExactlyOnce
<1>1. Inv /\ Output => ExactlyOnce
  BY PlacesCount DEF Inv, Accounts, ExactlyOnce
<1> QED BY <1>1, Invariance, PTL

-----------------------------------------------------------------------------
(* The promise to the reader. *)

\* A run that is open has something to print.
Filled == \A r \in open : buf[r].items # <<>>

\* It is opened by an append and closed by a flush.
LEMMA FilledStep == ASSUME Inv, Filled, [Next]_vars PROVE Filled'
<1>1. TypeOK /\ truncated \cap open = {}
  BY DEF Inv, TruncatedStayClosed
<1>2. CASE PrintsLines
  BY <1>2 DEF PrintsLines, Filled
<1>3. ASSUME NEW c \in Calls, Buffers(c) PROVE Filled'
  <2>1. Current(c).run \in Runs /\ buf[Current(c).run] \in Buffer
    BY <1>1, <1>3, CurrentType DEF Buffers, Appending, TypeOK
  <2>2. buf'[Current(c).run].items = Append(buf[Current(c).run].items, Current(c).id)
    BY <1>1, <1>3, <2>1 DEF Buffers, Appended, TypeOK
  <2>3. buf'[Current(c).run].items # <<>>
    BY <2>1, <2>2 DEF Buffer
  <2>4. \A s \in open : s # Current(c).run => buf'[s] = buf[s]
    BY <1>1, <1>3 DEF Buffers, TypeOK
  <2> QED BY <1>3, <2>3, <2>4 DEF Buffers, Filled
<1>4. ASSUME NEW r \in Runs, NEW reason, NEW b, Prints(r, b, reason) PROVE Filled'
  BY <1>1, <1>4 DEF Prints, Flush, Filled, TypeOK
<1> QED BY <1>1, <1>2, <1>3, <1>4, StepKinds

\* What is printed is one line more.
LEMMA ShownAfter ==
  ASSUME TypeOK, NEW e, out' = Append(out, e)
  PROVE  Shown' = Append(Shown, Line(e))
<1> DEFINE S == {Line(out[n]) : n \in DOMAIN out} \cup {Line(e)}
           N == Len(out)
<1>1. out \in Seq(Entry) /\ N \in Nat /\ DOMAIN out = 1..N
  BY LenProperties DEF TypeOK
<1>2. Shown \in [1..N -> S]
  BY <1>1 DEF Shown
<1>3. Shown \in Seq(S) /\ Len(Shown) = N /\ Line(e) \in S
  BY <1>1, <1>2, LenProperties
<1> DEFINE T == Append(Shown, Line(e))
<1>4. /\ T \in Seq(S) /\ Len(T) = N + 1
      /\ \A n \in 1..N : T[n] = Shown[n]
      /\ T[N + 1] = Line(e)
  BY <1>3, AppendProperties
<1>5. T \in [1..(N + 1) -> S]
  BY <1>4, LenProperties
<1>6. /\ DOMAIN out' = 1..(N + 1)
      /\ \A n \in 1..(N + 1) : out'[n] = IF n = N + 1 THEN e ELSE out[n]
  BY <1>1, AppendProperties
<1>7. Shown' = [n \in 1..(N + 1) |-> Line(out'[n])]
  BY <1>6 DEF Shown, Line
<1>8. \A n \in 1..(N + 1) : T[n] = Line(out'[n])
  <2>1. T[N + 1] = Line(out'[N + 1])
    BY <1>1, <1>4, <1>6
  <2>2. ASSUME NEW n \in 1..N PROVE T[n] = Line(out'[n])
    <3>1. T[n] = Shown[n] /\ Shown[n] = Line(out[n])
      BY <1>1, <1>4 DEF Shown
    <3>2. n \in 1..(N + 1) /\ n # N + 1
      BY <1>1
    <3>3. out'[n] = out[n]
      BY <1>6, <3>2
    <3> QED BY <3>1, <3>3
  <2>3. \A n \in 1..(N + 1) : n = N + 1 \/ n \in 1..N
    BY <1>1
  <2> QED BY <2>1, <2>2, <2>3
<1>9. T = [n \in 1..(N + 1) |-> T[n]]
  BY <1>5
<1> QED BY <1>7, <1>8, <1>9

\* What has been dealt with: lost, printed or buffered items.
LEMMA DealtMeans ==
  ASSUME NEW id
  PROVE  id \in Dealt <=> Dropped(id) \/ Printed(id) \/ Buffered(id)
BY DEF Dealt, Dropped, Printed, Buffered

\* The same after a step.
LEMMA DealtMeansNext ==
  ASSUME NEW id
  PROVE  id \in Dealt' <=> Dropped(id)' \/ Printed(id)' \/ Buffered(id)'
BY DEF Dealt, Dropped, Printed, Buffered

\* An item a call has still to deal with is fresh.
LEMMA WaitingIsFresh ==
  ASSUME Inv, NEW c \in Calls, NEW id \in ItemsOf(c), id \in Waiting(c)
  PROVE  id \in Reader!Fresh
<1>1. Accounted(id) /\ Waits(id)
  BY Its DEF Inv, Accounts, Waits
<1>2. id \notin Dealt
  BY <1>1, DealtMeans DEF Accounted, Alone
<1>3. id \in Offered
  BY DEF Offered
<1> QED BY <1>2, <1>3 DEF Reader!Fresh

\* Calls hand over items when they are made and at no other step.
LEMMA OfferedGrows == ASSUME Inv, [Next]_vars PROVE Offered \subseteq Offered'
<1> SUFFICES ASSUME NEW c \in Calls, NEW id \in ItemsOf(c)
             PROVE  id \in ItemsOf(c)'
  BY DEF Offered
<1>1. Taken(id) /\ id[1] = c
  BY Its
<1> QED BY <1>1, TakenStays DEF Inv

\* None is handed over by a step that prints or buffers.
LEMMA OfferedStays ==
  ASSUME Inv, [Next]_vars,
         \/ \E d \in Calls : Bypass(d) \/ Stream(d) \/ Keep(d) \/ Finish(d)
         \/ \A c \in Calls : ItemsOf(c)' = ItemsOf(c)
  PROVE  Offered' = Offered
<1>1. \A c \in Calls : ItemsOf(c)' = ItemsOf(c)
  BY OldItems DEF Inv
<1> QED BY <1>1 DEF Offered

\* A step that moves no item may hand some over.
LEMMA RestsOffers ==
  ASSUME Inv, [Next]_vars, Rests
  PROVE  Reader!Offer
<1>1. Dealt' = Dealt /\ Held' = Held /\ Shown' = Shown /\ truncated' = truncated
  BY DEF Rests, Dealt, Held, Shown, Line
<1> QED BY <1>1, OfferedGrows DEF Reader!Offer

\* An item that is buffered is held.
LEMMA KeepHolds ==
  ASSUME Inv, [Next]_vars, NEW c \in Calls, Keep(c),
         NEW r, r = Current(c).run, NEW id, id = Current(c).id
  PROVE  r \in Runs /\ id \in Reader!Fresh /\ Reader!Hold(r, id)
<1>1. TypeOK /\ Sorting
  BY DEF Inv
<1>2. /\ r \in Runs /\ id \in ItemsOf(c) /\ id \in ItemIds
      /\ buf'[r] = Appended(r, id, c)
      /\ \A s \in Runs \ {r} : buf'[s] = buf[s]
  BY <1>1, Kept
<1>3. id \in Reader!Fresh
  BY <1>1, <1>2, Advances, WaitingIsFresh
<1>4. r \notin truncated /\ ~Full(r) /\ UNCHANGED <<out, lost, truncated>>
  BY DEF Keep, outVars
<1>5. Len(Held[r]) < MaxItems
  <2>1. buf[r].items \in Seq(ItemIds)
    BY <1>1, <1>2 DEF TypeOK, Buffer
  <2>2. Held[r] = buf[r].items /\ Len(buf[r].items) \in Nat
    BY <1>2, <2>1, LenProperties DEF Held
  <2> QED BY <1>4, <2>2, BoundAssumption DEF Full
<1>6. Held' = [Held EXCEPT ![r] = Append(@, id)]
  <2>1. buf'[r].items = Append(buf[r].items, id)
    BY <1>2 DEF Appended
  <2> QED BY <1>2, <2>1 DEF Held
<1>7. Dealt' = Dealt \cup {id}
  <2>1. ASSUME NEW i PROVE i \in Dealt' <=> i \in Dealt \/ i = id
    <3>1. Buffered(i)' <=> Buffered(i) \/ i = id
      BY <1>1, BufferedAfterKeep
    <3>2. (Dropped(i)' <=> Dropped(i)) /\ (Printed(i)' <=> Printed(i))
      BY <1>4 DEF Dropped, Printed
    <3> QED BY <3>1, <3>2, DealtMeans, DealtMeansNext
  <2> QED BY <2>1
<1>8. Shown' = Shown /\ Offered' = Offered
  BY <1>4, OfferedStays DEF Shown, Line
<1> QED BY <1>2, <1>3, <1>4, <1>5, <1>6, <1>7, <1>8 DEF Reader!Hold

\* A flush moves what it prints out of the buffer; with a write that fails, the
\* rest is dropped.
LEMMA FlushDeals ==
  ASSUME Inv, NEW r \in Runs, NEW b \in Buffer, NEW reason, Flush(r, b, reason),
         NEW new, Range(b.items) = Range(buf[r].items) \cup new
  PROVE  /\ Dealt' = Dealt \cup new
         /\ Held' = [Held EXCEPT ![r] = <<>>]
         /\ \E shown \in SUBSET Range(b.items) :
              /\ WriterMayFail \/ shown = Range(b.items)
              /\ Shown' = Append(Shown,
                           [run |-> r,
                            kind |-> IF reason = "overflow" THEN "warning" ELSE "block",
                            items |-> shown])
<1>1. TypeOK
  BY DEF Inv
<1>2. \A s \in Runs : buf'[s].items = IF s = r THEN <<>> ELSE buf[s].items
  BY <1>1, Flushed
<1>3. PICK w \in Written(Range(b.items)) :
        /\ out' = Append(out, BlockEntry(r, reason, FooterOutcome(b, reason), b.items, w))
        /\ lost' = lost \cup (Range(b.items) \ w.items)
        /\ w.items \subseteq Range(b.items)
  BY <1>1, Flushed
<1> DEFINE e == BlockEntry(r, reason, FooterOutcome(b, reason), b.items, w)
<1>4. /\ e.items = w.items /\ e.run = r /\ e.kind = "block" /\ e.reason = reason
  BY DEF BlockEntry
<1>5. Line(e) = [run |-> r, kind |-> IF reason = "overflow" THEN "warning" ELSE "block",
                 items |-> w.items]
  BY <1>4 DEF Line
<1>6. Held' = [Held EXCEPT ![r] = <<>>]
  BY <1>2 DEF Held
<1>7. Dealt' = Dealt \cup new
  <2>1. ASSUME NEW i PROVE i \in Dealt' <=> i \in Dealt \/ i \in new
    <3>1. Printed(i)' <=> Printed(i) \/ i \in w.items
      BY <1>1, <1>3, <1>4, PrintedAfter
    <3>2. Dropped(i)' <=> Dropped(i) \/ i \in Range(b.items) \ w.items
      BY <1>3 DEF Dropped
    <3>3. Buffered(i)' <=> \E s \in Runs \ {r} : i \in Range(buf[s].items)
      BY <1>1, BufferedAfterFlush
    <3>4. Buffered(i) <=> \/ i \in Range(buf[r].items)
                          \/ \E s \in Runs \ {r} : i \in Range(buf[s].items)
      BY DEF Buffered
    <3>5. i \in Range(b.items) <=> i \in Range(buf[r].items) \/ i \in new
      OBVIOUS
    <3> QED BY <1>3, <3>1, <3>2, <3>3, <3>4, <3>5, DealtMeans, DealtMeansNext
  <2> QED BY <2>1
<1>8. Shown' = Append(Shown, Line(e))
  BY <1>1, <1>3, ShownAfter
<1>9. WriterMayFail \/ w.items = Range(b.items)
  BY <1>3, WrittenShown
<1> QED BY <1>3, <1>5, <1>6, <1>7, <1>8, <1>9

\* What is held for a run is its buffer.
LEMMA HeldMeans ==
  ASSUME TypeOK, NEW r \in Runs
  PROVE  /\ Held[r] = buf[r].items
         /\ Len(Held[r]) \in Nat
         /\ Full(r) <=> Len(Held[r]) >= MaxItems
         /\ Reader!Range(Held[r]) = Range(Held[r])
<1>1. Held[r] = buf[r].items /\ buf[r].items \in Seq(ItemIds)
  BY DEF Held, TypeOK, Buffer
<1>2. Reader!Range(Held[r]) = Range(Held[r])
  BY DEF Reader!Range, Range
<1> QED BY <1>1, <1>2, LenProperties DEF Full

\* A buffer is printed as it is: because it is full, or idle, or last.
LEMMA FlushPrints ==
  ASSUME Inv, Filled, [Next]_vars, NEW r \in Runs, NEW reason, Flush(r, buf[r], reason),
         \A c \in Calls : ItemsOf(c)' = ItemsOf(c),
         \/ reason = "overflow" /\ r \notin truncated /\ Full(r)
         \/ reason \in {"idle", "shutdown"} /\ r \in open
  PROVE  \E shown \in SUBSET Range(Held[r]) : Reader!Flush(r, shown) \/ Reader!Truncate(r, shown)
<1>1. TypeOK /\ CapRespected /\ buf[r] \in Buffer
  BY DEF Inv, TypeOK
<1>2. /\ Held[r] = buf[r].items /\ Len(Held[r]) \in Nat
      /\ Full(r) <=> Len(Held[r]) >= MaxItems
      /\ Reader!Range(Held[r]) = Range(Held[r])
  BY <1>1, HeldMeans
<1>3. truncated' = TruncatedAfter(r, reason)
  BY DEF Flush
<1>4. Offered' = Offered
  BY OfferedStays
<1>5. Range(buf[r].items) = Range(buf[r].items) \cup {}
  OBVIOUS
<1>6. /\ Dealt' = Dealt \cup {} /\ Held' = [Held EXCEPT ![r] = <<>>]
      /\ \E shown \in SUBSET Range(buf[r].items) :
           /\ WriterMayFail \/ shown = Range(buf[r].items)
           /\ Shown' = Append(Shown,
                        [run |-> r,
                         kind |-> IF reason = "overflow" THEN "warning" ELSE "block",
                         items |-> shown])
  BY <1>1, <1>5, FlushDeals
<1>7. PICK shown \in SUBSET Range(Held[r]) :
        /\ WriterMayFail \/ shown = Range(Held[r])
        /\ Shown' = Append(Shown,
                     [run |-> r, kind |-> IF reason = "overflow" THEN "warning" ELSE "block",
                      items |-> shown])
  BY <1>2, <1>6
<1>8. Dealt' = Dealt
  BY <1>6
<1>9. CASE reason = "overflow" /\ r \notin truncated /\ Full(r)
  <2>1. Len(Held[r]) = MaxItems
    BY <1>1, <1>2, <1>9, BoundAssumption DEF CapRespected
  <2>2. Reader!Prints(r, "warning", Range(Held[r]), shown)
    BY <1>7, <1>9 DEF Reader!Prints
  <2>3. truncated' = truncated \cup {r}
    BY <1>3, <1>9 DEF TruncatedAfter
  <2>4. Reader!Truncate(r, shown)
    BY <1>2, <1>4, <1>6, <1>8, <1>9, <2>1, <2>2, <2>3 DEF Reader!Truncate
  <2> QED BY <1>7, <2>4
<1>10. CASE reason \in {"idle", "shutdown"} /\ r \in open
  <2>1. Held[r] # <<>>
    BY <1>2, <1>10 DEF Filled
  <2>2. Reader!Prints(r, "block", Range(Held[r]), shown)
    BY <1>7, <1>10 DEF Reader!Prints
  <2>3. truncated' = truncated
    BY <1>3, <1>10 DEF TruncatedAfter
  <2>4. Reader!Flush(r, shown)
    BY <1>2, <1>4, <1>6, <1>8, <2>1, <2>2, <2>3 DEF Reader!Flush
  <2> QED BY <1>7, <2>4
<1> QED BY <1>9, <1>10

\* With the item that ends the run, it is printed as the run's last block.
LEMMA FinishEnds ==
  ASSUME Inv, [Next]_vars, NEW c \in Calls, Finish(c),
         NEW r \in Runs, r = Current(c).run, NEW id, id = Current(c).id,
         NEW b \in Buffer, b = Appended(r, id, c),
         NEW reason, reason = "root", Flush(r, b, reason)
  PROVE  /\ id \in Reader!Fresh
         /\ \E shown \in SUBSET (Range(Held[r]) \cup {id}) : Reader!End(r, id, shown)
<1>1. TypeOK /\ Sorting
  BY DEF Inv
<1>2. /\ Held[r] = buf[r].items /\ Len(Held[r]) \in Nat
      /\ Full(r) <=> Len(Held[r]) >= MaxItems
      /\ Reader!Range(Held[r]) = Range(Held[r])
  BY <1>1, HeldMeans
<1>3. id \in ItemsOf(c) /\ id \in Waiting(c)
  BY <1>1, Advances
<1>4. id \in ItemIds /\ id \in Reader!Fresh
  BY <1>1, <1>3, ItemType, WaitingIsFresh
<1>5. Offered' = Offered
  BY OfferedStays
<1>6. r \notin truncated /\ Len(Held[r]) < MaxItems
  BY <1>2, BoundAssumption DEF Finish
<1>7. truncated' = truncated
  BY DEF Flush, TruncatedAfter
<1> PICK new : new = {id}
  OBVIOUS
<1>8. Range(b.items) = Range(buf[r].items) \cup new
  BY <1>1, <1>4, AppendedRange, Zenon
<1>9. /\ Dealt' = Dealt \cup new /\ Held' = [Held EXCEPT ![r] = <<>>]
      /\ \E shown \in SUBSET Range(b.items) :
           /\ WriterMayFail \/ shown = Range(b.items)
           /\ Shown' = Append(Shown,
                        [run |-> r, kind |-> IF reason = "overflow" THEN "warning" ELSE "block",
                         items |-> shown])
  BY ONLY Inv, Flush(r, b, reason), r \in Runs, b \in Buffer, <1>8, FlushDeals
<1>10. PICK shown \in SUBSET (Range(Held[r]) \cup {id}) :
         /\ WriterMayFail \/ shown = Range(Held[r]) \cup {id}
         /\ Shown' = Append(Shown, [run |-> r, kind |-> "block", items |-> shown])
  BY <1>2, <1>8, <1>9
<1>11. Reader!Prints(r, "block", Range(Held[r]) \cup {id}, shown)
  BY <1>10 DEF Reader!Prints
<1>12. Reader!End(r, id, shown)
  BY <1>2, <1>5, <1>6, <1>7, <1>9, <1>11 DEF Reader!End
<1> QED BY <1>4, <1>10, <1>12

\* A streamed item is printed by itself, or dropped.
LEMMA StreamPrints ==
  ASSUME Inv, [Next]_vars, NEW c \in Calls, Stream(c),
         NEW r, r = Current(c).run, NEW id, id = Current(c).id
  PROVE  /\ r \in Runs /\ id \in Reader!Fresh
         /\ Reader!Drop(id) \/ \E shown \in SUBSET {id} : Reader!Stream(r, id, shown)
<1>1. TypeOK /\ Sorting /\ Warned
  BY DEF Inv
<1>2. r \in truncated /\ r \in Runs
  BY <1>1 DEF Stream, Warned, TypeOK
<1>3. id \in ItemsOf(c) /\ id \in Reader!Fresh
  BY <1>1, Advances, WaitingIsFresh
<1>4. Held' = Held /\ truncated' = truncated /\ Offered' = Offered
  BY OfferedStays DEF Stream, bufferVars, Held
<1>5. \A i : Buffered(i)' <=> Buffered(i)
  BY DEF Stream, bufferVars, Buffered
<1>6. CASE lost' = lost \cup {id} /\ out' = out
  <2>1. ASSUME NEW i PROVE i \in Dealt' <=> i \in Dealt \/ i = id
    <3>1. (Printed(i)' <=> Printed(i)) /\ (Dropped(i)' <=> Dropped(i) \/ i = id)
      BY <1>6 DEF Printed, Dropped
    <3> QED BY <1>5, <3>1, DealtMeans, DealtMeansNext
  <2>2. Dealt' = Dealt \cup {id}
    BY <2>1
  <2>3. Shown' = Shown
    BY <1>6 DEF Shown, Line
  <2>4. Reader!Drop(id)
    BY <1>2, <1>4, <2>2, <2>3 DEF Reader!Drop
  <2> QED BY <1>2, <1>3, <2>4
<1>7. ASSUME NEW w \in Written({id}), out' = Append(out, LinesEntry(r, w)),
             lost' = lost \cup ({id} \ w.items)
      PROVE  \E shown \in SUBSET {id} : Reader!Stream(r, id, shown)
  <2>1. w.items \subseteq {id} /\ (WriterMayFail \/ w.items = {id})
    BY <1>7, WrittenPart, WrittenShown
  <2>2. /\ LinesEntry(r, w).items = w.items
        /\ Line(LinesEntry(r, w)) = [run |-> r, kind |-> "lines", items |-> w.items]
    BY DEF LinesEntry, Line
  <2>3. ASSUME NEW i PROVE i \in Dealt' <=> i \in Dealt \/ i = id
    <3>1. Printed(i)' <=> Printed(i) \/ i \in w.items
      BY <1>1, <1>7, <2>2, PrintedAfter
    <3>2. Dropped(i)' <=> Dropped(i) \/ i \in {id} \ w.items
      BY <1>7 DEF Dropped
    <3> QED BY <1>5, <2>1, <3>1, <3>2, DealtMeans, DealtMeansNext
  <2>4. Dealt' = Dealt \cup {id}
    BY <2>3
  <2>5. Shown' = Append(Shown, Line(LinesEntry(r, w)))
    BY <1>1, <1>7, ShownAfter
  <2>6. Reader!Prints(r, "lines", {id}, w.items)
    BY <2>1, <2>2, <2>5 DEF Reader!Prints
  <2>7. Reader!Stream(r, id, w.items)
    BY <1>2, <1>4, <2>4, <2>6 DEF Reader!Stream
  <2> QED BY <2>1, <2>7
<1> QED BY <1>2, <1>3, <1>6, <1>7 DEF Stream

\* The items of no run are printed at once, those the writer took.
LEMMA BypassPasses ==
  ASSUME Inv, [Next]_vars, NEW c \in Calls, Bypass(c)
  PROVE  \E shown \in SUBSET Reader!Fresh : Reader!Pass(shown)
<1>1. TypeOK
  BY DEF Inv
<1>2. PICK w \in Written(byp[c]) : out' = Append(out, LinesEntry(NoRun, w))
  BY DEF Bypass
<1>3. w.items \subseteq byp[c] /\ byp[c] \subseteq ItemsOf(c) /\ Waiting(c) = ItemsOf(c)
  BY <1>1, WrittenPart DEF Bypass, Waiting, TypeOK, OwnItems
<1>4. w.items \subseteq Reader!Fresh
  BY <1>3, WaitingIsFresh
<1>5. /\ Held' = Held /\ truncated' = truncated /\ Offered' = Offered
      /\ lost' = lost /\ buf' = buf
  BY OfferedStays DEF Bypass, bufferVars, Held
<1>6. /\ LinesEntry(NoRun, w).items = w.items
      /\ Line(LinesEntry(NoRun, w)) = [run |-> NoRun, kind |-> "lines", items |-> w.items]
  BY DEF LinesEntry, Line
<1>7. ASSUME NEW i PROVE i \in Dealt' <=> i \in Dealt \/ i \in w.items
  <2>1. Printed(i)' <=> Printed(i) \/ i \in w.items
    BY <1>1, <1>2, <1>6, PrintedAfter
  <2>2. (Dropped(i)' <=> Dropped(i)) /\ (Buffered(i)' <=> Buffered(i))
    BY <1>5 DEF Dropped, Buffered
  <2> QED BY <2>1, <2>2, DealtMeans, DealtMeansNext
<1>8. Dealt' = Dealt \cup w.items
  BY <1>7
<1>9. Shown' = Append(Shown, Line(LinesEntry(NoRun, w)))
  BY <1>1, <1>2, ShownAfter
<1>10. Reader!Prints(NoRun, "lines", w.items, w.items)
  BY <1>6, <1>9 DEF Reader!Prints
<1>11. Reader!Pass(w.items)
  BY <1>5, <1>8, <1>10 DEF Reader!Pass
<1> QED BY <1>4, <1>11

\* Every step is one of the log, or none of its business.
LEMMA LogStep ==
  ASSUME Inv, Filled, [Next]_vars
  PROVE  [Reader!LogNext]_(Reader!logVars)
<1>1. TypeOK
  BY DEF Inv
<1>2. CASE Rests
  BY <1>2, RestsOffers DEF Reader!LogNext
<1>3. ASSUME NEW c \in Calls, Bypass(c) PROVE Reader!LogNext
  BY <1>3, BypassPasses DEF Reader!LogNext
<1>4. ASSUME NEW c \in Calls, Stream(c) PROVE Reader!LogNext
  <2>1. PICK r, id : r = Current(c).run /\ id = Current(c).id
    OBVIOUS
  <2> QED BY <1>4, <2>1, StreamPrints DEF Reader!LogNext
<1>5. ASSUME NEW c \in Calls, Keep(c) PROVE Reader!LogNext
  <2>1. PICK r, id : r = Current(c).run /\ id = Current(c).id
    OBVIOUS
  <2> QED BY <1>5, <2>1, KeepHolds DEF Reader!LogNext
<1>6. ASSUME NEW r \in Runs, NEW reason \in Reasons, NEW b \in Buffer, Flushes(r, b, reason)
      PROVE  Reader!LogNext
  <2>1. Reader!Range(Held[r]) = Range(Held[r])
    BY <1>1, HeldMeans
  <2>2. CASE /\ \/ reason = "overflow" /\ r \notin truncated /\ Full(r)
                \/ reason \in {"idle", "shutdown"} /\ r \in open
             /\ b = buf[r]
             /\ \A c \in Calls : Waiting(c)' = Waiting(c) /\ ItemsOf(c)' = ItemsOf(c)
    <3>1. Flush(r, buf[r], reason)
      BY <1>6, <2>2 DEF Flushes
    <3>2. \E shown \in SUBSET Range(Held[r]) : Reader!Flush(r, shown) \/ Reader!Truncate(r, shown)
      BY <2>2, <3>1, FlushPrints
    <3> QED BY <2>1, <3>2 DEF Reader!LogNext
  <2>3. ASSUME NEW c \in Calls, reason = "root", Finish(c), r = Current(c).run,
               b = Appended(r, Current(c).id, c)
        PROVE  Reader!LogNext
    <3>1. PICK id : id = Current(c).id
      OBVIOUS
    <3>2. b = Appended(r, id, c) /\ Flush(r, b, reason)
      BY <1>6, <2>3, <3>1 DEF Flushes
    <3>3. /\ id \in Reader!Fresh
          /\ \E shown \in SUBSET (Range(Held[r]) \cup {id}) : Reader!End(r, id, shown)
      BY <2>3, <3>1, <3>2, FinishEnds
    <3> QED BY <2>1, <3>3 DEF Reader!LogNext
  <2> QED BY <1>6, <2>2, <2>3 DEF Flushes
<1> QED BY <1>1, <1>2, <1>3, <1>4, <1>5, <1>6, Moves

\* In the beginning nothing was handed over, and nothing is printed.
LEMMA LogInit == Init => Filled /\ Reader!LogInit
<1> SUFFICES ASSUME Init PROVE Filled /\ Reader!LogInit
  OBVIOUS
<1>1. Filled
  BY DEF Init, Filled
<1>2. Offered = {}
  BY DEF Init, Offered, ItemsOf
<1>3. Dealt = {}
  <2>1. \A r \in Runs : Range(buf[r].items) = {}
    BY DEF Init, EmptyBuffer, Range
  <2>2. DOMAIN out = {} /\ lost = {}
    BY DEF Init
  <2> QED BY <2>1, <2>2 DEF Dealt
<1>4. Held = [r \in Runs |-> <<>>]
  BY DEF Init, Held, EmptyBuffer
<1>5. Shown = <<>> /\ truncated = {}
  BY DEF Init, Shown
<1> QED BY <1>1, <1>2, <1>3, <1>4, <1>5 DEF Reader!LogInit

\* Whatever the interleaving of calls, sweeper and shutdown, what is on stdout is
\* what the design promises its reader (runblock.go:114-116 and 210-217): what was
\* kept for a run in one block or several, until one is printed with the truncation
\* warning; after it no block but single items; no item twice.
THEOREM LogKept == Spec => KeepsLog
<1>1. Init => Filled /\ Reader!LogInit
  BY LogInit
<1>2. Inv /\ Filled /\ [Next]_vars => Filled'
  BY FilledStep
<1>3. Inv /\ Filled /\ [Next]_vars => [Reader!LogNext]_(Reader!logVars)
  BY LogStep
<1> QED BY <1>1, <1>2, <1>3, Invariance, PTL DEF Spec, KeepsLog, Reader!LogSpec

-----------------------------------------------------------------------------
(* What a shutdown leaves to a caller. *)

\* A call that took its items stays that way.
LEMMA TakingStays ==
  ASSUME TypeOK, [Next]_vars, NEW c \in Calls, pc[c] = "ok"
  PROVE  pc'[c] = "ok" /\ ItemsOf(c)' = ItemsOf(c)
<1>1. ASSUME NEW d \in Calls, CallStep(d) PROVE pc'[c] = "ok"
  BY <1>1, Others DEF LeavesAlone, CallStep, Begin, Refuse, Cancel, MapTraces, Bucket, Bucketed,
     Bypass, BypassCancelled, Lock, Divert, Overflow, Keep, Finish, Return, Stream, Relock,
     Appending, InFlight
<1>2. CASE UNCHANGED callVars
  BY <1>2 DEF callVars, ItemsOf, Length
<1>3. ASSUME NEW d \in Calls, CallStep(d) PROVE ItemsOf(c)' = ItemsOf(c)
  BY <1>1, <1>3, MadeStays DEF ItemsOf, Length
<1> QED BY <1>1, <1>2, <1>3, Background DEF Next

\* Items are buffered for open runs only: a flush takes all of them.
Emptied == \A r \in Runs : r \notin open => buf[r].items = <<>>

LEMMA EmptiedStep == ASSUME Inv, Emptied, [Next]_vars PROVE Emptied'
<1>1. TypeOK /\ truncated \cap open = {}
  BY DEF Inv, TruncatedStayClosed
<1>2. CASE PrintsLines
  BY <1>2 DEF PrintsLines, Emptied
<1>3. ASSUME NEW c \in Calls, Buffers(c) PROVE Emptied'
  BY <1>1, <1>3 DEF Buffers, Emptied, TypeOK
<1>4. ASSUME NEW r \in Runs, NEW reason, NEW b, Prints(r, b, reason) PROVE Emptied'
  BY <1>1, <1>4 DEF Prints, Flush, Emptied, EmptyBuffer, TypeOK
<1> QED BY <1>1, <1>2, <1>3, <1>4, StepKinds

\* With no run open nothing is buffered, so the items of a call that returned
\* nil are printed or lost: there is no other place for them.
LEMMA SettledAtEnd ==
  ASSUME Inv, Emptied, open = {}, NEW c \in Calls, pc[c] = "ok"
  PROVE  \A id \in ItemsOf(c) : Printed(id) \/ id \in lost
<1> SUFFICES ASSUME NEW id \in ItemsOf(c) PROVE Printed(id) \/ id \in lost
  OBVIOUS
<1>1. id[1] = c /\ Accounted(id)
  BY Its DEF Inv, Accounts
<1>2. ~Waits(id)
  BY <1>1 DEF Waits, Waiting
<1>3. ~Buffered(id)
  BY DEF Buffered, Emptied, Range
<1> QED BY <1>1, <1>2, <1>3 DEF Accounted, Dropped

\* Where Shutdown is called once every call has returned, and completes, every
\* item of a call that returned nil is printed or lost (runblock.go:210-213): no
\* progress but that of Shutdown is needed for it.
THEOREM ShutdownPrintsAll ==
  ASSUME DrainFirst
  PROVE  Spec /\ ShutdownCompletes => AcceptedIsPrinted
<1> DEFINE P(c) == pc[c] = "ok"
           Q(c) == \A id \in ItemsOf(c) : Printed(id) \/ id \in lost
           D == shut = "done"
           S == shut = "stopping"
<1>1. ASSUME NEW c \in Calls PROVE TypeOK /\ P(c) /\ [Next]_vars => P(c)'
  BY TakingStays
<1>2. Spec => []Emptied
  <2>1. Init => Emptied
    BY DEF Init, Emptied, EmptyBuffer
  <2>2. Inv /\ Emptied /\ [Next]_vars => Emptied'
    BY EmptiedStep
  <2>3. Spec => []Inv
    BY Invariance, PTL
  <2> QED BY <2>1, <2>2, <2>3, PTL DEF Spec
<1>3. ASSUME NEW c \in Calls PROVE Inv /\ Emptied /\ ShutdownFlushesAll /\ P(c) /\ D => Q(c)
  BY SettledAtEnd DEF ShutdownFlushesAll
<1>4. ASSUME NEW c \in Calls PROVE Spec /\ ShutdownCompletes => (P(c) /\ S ~> Q(c))
  <2>1. TypeOK /\ P(c) /\ [Next]_vars => P(c)'
    BY <1>1
  <2>2. Inv /\ Emptied /\ ShutdownFlushesAll /\ P(c) /\ D => Q(c)
    BY <1>3
  <2>3. Spec => [][Next]_vars /\ []Inv /\ []ShutdownFlushesAll
    BY Invariance, ShutdownFlushes, PTL DEF Spec
  <2>4. ShutdownCompletes <=> (S ~> D)
    BY DEF ShutdownCompletes
  <2>5. Inv => TypeOK
    BY DEF Inv
  <2> HIDE DEF P, Q, D, S
  <2> QED BY <1>2, <2>1, <2>2, <2>3, <2>4, <2>5, PTL
<1> QED BY <1>4 DEF AcceptedIsPrinted

==============================================================================
