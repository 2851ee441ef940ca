------------------------------ MODULE Stdout -------------------------------
(***************************************************************************)
(* StdoutSink (internal/sink/stdout.go) and what is printed through it: a  *)
(* RunBlockSink renders a block under its own mutex (flushLocked) and      *)
(* writes it line by line under the mutex of the sink; requests in line    *)
(* mode, among them the items RunBlockSink streams, take the second mutex  *)
(* only.  Several sinks may write to the same file: `--sink stdout' can be *)
(* given twice (main.go:190), and each has a mutex of its own.             *)
(***************************************************************************)
EXTENDS BlockLayout

CONSTANTS
  Writers,  \* the writes of a behaviour
  SinkOf,   \* the StdoutSink of each writer
  NoOne,    \* a mutex that is free
  Jobs      \* what the writers may have to print: functions to records of the
            \* items, the mode ("lines", or that of a block), and the footer

ASSUME StdoutAssumption ==
  /\ NoOne \notin Writers
  /\ DOMAIN SinkOf = Writers
  /\ \A j \in Jobs : \A w \in Writers : j[w].items \in Seq(Item)

VARIABLES
  job,     \* what each writer has to print
  pc,      \* its progress
  depth,   \* the depths a flusher has noted
  lines,   \* the lines of each writer
  next,    \* its place in the loop over them
  result,  \* what writeLines returned
  runMu,   \* the owner of RunBlockSink.mu, for each sink
  outMu,   \* the owner of StdoutSink.mu
  file     \* what os.Stdout received: pairs of a writer and the number of its line

vars == <<job, pc, depth, lines, next, result, runMu, outMu, file>>

Sinks == {SinkOf[w] : w \in Writers}

Init ==
  /\ job \in Jobs
  /\ pc = [w \in Writers |-> "idle"]
  /\ depth = [w \in Writers |-> <<>>]
  /\ lines = [w \in Writers |-> <<>>]
  /\ next = [w \in Writers |-> 1]
  /\ result = [w \in Writers |-> "none"]
  /\ runMu = [s \in Sinks |-> NoOne]
  /\ outMu = [s \in Sinks |-> NoOne]
  /\ file = <<>>

\* w prints a block, of the RunBlockSink over its sink.
Flushes(w) == job[w].mode # "lines"

Goto(w, l) == pc' = [pc EXCEPT ![w] = l]

-----------------------------------------------------------------------------
(* What comes before the lines are written. *)

\* Consume*: the context is looked at once, before the lines are formatted.
Refuse(w) ==
  /\ ~Flushes(w)
  /\ pc[w] = "idle"
  /\ result' = [result EXCEPT ![w] = "error"]
  /\ Goto(w, "done")
  /\ UNCHANGED <<job, depth, lines, next, runMu, outMu, file>>

Format(w) ==
  /\ ~Flushes(w)
  /\ pc[w] = "idle"
  /\ lines' = [lines EXCEPT ![w] = Plain(job[w].items)]
  /\ Goto(w, "lock")
  /\ UNCHANGED <<job, depth, next, result, runMu, outMu, file>>

\* A call, the sweeper or Shutdown enters the critical section that flushes.
Enter(w) ==
  /\ Flushes(w)
  /\ pc[w] = "idle"
  /\ runMu[SinkOf[w]] = NoOne
  /\ runMu' = [runMu EXCEPT ![SinkOf[w]] = w]
  /\ Goto(w, "render")
  /\ UNCHANGED <<job, depth, lines, next, result, outMu, file>>

\* `for id := range spans': the order is that of a map, any.
Resolve(w) ==
  /\ pc[w] = "render"
  /\ job[w].mode = "tree"
  /\ \E id \in SpanIds(job[w].items) \ DOMAIN depth[w] :
       depth' = [depth EXCEPT ![w] = Resolved(job[w].items, @, id)]
  /\ UNCHANGED <<job, pc, lines, next, result, runMu, outMu, file>>

Render(w) ==
  /\ pc[w] = "render"
  /\ job[w].mode = "tree" => SpanIds(job[w].items) \subseteq DOMAIN depth[w]
  /\ lines' = [lines EXCEPT ![w] = Block(job[w].items, depth[w], job[w].footer)]
  /\ Goto(w, "lock")
  /\ UNCHANGED <<job, depth, next, result, runMu, outMu, file>>

-----------------------------------------------------------------------------
(* writeLines. *)

\* Variant: the mutex of the sink is not waited for.
LockAnyway(w) ==
  /\ pc[w] = "lock"
  /\ outMu' = [outMu EXCEPT ![SinkOf[w]] = w]
  /\ Goto(w, "write")
  /\ UNCHANGED <<job, depth, lines, next, result, runMu, file>>

Lock(w) ==
  /\ pc[w] = "lock"
  /\ outMu[SinkOf[w]] = NoOne
  /\ outMu' = [outMu EXCEPT ![SinkOf[w]] = w]
  /\ Goto(w, "write")
  /\ UNCHANGED <<job, depth, lines, next, result, runMu, file>>

Printed(w) == file' = Append(file, <<w, next[w]>>)

WriteLine(w) ==
  /\ pc[w] = "write"
  /\ next[w] <= Len(lines[w])
  /\ Printed(w)
  /\ next' = [next EXCEPT ![w] = @ + 1]
  /\ UNCHANGED <<job, pc, depth, lines, result, runMu, outMu>>

Unlock(w) ==
  /\ outMu' = [outMu EXCEPT ![SinkOf[w]] = NoOne]
  /\ Goto(w, "leave")

\* A write fails; a part of the line may be in the file.
WriteFails(w) ==
  /\ pc[w] = "write"
  /\ next[w] <= Len(lines[w])
  /\ \/ UNCHANGED <<file, next>>
     \/ Printed(w) /\ next' = [next EXCEPT ![w] = @ + 1]
  /\ result' = [result EXCEPT ![w] = "error"]
  /\ Unlock(w)
  /\ UNCHANGED <<job, depth, lines, runMu>>

Written(w) ==
  /\ pc[w] = "write"
  /\ next[w] > Len(lines[w])
  /\ result' = [result EXCEPT ![w] = "ok"]
  /\ Unlock(w)
  /\ UNCHANGED <<job, depth, lines, next, runMu, file>>

\* A flusher gives the other mutex back, too; what writeLines returned is ignored.
Leave(w) ==
  /\ pc[w] = "leave"
  /\ runMu' = IF Flushes(w) THEN [runMu EXCEPT ![SinkOf[w]] = NoOne] ELSE runMu
  /\ Goto(w, "done")
  /\ UNCHANGED <<job, depth, lines, next, result, outMu, file>>

Quiet == (\A w \in Writers : pc[w] = "done") /\ UNCHANGED vars

Step(w) ==
  \/ Refuse(w) \/ Format(w) \/ Enter(w) \/ Resolve(w) \/ Render(w)
  \/ Lock(w) \/ WriteLine(w) \/ WriteFails(w) \/ Written(w) \/ Leave(w)

Next == (\E w \in Writers : Step(w)) \/ Quiet

Spec == Init /\ [][Next]_vars

-----------------------------------------------------------------------------
(* Properties. *)

\* The lines of one write stay together among those of its sink, in their order
\* and without a gap, whatever other calls, sweeps and flushes print; and a write
\* that reports success printed all of them (stdout.go:57-69).
WholeWrites ==
  /\ \A i, k \in DOMAIN file : \A j \in i..k :
       /\ file[i][1] = file[k][1]
       /\ SinkOf[file[j][1]] = SinkOf[file[i][1]]
       => file[j][1] = file[i][1] /\ file[j][2] <= file[k][2]
  /\ \A w \in Writers : \A n \in 1..(next[w] - 1) :
       \E i \in DOMAIN file : file[i] = <<w, n>>
  /\ \A w \in Writers : result[w] = "ok" => next[w] > Len(lines[w])

\* The parent each id of the buffer has: that of the newest of its spans, of which
\* the one that arrived last among those of one time.
Newest(items, id) ==
  CHOOSE i \in DOMAIN items :
    /\ items[i].kind = "span" /\ items[i].id = id
    /\ \A j \in DOMAIN items :
         items[j].kind = "span" /\ items[j].id = id =>
           items[j].at < items[i].at \/ (items[j].at = items[i].at /\ j <= i)

\* The spans that id is a part of, its parent and the parents of these: the
\* smallest set that has the parent of id and the parent of each of its members.
Ancestors(items, id) ==
  LET Parent(y) == {items[Newest(items, y)].parent} \cap SpanIds(items)
  IN  {x \in SpanIds(items) :
         \A T \in SUBSET SpanIds(items) :
           (\A y \in T \cup {id} : Parent(y) \subseteq T) => x \in T}

\* The number of lines above an item that say what it is a part of.  For a span
\* that descends from a cycle there is no such number, and no more is promised than
\* that there is one, at most twice that of the spans.
IsDepth(items, id, d) ==
  IF \E x \in Ancestors(items, id) : x \in Ancestors(items, x)
    THEN d <= 2 * Cardinality(SpanIds(items))
    ELSE d = Cardinality(Ancestors(items, id))

\* A block that is about to be written shows every item of the buffer once, in the
\* order of their time and then of their arrival, each span as deep as it has
\* ancestors in the buffer, in whatever order the spans are walked; logs and
\* metrics stay flat (internal/format/runblock.go:91-95, 99-101, 202-205).
BlocksShowTheTree ==
  \A w \in Writers : LET items == job[w].items  ls == lines[w] IN
    Flushes(w) /\ pc[w] = "lock" =>
      /\ Len(ls) = Len(items) + 2
      /\ ls[1].what = "header" /\ ls[Len(ls)].what = job[w].footer
      /\ \A i \in DOMAIN items : \E n \in 2..(Len(ls) - 1) :
           /\ ls[n].what = "item" /\ ls[n].item = i
           /\ IF job[w].mode = "tree" /\ items[i].kind = "span" /\ items[i].id # NoId
                THEN IsDepth(items, items[i].id, ls[n].depth)
                ELSE ls[n].depth = 0
      /\ \A m, n \in 2..(Len(ls) - 1) : m < n =>
           LET i == ls[m].item  j == ls[n].item
           IN  items[i].at < items[j].at \/ (items[i].at = items[j].at /\ i < j)

=============================================================================
