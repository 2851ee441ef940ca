---------------------------- MODULE BlockLayout ----------------------------
(***************************************************************************)
(* The order and the indentation of the lines of a run block               *)
(* (RenderRunBlock, internal/format/runblock.go).                          *)
(*                                                                         *)
(* A buffer is a sequence of items in the order of their arrival, records  *)
(* of a kind ("span", "log", "metric"), a timestamp `at', and for spans an *)
(* `id' and the id of a `parent', of which each may be missing.  A line is *)
(* a record of what it shows: the header, an item with its depth, or one   *)
(* of the two footers.  Every item makes one line.                         *)
(***************************************************************************)
EXTENDS Naturals, Sequences, FiniteSets

CONSTANTS
  Ids,  \* the ids of spans and of their parents
  NoId  \* an id that is missing

Item == [kind : {"span", "log", "metric"}, at : Nat,
         id : Ids \cup {NoId}, parent : Ids \cup {NoId}]

Line(what, item, depth) == [what |-> what, item |-> item, depth |-> depth]

\* Variant: items of one timestamp in no particular order.
BeforeOrAtLoosely(items, i, j) ==
  items[i].at < items[j].at \/ (items[i].at = items[j].at /\ i >= j)

\* sort.SliceStable by timestamp.
BeforeOrAt(items, i, j) ==
  items[i].at < items[j].at \/ (items[i].at = items[j].at /\ i <= j)

\* The positions of the items, in the order in which they are shown.
Order(items) ==
  [r \in DOMAIN items |->
     CHOOSE j \in DOMAIN items :
       Cardinality({i \in DOMAIN items : BeforeOrAt(items, i, j)}) = r]

-----------------------------------------------------------------------------
(* computeSpanDepths. *)

\* The keys of `spans': spans are told apart by their id alone, not by their trace.
SpanIds(items) ==
  {items[i].id : i \in {j \in DOMAIN items : items[j].kind = "span"}} \ {NoId}

\* Of spans with the same id the last one in the sorted items is kept.
ParentOf(items, id) ==
  LET same == {r \in DOMAIN items : LET i == items[Order(items)[r]]
                                    IN  i.kind = "span" /\ i.id = id}
      last == CHOOSE r \in same : \A q \in same : q <= r
  IN  items[Order(items)[last]].parent

\* The parent is missing, or is not in the buffer: NoId is in no buffer.
Rooted(items, id) == ParentOf(items, id) \notin SpanIds(items)

\* resolve, for an id of the range over `spans': it follows the parents up to a
\* depth it knows, a root, or more hops than there are spans (which is counted as
\* a root), and notes the depths on the way back.  On a cycle it meets an id
\* several times; the last value it notes, that of its first visit, stays.
Resolved(items, depth, id) ==
  LET hops == Cardinality(SpanIds(items)) + 1
      up[h \in 0..hops] ==
        IF h = 0 THEN id
        ELSE IF Rooted(items, up[h - 1]) THEN up[h - 1]
        ELSE ParentOf(items, up[h - 1])
      Stops(h) == up[h] \in DOMAIN depth \/ Rooted(items, up[h]) \/ h = hops
      top == CHOOSE h \in 0..hops : Stops(h) /\ \A g \in 0..(h - 1) : ~Stops(g)
      base == IF up[top] \in DOMAIN depth THEN depth[up[top]] ELSE 0
      First(x) == CHOOSE h \in 0..top : up[h] = x /\ \A g \in 0..(h - 1) : up[g] # x
  IN  [x \in DOMAIN depth \cup {up[h] : h \in 0..top} |->
         IF x \in DOMAIN depth THEN depth[x] ELSE base + (top - First(x))]

-----------------------------------------------------------------------------
(* RenderRunBlock, and flushLocked, which puts a warning in the place of the *)
(* footer of a block that overflowed.                                        *)

\* Logs, metrics, and spans without an id are not indented.
DepthOf(item, depth) ==
  IF item.kind = "span" /\ item.id \in DOMAIN depth THEN depth[item.id] ELSE 0

Block(items, depth, footer) ==
  <<Line("header", 0, 0)>>
    \o [r \in DOMAIN items |->
          LET i == Order(items)[r] IN Line("item", i, DepthOf(items[i], depth))]
    \o <<Line(footer, 0, 0)>>

\* Line mode: FormatTraces, FormatLogs, FormatMetrics keep the order of the request.
Plain(items) == [i \in DOMAIN items |-> Line("item", i, 0)]

=============================================================================
