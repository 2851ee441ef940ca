---------------------------- MODULE StdoutProofs ----------------------------
(***************************************************************************)
(* Theorems about Stdout, for any number of sinks, writers, blocks and     *)
(* requests.  Writes are whole: whoever writes holds the mutex of its      *)
(* sink, and since it took the mutex nobody else has printed through that  *)
(* sink.  Blocks show the tree: a depth that was noted is that of the span *)
(* whatever else was, so that the walk may take the spans in any order.    *)
(***************************************************************************)
EXTENDS Stdout, InductionFacts

\* What the argument needs of the types.
Typed ==
  /\ DOMAIN pc = Writers /\ DOMAIN lines = Writers /\ DOMAIN result = Writers
  /\ next \in [Writers -> Nat \ {0}]
  /\ DOMAIN outMu = Sinks
  /\ file \in Seq(Writers \X (Nat \ {0}))

\* A writer holds the mutex, and one that does not write yet has printed nothing;
\* its result comes when it has written.
Placed ==
  \A w \in Writers :
    /\ pc[w] = "write" => outMu[SinkOf[w]] = w
    /\ pc[w] \in {"idle", "render", "lock"} => next[w] = 1
    /\ result[w] = "ok" => pc[w] \in {"leave", "done"}

\* A line in the file was passed by the loop that prints it.
Passed == \A i \in DOMAIN file : file[i][2] < next[file[i][1]]

\* After the first line of the writer that holds the mutex of a sink, nobody else
\* printed through the sink.
Undisturbed ==
  \A i \in DOMAIN file : \A j \in i..Len(file) :
    /\ pc[file[i][1]] = "write"
    /\ SinkOf[file[j][1]] = SinkOf[file[i][1]]
    => file[j][1] = file[i][1]

Inv == Typed /\ Placed /\ Passed /\ Undisturbed /\ WholeWrites

-----------------------------------------------------------------------------

\* The invariant holds in the beginning.
LEMMA InitInv == Init => Inv
<1> SUFFICES ASSUME Init PROVE Inv
  OBVIOUS
<1>1. Typed
  BY DEF Init, Typed
<1>2. Placed
  BY DEF Init, Placed
<1>3. DOMAIN file = {}
  BY DEF Init
<1>4. Passed /\ Undisturbed
  BY <1>3 DEF Passed, Undisturbed
<1>5. WholeWrites
  BY <1>3 DEF Init, WholeWrites
<1> QED
  BY <1>1, <1>2, <1>4, <1>5 DEF Inv

\* A writer prints the line its loop has come to, and stays or unlocks.
LEMMA PrintedInv ==
  ASSUME Inv, NEW w \in Writers, pc[w] = "write", next[w] <= Len(lines[w]),
         Printed(w), next' = [next EXCEPT ![w] = @ + 1], UNCHANGED lines,
         \/ UNCHANGED <<pc, outMu, result>>
         \/ Unlock(w) /\ result' = [result EXCEPT ![w] = "error"]
  PROVE  Inv'
<1> USE DEF Inv
<1> DEFINE last == Len(file) + 1
<1>1. /\ file' \in Seq(Writers \X (Nat \ {0}))
      /\ Len(file') = last /\ DOMAIN file' = 1..last /\ last \in Nat
      /\ file'[last] = <<w, next[w]>>
      /\ \A i \in DOMAIN file : file'[i] = file[i] /\ file[i] \in Writers \X (Nat \ {0})
      /\ DOMAIN file = 1..Len(file) /\ Len(file) \in Nat
  BY DEF Printed, Typed
<1>2. /\ next' \in [Writers -> Nat \ {0}] /\ next'[w] = next[w] + 1 /\ next[w] \in Nat
      /\ \A v \in Writers : next'[v] >= next[v]
      /\ \A v \in Writers \ {w} : next'[v] = next[v]
  BY DEF Typed
<1>3. Typed'
  BY <1>1, <1>2 DEF Typed, Unlock, Goto
<1>4. /\ \A v \in Writers \ {w} : pc'[v] = pc[v] /\ result'[v] = result[v]
      /\ pc'[w] \in {"write", "leave"} /\ result'[w] # "ok"
      /\ \A s \in Sinks \ {SinkOf[w]} : outMu'[s] = outMu[s]
      /\ pc'[w] = "write" => outMu' = outMu
  BY DEF Typed, Placed, Unlock, Goto
<1>5. \A v \in Writers \ {w} : pc[v] = "write" => SinkOf[v] \in Sinks \ {SinkOf[w]}
  BY DEF Placed, Sinks
<1>6. Placed'
  <2> SUFFICES ASSUME NEW v \in Writers
               PROVE  /\ pc'[v] = "write" => outMu'[SinkOf[v]] = v
                      /\ pc'[v] \in {"idle", "render", "lock"} => next'[v] = 1
                      /\ result'[v] = "ok" => pc'[v] \in {"leave", "done"}
    BY DEF Placed
  <2>1. CASE v = w
    BY <2>1, <1>4 DEF Placed
  <2>2. CASE v # w
    BY <2>2, <1>2, <1>4, <1>5 DEF Placed
  <2> QED
    BY <2>1, <2>2
<1>7. Passed'
  <2> SUFFICES ASSUME NEW i \in 1..last PROVE file'[i][2] < next'[file'[i][1]]
    BY <1>1 DEF Passed
  <2>1. CASE i = last
    BY <2>1, <1>1, <1>2
  <2>2. CASE i \in DOMAIN file
    <3>1. file[i][1] \in Writers /\ file[i][2] \in Nat /\ file[i][2] < next[file[i][1]]
      BY <1>1, <2>2 DEF Passed
    <3> QED
      BY <3>1, <1>1, <1>2, <2>2
  <2> QED
    BY <2>1, <2>2, <1>1
<1>8. Undisturbed'
  <2> SUFFICES ASSUME NEW i \in 1..last, NEW j \in i..last,
                      pc'[file'[i][1]] = "write",
                      SinkOf[file'[j][1]] = SinkOf[file'[i][1]]
               PROVE  file'[j][1] = file'[i][1]
    BY <1>1 DEF Undisturbed
  <2>1. CASE i = last
    BY <2>1, <1>1
  <2>2. CASE i \in DOMAIN file /\ j = last
    <3>1. file[i][1] \in Writers /\ file'[i][1] = file[i][1] /\ file'[j][1] = w
      BY <1>1, <2>2
    <3> QED
      BY <3>1, <1>4, <1>5
  <2>3. CASE i \in DOMAIN file /\ j \in DOMAIN file
    <3>1. /\ file[i][1] \in Writers
          /\ file'[i][1] = file[i][1] /\ file'[j][1] = file[j][1]
          /\ j \in i..Len(file)
      BY <1>1, <2>3
    <3>2. pc[file[i][1]] = "write"
      BY <3>1, <1>4
    <3> QED
      BY <3>1, <3>2, <2>3 DEF Undisturbed
  <2> QED
    BY <2>1, <2>2, <2>3, <1>1
<1>9. WholeWrites'
  <2>1. ASSUME NEW i \in 1..last, NEW k \in 1..last, NEW j \in i..k,
               file'[i][1] = file'[k][1],
               SinkOf[file'[j][1]] = SinkOf[file'[i][1]]
        PROVE  file'[j][1] = file'[i][1] /\ file'[j][2] <= file'[k][2]
    <3>1. CASE k = last /\ j = last
      BY <3>1, <2>1, <1>1, <1>2
    <3>2. CASE k = last /\ j # last
      <4>1. i \in DOMAIN file /\ j \in DOMAIN file /\ j \in i..Len(file)
        BY <3>2, <1>1
      <4>2. file[i][1] = w /\ SinkOf[file[j][1]] = SinkOf[file[i][1]]
        BY <4>1, <3>2, <2>1, <1>1
      <4>3. file[j][1] = w
        BY <4>1, <4>2 DEF Undisturbed
      <4>4. file[j][2] < next[w] /\ file[j][2] \in Nat
        BY <4>1, <4>3, <1>1 DEF Passed
      <4> QED
        BY <4>1, <4>2, <4>3, <4>4, <3>2, <1>1, <1>2
    <3>3. CASE k # last
      <4>1. i \in DOMAIN file /\ j \in DOMAIN file /\ k \in DOMAIN file
        BY <3>3, <1>1
      <4>2. file'[i] = file[i] /\ file'[j] = file[j] /\ file'[k] = file[k]
        BY <4>1, <1>1
      <4>3. file[j][1] = file[i][1] /\ file[j][2] <= file[k][2]
        BY <4>1, <4>2, <2>1 DEF WholeWrites
      <4> QED
        BY <4>2, <4>3
    <3> QED
      BY <3>1, <3>2, <3>3
  <2>2. ASSUME NEW v \in Writers, NEW n \in 1..(next'[v] - 1)
        PROVE  \E i \in DOMAIN file' : file'[i] = <<v, n>>
    <3>1. CASE v = w /\ n = next[w]
      <4>1. last \in DOMAIN file' /\ file'[last] = <<v, n>>
        BY <3>1, <1>1
      <4> QED
        BY <4>1
    <3>2. CASE n \in 1..(next[v] - 1)
      <4>1. PICK i \in DOMAIN file : file[i] = <<v, n>>
        BY <3>2 DEF WholeWrites
      <4>2. i \in DOMAIN file' /\ file'[i] = file[i]
        BY <1>1
      <4> QED
        BY <4>1, <4>2
    <3>3. next[v] \in Nat
      BY DEF Typed
    <3> QED
      BY <3>1, <3>2, <3>3, <1>2
  <2>3. ASSUME NEW v \in Writers, result'[v] = "ok" PROVE next'[v] > Len(lines'[v])
    <3>1. v # w /\ result[v] = "ok" /\ next'[v] = next[v]
      BY <2>3, <1>2, <1>4
    <3> QED
      BY <3>1 DEF WholeWrites
  <2> QED
    BY <2>1, <2>2, <2>3, <1>1 DEF WholeWrites
<1> QED
  BY <1>3, <1>6, <1>7, <1>8, <1>9

\* A step that prints nothing, in which only w goes on: it enters the loop with the
\* mutex that was free, or leaves it.
LEMMA QuietInv ==
  ASSUME Inv, NEW w \in Writers, UNCHANGED <<file, next>>,
         DOMAIN pc' = Writers, DOMAIN lines' = Writers, DOMAIN result' = Writers,
         DOMAIN outMu' = Sinks,
         \A v \in Writers \ {w} :
           pc'[v] = pc[v] /\ lines'[v] = lines[v] /\ result'[v] = result[v],
         \A v \in Writers \ {w} : pc[v] = "write" => outMu'[SinkOf[v]] = outMu[SinkOf[v]],
         pc'[w] = "write" => pc[w] = "lock" /\ outMu'[SinkOf[w]] = w,
         pc'[w] \in {"idle", "render", "lock"} => pc[w] \in {"idle", "render", "lock"},
         result'[w] = "ok" =>
           /\ pc'[w] \in {"leave", "done"}
           /\ next[w] > Len(lines'[w])
  PROVE  Inv'
<1> USE DEF Inv
<1>1. Typed'
  BY DEF Typed
<1>2. Placed'
  BY DEF Placed
<1>3. Passed'
  BY DEF Passed
<1>4. Undisturbed'
  <2> SUFFICES ASSUME NEW i \in DOMAIN file, NEW j \in i..Len(file),
                      pc'[file[i][1]] = "write",
                      SinkOf[file[j][1]] = SinkOf[file[i][1]]
               PROVE  file[j][1] = file[i][1]
    BY DEF Undisturbed
  <2>1. file[i][1] \in Writers /\ file[i][2] \in Nat \ {0}
    BY DEF Typed
  <2>2. file[i][1] # w
    BY <2>1 DEF Placed, Passed
  <2> QED
    BY <2>1, <2>2 DEF Undisturbed
<1>5. WholeWrites'
  <2>1. \A v \in Writers : result'[v] = "ok" => next[v] > Len(lines'[v])
    BY DEF WholeWrites
  <2> QED
    BY <2>1 DEF WholeWrites
<1> QED
  BY <1>1, <1>2, <1>3, <1>4, <1>5

\* Every step keeps the invariant.
LEMMA StepInv == Inv /\ [Next]_vars => Inv'
<1> SUFFICES ASSUME Inv, [Next]_vars PROVE Inv'
  OBVIOUS
<1>t. Typed /\ Placed
  BY DEF Inv
<1>1. ASSUME NEW w \in Writers, Refuse(w) PROVE Inv'
  BY <1>1, <1>t, QuietInv DEF Refuse, Goto, Typed, Placed
<1>2. ASSUME NEW w \in Writers, Format(w) PROVE Inv'
  BY <1>2, <1>t, QuietInv DEF Format, Goto, Typed, Placed
<1>3. ASSUME NEW w \in Writers, Enter(w) PROVE Inv'
  BY <1>3, <1>t, QuietInv DEF Enter, Goto, Typed, Placed
<1>4. ASSUME NEW w \in Writers, Resolve(w) PROVE Inv'
  <2>1. UNCHANGED <<pc, lines, next, result, outMu, file>>
    BY <1>4 DEF Resolve
  <2> QED
    BY <2>1 DEF Inv, Typed, Placed, Passed, Undisturbed, WholeWrites
<1>5. ASSUME NEW w \in Writers, Render(w) PROVE Inv'
  BY <1>5, <1>t, QuietInv DEF Render, Goto, Typed, Placed
<1>6. ASSUME NEW w \in Writers, Lock(w) PROVE Inv'
  <2>1. \A v \in Writers \ {w} : pc[v] = "write" => SinkOf[v] # SinkOf[w]
    BY <1>6, <1>t, StdoutAssumption DEF Lock, Placed
  <2>2. SinkOf[w] \in Sinks
    BY DEF Sinks
  <2> QED
    BY <1>6, <1>t, <2>1, <2>2, QuietInv DEF Lock, Goto, Typed, Placed
<1>7. ASSUME NEW w \in Writers, WriteLine(w) PROVE Inv'
  BY <1>7, PrintedInv DEF WriteLine
<1>8. ASSUME NEW w \in Writers, WriteFails(w) PROVE Inv'
  <2>1. \A v \in Writers \ {w} : pc[v] = "write" => SinkOf[v] # SinkOf[w]
    BY <1>8, <1>t DEF WriteFails, Placed
  <2>2. CASE UNCHANGED <<file, next>>
    BY <2>2, <1>8, <1>t, <2>1, QuietInv DEF WriteFails, Unlock, Goto, Typed, Placed
  <2>3. CASE Printed(w) /\ next' = [next EXCEPT ![w] = @ + 1]
    BY <2>3, <1>8, PrintedInv DEF WriteFails
  <2> QED
    BY <1>8, <2>2, <2>3 DEF WriteFails
<1>9. ASSUME NEW w \in Writers, Written(w) PROVE Inv'
  <2>1. \A v \in Writers \ {w} : pc[v] = "write" => SinkOf[v] # SinkOf[w]
    BY <1>9, <1>t DEF Written, Placed
  <2> QED
    BY <1>9, <1>t, <2>1, QuietInv DEF Written, Unlock, Goto, Typed, Placed
<1>10. ASSUME NEW w \in Writers, Leave(w) PROVE Inv'
  <2>1. result[w] = "ok" => next[w] > Len(lines[w])
    BY DEF Inv, WholeWrites
  <2> QED
    BY <1>10, <1>t, <2>1, QuietInv DEF Leave, Goto, Typed, Placed
<1>11. CASE UNCHANGED vars
  BY <1>11 DEF vars, Inv, Typed, Placed, Passed, Undisturbed, WholeWrites
<1> QED
  BY <1>1, <1>2, <1>3, <1>4, <1>5, <1>6, <1>7, <1>8, <1>9, <1>10, <1>11
  DEF Next, Step, Quiet

\* The lines of one write stay together among those of their sink and in their
\* order, and success means all of them, however many writers, sinks and kinds of
\* job there are (writeLines, stdout.go:57-69).
THEOREM WritesAreWhole == Spec => []WholeWrites
<1>1. Inv => WholeWrites
  BY DEF Inv
<1> QED
  BY InitInv, StepInv, <1>1, PTL DEF Spec

-----------------------------------------------------------------------------
(* The order of the items of a block. *)

\* The positions up to j in the order that is shown.
UpTo(items, j) == {i \in DOMAIN items : BeforeOrAt(items, i, j)}

\* The order of the items is total.
LEMMA TotalOrder ==
  ASSUME NEW items \in Seq(Item)
  PROVE  /\ \A i \in DOMAIN items : i \in Nat /\ items[i].at \in Nat
         /\ \A i \in DOMAIN items : BeforeOrAt(items, i, i)
         /\ \A i, j \in DOMAIN items : BeforeOrAt(items, i, j) \/ BeforeOrAt(items, j, i)
         /\ \A i, j \in DOMAIN items :
              BeforeOrAt(items, i, j) /\ BeforeOrAt(items, j, i) => i = j
         /\ \A i, j, k \in DOMAIN items :
              BeforeOrAt(items, i, j) /\ BeforeOrAt(items, j, k) => BeforeOrAt(items, i, k)
<1>1. \A i \in DOMAIN items : i \in Nat /\ items[i] \in Item
  OBVIOUS
<1>2. \A i \in DOMAIN items : items[i].at \in Nat
  BY <1>1 DEF Item
<1> QED BY <1>1, <1>2 DEF BeforeOrAt

\* A later item has more items up to it, and at most all of them.
LEMMA RankGrows ==
  ASSUME NEW items \in Seq(Item), NEW i \in DOMAIN items, NEW j \in DOMAIN items
  PROVE  /\ Cardinality(UpTo(items, j)) \in 1..Len(items)
         /\ BeforeOrAt(items, i, j) /\ i # j =>
              Cardinality(UpTo(items, i)) < Cardinality(UpTo(items, j))
<1>1. DOMAIN items = 1..Len(items) /\ Len(items) \in Nat
  OBVIOUS
<1>2. IsFiniteSet(DOMAIN items) /\ Cardinality(DOMAIN items) = Len(items)
  BY <1>1, SegmentSize
<1>3. \A k \in DOMAIN items : IsFiniteSet(UpTo(items, k)) /\ Cardinality(UpTo(items, k)) \in Nat
                              /\ Cardinality(UpTo(items, k)) <= Len(items)
  <2> SUFFICES ASSUME NEW k \in DOMAIN items
               PROVE  /\ IsFiniteSet(UpTo(items, k)) /\ Cardinality(UpTo(items, k)) \in Nat
                      /\ Cardinality(UpTo(items, k)) <= Len(items)
    OBVIOUS
  <2>1. UpTo(items, k) \in SUBSET DOMAIN items
    BY DEF UpTo
  <2> QED BY <1>2, <2>1, FS_Subset, FS_CardinalityType
<1>4. Cardinality(UpTo(items, j)) # 0
  <2>1. j \in UpTo(items, j)
    BY TotalOrder DEF UpTo
  <2> QED BY <1>3, <2>1, FS_EmptySet
<1>5. ASSUME BeforeOrAt(items, i, j), i # j
      PROVE  Cardinality(UpTo(items, i)) < Cardinality(UpTo(items, j))
  <2>1. UpTo(items, i) \in SUBSET UpTo(items, j)
    BY <1>5, TotalOrder DEF UpTo
  <2>2. j \in UpTo(items, j) /\ j \notin UpTo(items, i)
    BY <1>5, TotalOrder DEF UpTo
  <2>3. Cardinality(UpTo(items, i)) <= Cardinality(UpTo(items, j))
        /\ Cardinality(UpTo(items, i)) # Cardinality(UpTo(items, j))
    BY <1>3, <2>1, <2>2, FS_Subset
  <2> QED BY <1>3, <2>3
<1> QED BY <1>3, <1>4, <1>5

\* Order shows each item once, sorted by time and then by arrival.
LEMMA OrderSorts ==
  ASSUME NEW items \in Seq(Item)
  PROVE  /\ Order(items) \in [DOMAIN items -> DOMAIN items]
         /\ \A j \in DOMAIN items : \E r \in DOMAIN items : Order(items)[r] = j
         /\ \A q, r \in DOMAIN items : q < r =>
              /\ Order(items)[q] # Order(items)[r]
              /\ BeforeOrAt(items, Order(items)[q], Order(items)[r])
<1> DEFINE D == DOMAIN items
           rank == [j \in D |-> Cardinality(UpTo(items, j))]
<1>1. D = 1..Len(items) /\ Len(items) \in Nat
  OBVIOUS
<1>2. rank \in [D -> D]
  BY <1>1, RankGrows
<1>3. \A i, j \in D : rank[i] = rank[j] => i = j
  <2> SUFFICES ASSUME NEW i \in D, NEW j \in D, i # j PROVE rank[i] # rank[j]
    OBVIOUS
  <2>1. BeforeOrAt(items, i, j) \/ BeforeOrAt(items, j, i)
    BY TotalOrder
  <2>2. rank[i] < rank[j] \/ rank[j] < rank[i]
    BY <2>1, RankGrows
  <2>3. rank[i] \in Nat /\ rank[j] \in Nat
    BY <1>1, <1>2
  <2> QED BY <2>2, <2>3
<1>4. rank \in Injection(D, D)
  <2> HIDE DEF rank, D
  <2> QED BY <1>2, <1>3 DEF Injection, IsInjective
<1>5. rank \in Surjection(D, D)
  <2> HIDE DEF rank
  <2>1. IsFiniteSet(D)
    BY <1>1, FS_Interval
  <2> HIDE DEF D
  <2> QED BY <1>4, <2>1, FS_Injection
<1>6. \A r \in D : \E j \in D : rank[j] = r
  <2> HIDE DEF rank, D
  <2> QED BY <1>5 DEF Surjection
<1> DEFINE place(r) == CHOOSE j \in D : Cardinality(UpTo(items, j)) = r
<1>7. Order(items) = [r \in D |-> place(r)]
  BY DEF Order, UpTo
<1>8. \A r \in D : place(r) \in D /\ rank[place(r)] = r
  <2> SUFFICES ASSUME NEW r \in D PROVE place(r) \in D /\ rank[place(r)] = r
    OBVIOUS
  <2>1. \E j \in D : Cardinality(UpTo(items, j)) = r
    BY <1>6
  <2> QED BY <2>1
<1> HIDE DEF place
<1>11. /\ Order(items) \in [D -> D]
       /\ \A r \in D : Order(items)[r] \in D /\ rank[Order(items)[r]] = r
  <2> HIDE DEF rank, D
  <2> QED BY <1>7, <1>8
<1>9. ASSUME NEW j \in D PROVE \E r \in D : Order(items)[r] = j
  <2>1. rank[Order(items)[rank[j]]] = rank[j] /\ rank[j] \in D /\ Order(items)[rank[j]] \in D
    <3> HIDE DEF rank
    <3> QED BY <1>2, <1>11
  <2> QED BY <1>3, <2>1
<1>10. ASSUME NEW q \in D, NEW r \in D, q < r
       PROVE  /\ Order(items)[q] # Order(items)[r]
              /\ BeforeOrAt(items, Order(items)[q], Order(items)[r])
  <2> DEFINE i == Order(items)[q]  j == Order(items)[r]
  <2>1. i \in D /\ j \in D /\ rank[i] = q /\ rank[j] = r
    BY <1>11
  <2>2. i # j
    <3> HIDE DEF i, j, rank
    <3> QED BY <1>10, <1>1, <2>1
  <2>3. ~BeforeOrAt(items, j, i)
    <3>1. SUFFICES ASSUME BeforeOrAt(items, j, i) PROVE FALSE
      OBVIOUS
    <3>2. rank[j] < rank[i]
      <4> HIDE DEF i, j
      <4> QED BY <2>1, <2>2, <3>1, RankGrows
    <3> HIDE DEF i, j, rank
    <3> QED BY <1>10, <1>1, <2>1, <3>2
  <2>4. BeforeOrAt(items, i, j)
    <3> HIDE DEF i, j
    <3> QED BY <2>1, <2>3, TotalOrder
  <2> QED BY <2>2, <2>4
<1> QED BY <1>9, <1>10, <1>11

-----------------------------------------------------------------------------
(* Spans, their parents and their ancestors. *)

\* What the span that an id stands for is a part of.
Parent(items, x) == items[Newest(items, x)].parent

\* The two ways to find the span an id stands for agree: the last one of those that
\* are sorted is the newest.
LEMMA ParentsAgree ==
  ASSUME NEW items \in Seq(Item), NEW id \in SpanIds(items)
  PROVE  ParentOf(items, id) = Parent(items, id)
<1> DEFINE D == DOMAIN items
           Is(i) == items[i].kind = "span" /\ items[i].id = id
           same == {r \in D : Is(Order(items)[r])}
           last == CHOOSE r \in same : \A q \in same : q <= r
           Last(i) == Is(i) /\ \A j \in D : Is(j) => BeforeOrAt(items, j, i)
<1>1. D = 1..Len(items) /\ Len(items) \in Nat
  OBVIOUS
<1>2. PICK j \in D : Is(j)
  BY DEF SpanIds
<1>3. same # {}
  <2>1. PICK r \in D : Order(items)[r] = j
    BY OrderSorts
  <2> QED BY <1>2, <2>1
<1>4. last \in same /\ \A q \in same : q <= last
  <2>1. same \in SUBSET (0..Len(items))
    BY <1>1
  <2>2. \E m \in same : \A q \in same : q <= m
    <3> HIDE DEF same
    <3> QED BY <1>1, <1>3, <2>1, GreatestNatural
  <2> HIDE DEF same
  <2> QED BY <2>2
<1> DEFINE i == Order(items)[last]
<1>5. i \in D /\ Last(i)
  <2>1. last \in D /\ i \in D /\ Is(i)
    <3>1. last \in D /\ Is(Order(items)[last])
      BY <1>4
    <3> HIDE DEF last, Is
    <3> QED BY <3>1, OrderSorts
  <2>2. ASSUME NEW k \in D, Is(k) PROVE BeforeOrAt(items, k, i)
    <3>1. PICK r \in D : Order(items)[r] = k
      BY OrderSorts
    <3>2. r \in same
      BY <2>2, <3>1
    <3>3. r <= last
      <4> HIDE DEF same, last
      <4> QED BY <1>4, <3>2
    <3>4. CASE r = last
      BY <2>1, <3>1, <3>4, TotalOrder
    <3>5. CASE r < last
      <4> HIDE DEF last, Is
      <4> QED BY <2>1, <3>1, <3>5, OrderSorts
    <3>6. r \in Nat /\ last \in Nat
      <4> HIDE DEF last
      <4> QED BY <1>1, <2>1
    <3> HIDE DEF last, i
    <3> QED BY <3>3, <3>4, <3>5, <3>6
  <2> HIDE DEF i, Is
  <2> QED BY <2>1, <2>2
<1>6. \A k \in D : Last(k) => k = i
  <2> SUFFICES ASSUME NEW k \in D, Last(k) PROVE k = i
    OBVIOUS
  <2> HIDE DEF i, Is
  <2> QED BY <1>5, TotalOrder
<1>7. Newest(items, id) = CHOOSE k \in D : Last(k)
  BY DEF Newest, BeforeOrAt
<1>8. Newest(items, id) = i
  <2> HIDE DEF i, Last
  <2> QED BY <1>5, <1>6, <1>7
<1>9. ParentOf(items, id) = items[i].parent
  BY DEF ParentOf
<1> QED BY <1>8, <1>9 DEF Parent

\* There are finitely many spans.
LEMMA SpansFinite ==
  ASSUME NEW items \in Seq(Item)
  PROVE  IsFiniteSet(SpanIds(items)) /\ Cardinality(SpanIds(items)) \in Nat
<1> DEFINE f == [i \in DOMAIN items |-> items[i].id]
           T == {items[i].id : i \in DOMAIN items}
<1>1. DOMAIN items = 1..Len(items) /\ Len(items) \in Nat
  OBVIOUS
<1>2. IsFiniteSet(DOMAIN items)
  BY <1>1, SegmentSize
<1>3. f \in Surjection(DOMAIN items, T)
  BY DEF Surjection
<1>4. IsFiniteSet(T)
  BY <1>2, <1>3, FS_Surjection
<1>5. SpanIds(items) \in SUBSET T
  BY DEF SpanIds
<1>6. IsFiniteSet(SpanIds(items))
  <2> HIDE DEF T
  <2> QED BY <1>4, <1>5, FS_Subset
<1> QED BY <1>6, FS_CardinalityType

\* A span is a part of its parent and of what that is a part of, and of nothing else.
LEMMA AncestorsFact ==
  ASSUME NEW items, NEW x \in SpanIds(items)
  PROVE  /\ Ancestors(items, x) \subseteq SpanIds(items)
         /\ Parent(items, x) \notin SpanIds(items) => Ancestors(items, x) = {}
         /\ Parent(items, x) \in SpanIds(items) =>
              Ancestors(items, x) = {Parent(items, x)} \cup Ancestors(items, Parent(items, x))
<1> DEFINE S == SpanIds(items)
           Closed(T, y) == \A z \in T \cup {y} : Parent(items, z) \in S => Parent(items, z) \in T
<1>1. \A y : Ancestors(items, y) = {z \in S : \A T \in SUBSET S : Closed(T, y) => z \in T}
  BY DEF Ancestors, Parent
<1>2. \A y : Ancestors(items, y) \in SUBSET S
  <2> HIDE DEF Closed, S
  <2> QED BY <1>1
<1>3. \A y : Closed(Ancestors(items, y), y)
  <2> HIDE DEF S
  <2> QED BY <1>1
<1>4. \A y : \A T \in SUBSET S : Closed(T, y) => Ancestors(items, y) \subseteq T
  <2> HIDE DEF Closed, S
  <2> QED BY <1>1
<1> HIDE DEF S
<1>5. ASSUME Parent(items, x) \notin S PROVE Ancestors(items, x) = {}
  <2>1. Closed({}, x)
    BY <1>5
  <2> HIDE DEF Closed
  <2> QED BY <1>4, <2>1
<1>6. ASSUME Parent(items, x) \in S
      PROVE  Ancestors(items, x) = {Parent(items, x)} \cup Ancestors(items, Parent(items, x))
  <2> DEFINE p == Parent(items, x)
  <2>1. p \in Ancestors(items, x)
    BY <1>3, <1>6
  <2>2. Closed(Ancestors(items, x), p)
    BY <1>3, <2>1
  <2>3. Closed({p} \cup Ancestors(items, p), x)
    BY <1>3
  <2> HIDE DEF Closed, p
  <2>4. Ancestors(items, p) \subseteq Ancestors(items, x)
    BY <1>2, <1>4, <2>2
  <2>5. Ancestors(items, x) \subseteq {p} \cup Ancestors(items, p)
    BY <1>2, <1>4, <1>6, <2>3 DEF p
  <2> QED BY <2>1, <2>4, <2>5 DEF p
<1> QED BY <1>2, <1>5, <1>6 DEF S

-----------------------------------------------------------------------------
(* The way of resolve from a span towards a root. *)

\* The parts of Resolved, by name.
Hops(items) == Cardinality(SpanIds(items)) + 1

Way(items, id) ==
  CHOOSE g : g = [h \in 0..Hops(items) |->
                    IF h = 0 THEN id
                    ELSE IF Rooted(items, g[h - 1]) THEN g[h - 1]
                    ELSE ParentOf(items, g[h - 1])]

StopsAt(items, depth_, id, h) ==
  Way(items, id)[h] \in DOMAIN depth_ \/ Rooted(items, Way(items, id)[h]) \/ h = Hops(items)

Top(items, depth_, id) ==
  CHOOSE h \in 0..Hops(items) :
    StopsAt(items, depth_, id, h) /\ \A g \in 0..(h - 1) : ~StopsAt(items, depth_, id, g)

Base(items, depth_, id) ==
  LET y == Way(items, id)[Top(items, depth_, id)]
  IN  IF y \in DOMAIN depth_ THEN depth_[y] ELSE 0

FirstVisit(items, depth_, id, x) ==
  CHOOSE h \in 0..Top(items, depth_, id) :
    Way(items, id)[h] = x /\ \A g \in 0..(h - 1) : Way(items, id)[g] # x

\* Resolved is made of these.
LEMMA ResolvedParts ==
  ASSUME NEW items, NEW d, NEW id
  PROVE  Resolved(items, d, id) =
           [x \in DOMAIN d \cup {Way(items, id)[h] : h \in 0..Top(items, d, id)} |->
              IF x \in DOMAIN d THEN d[x]
              ELSE Base(items, d, id) + (Top(items, d, id) - FirstVisit(items, d, id, x))]
BY DEF Resolved, Hops, Way, StopsAt, Top, Base, FirstVisit

\* The way goes from parent to parent and never leaves the spans.
LEMMA WayFact ==
  ASSUME NEW items \in Seq(Item), NEW id \in SpanIds(items)
  PROVE  /\ Way(items, id)[0] = id
         /\ \A h \in 0..Hops(items) : Way(items, id)[h] \in SpanIds(items)
         /\ \A h \in Nat : h + 1 \in 0..Hops(items) =>
              Way(items, id)[h + 1] =
                LET y == Way(items, id)[h]
                IN  IF Parent(items, y) \in SpanIds(items) THEN Parent(items, y) ELSE y
<1> DEFINE S == SpanIds(items)
           hops == Hops(items)
           step == [y \in S |-> IF Parent(items, y) \in S THEN Parent(items, y) ELSE y]
           G(g, h) == IF h = 0 THEN id
                      ELSE IF Rooted(items, g[h - 1]) THEN g[h - 1]
                      ELSE ParentOf(items, g[h - 1])
<1>1. step \in [S -> S] /\ id \in S /\ hops \in Nat
  BY SpansFinite DEF Hops
<1>2. PICK f : Iterates(f, S, id, step)
  <2> HIDE DEF step
  <2> QED BY <1>1, Recursion
<1>3. \A y \in S : step[y] = IF Rooted(items, y) THEN y ELSE ParentOf(items, y)
  BY ParentsAgree DEF Rooted
<1> DEFINE f0 == [h \in 0..hops |-> f[h]]
<1>f. f \in [Nat -> S] /\ f[0] = id /\ \A n \in Nat \ {0} : f[n] = step[f[n - 1]]
  BY <1>2 DEF Iterates
<1>4. f0 = [h \in 0..hops |-> G(f0, h)]
  <2>1. ASSUME NEW h \in 0..hops PROVE f0[h] = G(f0, h)
    <3>1. CASE h = 0
      BY <1>1, <1>f, <3>1
    <3>2. CASE h # 0
      <4>1. h \in Nat \ {0} /\ h - 1 \in Nat /\ h - 1 \in 0..hops
        BY <1>1, <3>2
      <4>2. f[h] = step[f[h - 1]] /\ f[h - 1] \in S
        BY <1>f, <4>1
      <4>3. f0[h - 1] = f[h - 1] /\ f0[h] = f[h]
        BY <4>1
      <4> HIDE DEF f0, step, S
      <4> QED BY <1>3, <3>2, <4>2, <4>3
    <3> QED BY <3>1, <3>2
  <2> HIDE DEF G
  <2> QED BY <2>1
<1>5. Way(items, id) = [h \in 0..hops |-> G(Way(items, id), h)]
  <2>1. Way(items, id) = CHOOSE g : g = [h \in 0..hops |-> G(g, h)]
    BY DEF Way
  <2> HIDE DEF G, f0
  <2> QED BY <1>4, <2>1
<1> DEFINE W == Way(items, id)
<1>6. \A h \in 0..hops : W[h] = G(W, h)
  <2> HIDE DEF G
  <2> QED BY <1>5
<1> HIDE DEF W
<1>7. W[0] = id
  BY <1>1, <1>6
<1>8. ASSUME NEW h \in Nat, h + 1 \in 0..hops, W[h] \in S PROVE W[h + 1] = step[W[h]]
  <2>1. h + 1 # 0 /\ (h + 1) - 1 = h
    OBVIOUS
  <2> HIDE DEF step
  <2> QED BY <1>3, <1>6, <1>8, <2>1
<1> DEFINE Inside == {h \in Nat : h \in 0..hops => W[h] \in S}
<1>9. Nat \subseteq Inside
  <2>1. 0 \in Inside
    BY <1>1, <1>7
  <2>2. ASSUME NEW h \in Nat, h \in Inside PROVE h + 1 \in Inside
    <3> SUFFICES ASSUME h + 1 \in 0..hops PROVE W[h + 1] \in S
      OBVIOUS
    <3>1. h \in 0..hops
      BY <1>1
    <3>2. W[h] \in S
      BY <2>2, <3>1
    <3> HIDE DEF step
    <3> QED BY <1>1, <1>8, <3>2
  <2> HIDE DEF Inside
  <2> QED BY <2>1, <2>2, Induction
<1>10. \A h \in 0..hops : W[h] \in S
  <2>1. \A h \in 0..hops : h \in Nat
    BY <1>1
  <2> QED BY <1>9, <2>1
<1>11. ASSUME NEW h \in Nat, h + 1 \in 0..hops
       PROVE  W[h + 1] = IF Parent(items, W[h]) \in S THEN Parent(items, W[h]) ELSE W[h]
  <2>1. h \in 0..hops
    BY <1>1, <1>11
  <2>2. W[h] \in S
    BY <1>10, <2>1
  <2> HIDE DEF S
  <2> QED BY <1>8, <1>11, <2>2
<1> QED BY <1>7, <1>10, <1>11 DEF W

\* The chain of x ends in a cycle.
Cyclic(items, x) == \E y \in Ancestors(items, x) : y \in Ancestors(items, y)

\* How many ancestors x has.
Level(items, x) == Cardinality(Ancestors(items, x))

\* There are at most as many as there are spans.
LEMMA LevelType ==
  ASSUME NEW items \in Seq(Item), NEW x \in SpanIds(items)
  PROVE  /\ IsFiniteSet(Ancestors(items, x))
         /\ Level(items, x) \in 0..Cardinality(SpanIds(items))
<1>1. Ancestors(items, x) \in SUBSET SpanIds(items)
  BY AncestorsFact
<1> QED BY <1>1, SpansFinite, FS_Subset, FS_CardinalityType DEF Level

\* A chain has a cycle if the chain of the parent has one; otherwise a span is one level
\* below its parent.
LEMMA LevelFact ==
  ASSUME NEW items \in Seq(Item), NEW x \in SpanIds(items)
  PROVE  /\ Parent(items, x) \notin SpanIds(items) => ~Cyclic(items, x) /\ Level(items, x) = 0
         /\ Parent(items, x) \in SpanIds(items) =>
              /\ Cyclic(items, x) <=> Cyclic(items, Parent(items, x))
              /\ ~Cyclic(items, x) => Level(items, x) = Level(items, Parent(items, x)) + 1
<1>1. CASE Parent(items, x) \notin SpanIds(items)
  <2>1. Ancestors(items, x) = {}
    BY <1>1, AncestorsFact
  <2> QED BY <1>1, <2>1, FS_EmptySet DEF Cyclic, Level
<1>2. CASE Parent(items, x) \in SpanIds(items)
  <2> DEFINE p == Parent(items, x)
  <2>1. Ancestors(items, x) = Ancestors(items, p) \cup {p}
    BY <1>2, AncestorsFact
  <2> HIDE DEF p
  <2>2. Cyclic(items, x) <=> Cyclic(items, p)
    BY <2>1 DEF Cyclic
  <2>3. ASSUME ~Cyclic(items, x) PROVE Level(items, x) = Level(items, p) + 1
    <3>1. p \notin Ancestors(items, p)
      BY <2>1, <2>3 DEF Cyclic
    <3>2. IsFiniteSet(Ancestors(items, p))
      BY <1>2, LevelType DEF p
    <3> QED BY <2>1, <3>1, <3>2, FS_AddElement DEF Level
  <2> QED BY <1>2, <2>2, <2>3 DEF p
<1> QED BY <1>1, <1>2

\* The way ends, and nowhere before its top.
LEMMA TopFact ==
  ASSUME NEW items \in Seq(Item), NEW d, NEW id
  PROVE  /\ Top(items, d, id) \in 0..Hops(items)
         /\ StopsAt(items, d, id, Top(items, d, id))
         /\ \A g \in 0..(Top(items, d, id) - 1) : ~StopsAt(items, d, id, g)
<1> DEFINE S == {h \in 0..Hops(items) : StopsAt(items, d, id, h)}
<1>1. Hops(items) \in Nat
  BY SpansFinite DEF Hops
<1>2. Hops(items) \in S
  BY <1>1 DEF StopsAt
<1>3. PICK h \in S : \A g \in S : h <= g
  <2>1. S \in SUBSET Nat /\ S # {}
    BY <1>1, <1>2
  <2> HIDE DEF S
  <2> QED BY <2>1, LeastNatural
<1>4. \A g \in 0..(h - 1) : ~StopsAt(items, d, id, g)
  <2> SUFFICES ASSUME NEW g \in 0..(h - 1), StopsAt(items, d, id, g) PROVE FALSE
    OBVIOUS
  <2>1. h \in 0..Hops(items)
    OBVIOUS
  <2>2. g \in S
    BY <1>1, <2>1
  <2> HIDE DEF S
  <2> QED BY <1>1, <1>3, <2>1, <2>2
<1>5. h \in 0..Hops(items) /\ StopsAt(items, d, id, h)
  OBVIOUS
<1> HIDE DEF S
<1> QED BY <1>4, <1>5 DEF Top

\* The first visit of a span on the way is on the way.
LEMMA VisitFact ==
  ASSUME NEW items \in Seq(Item), NEW d, NEW id, NEW k \in 0..Top(items, d, id)
  PROVE  LET x == Way(items, id)[k]
         IN  /\ FirstVisit(items, d, id, x) \in 0..Top(items, d, id)
             /\ Way(items, id)[FirstVisit(items, d, id, x)] = x
<1> DEFINE top == Top(items, d, id)
           x == Way(items, id)[k]
           S == {h \in 0..top : Way(items, id)[h] = x}
<1>1. top \in Nat
  BY TopFact, SpansFinite DEF Hops
<1> HIDE DEF x
<1>2. k \in S
  BY DEF x
<1> HIDE DEF top
<1>3. PICK h \in S : \A g \in S : h <= g
  <2>1. S \in SUBSET Nat /\ S # {}
    BY <1>1, <1>2
  <2> HIDE DEF S
  <2> QED BY <2>1, LeastNatural
<1>4. h \in 0..top /\ Way(items, id)[h] = x
  OBVIOUS
<1>5. \A g \in 0..(h - 1) : Way(items, id)[g] # x
  <2> SUFFICES ASSUME NEW g \in 0..(h - 1), Way(items, id)[g] = x PROVE FALSE
    OBVIOUS
  <2>1. g \in S
    BY <1>1, <1>4
  <2> HIDE DEF S
  <2> QED BY <1>1, <1>3, <1>4, <2>1
<1>6. FirstVisit(items, d, id, x) \in 0..top /\ Way(items, id)[FirstVisit(items, d, id, x)] = x
  <2> HIDE DEF S
  <2> QED BY <1>4, <1>5 DEF FirstVisit, top
<1> QED BY <1>6 DEF x, top

\* Before it ends, the way goes to the parent, which is a span.
LEMMA WayUp ==
  ASSUME NEW items \in Seq(Item), NEW d, NEW id \in SpanIds(items),
         NEW h \in Nat, h + 1 <= Top(items, d, id)
  PROVE  LET y == Way(items, id)[h]
         IN  /\ y \in SpanIds(items) /\ y \notin DOMAIN d
             /\ Parent(items, y) \in SpanIds(items)
             /\ Way(items, id)[h + 1] = Parent(items, y)
<1> DEFINE y == Way(items, id)[h]
           top == Top(items, d, id)
<1>1. top \in 0..Hops(items) /\ Hops(items) \in Nat
  BY TopFact, SpansFinite DEF Hops
<1> HIDE DEF top
<1>2. h \in 0..Hops(items) /\ h + 1 \in 0..Hops(items) /\ h \in 0..(top - 1)
  BY <1>1 DEF top
<1>3. ~StopsAt(items, d, id, h)
  BY <1>2, TopFact DEF top
<1>4. y \in SpanIds(items)
  BY <1>2, WayFact
<1>5. y \notin DOMAIN d /\ ~Rooted(items, y)
  BY <1>3 DEF StopsAt
<1>6. Parent(items, y) \in SpanIds(items)
  BY <1>4, <1>5, ParentsAgree DEF Rooted
<1>7. Way(items, id)[h + 1] = IF Parent(items, y) \in SpanIds(items) THEN Parent(items, y) ELSE y
  BY <1>2, WayFact
<1> QED BY <1>4, <1>5, <1>6, <1>7

\* The whole way is on a chain that ends, or on one that does not.
LEMMA WayLevels ==
  ASSUME NEW items \in Seq(Item), NEW d, NEW id \in SpanIds(items)
  PROVE  \A h \in 0..Top(items, d, id) :
           /\ Cyclic(items, Way(items, id)[h]) <=> Cyclic(items, id)
           /\ ~Cyclic(items, id) => Level(items, Way(items, id)[h]) = Level(items, id) - h
<1> DEFINE top == Top(items, d, id)
           W == Way(items, id)
           Fits(h) == /\ Cyclic(items, W[h]) <=> Cyclic(items, id)
                      /\ ~Cyclic(items, id) => Level(items, W[h]) = Level(items, id) - h
           Good == {h \in Nat : h <= top => Fits(h)}
<1>1. Level(items, id) \in Nat
  BY LevelType, SpansFinite
<1>2. 0 \in Good
  <2>1. W[0] = id
    BY WayFact
  <2> QED BY <1>1, <2>1
<1>3. ASSUME NEW h \in Nat, h \in Good PROVE h + 1 \in Good
  <2> SUFFICES ASSUME h + 1 <= top PROVE Fits(h + 1)
    OBVIOUS
  <2>1. /\ W[h] \in SpanIds(items)
        /\ Parent(items, W[h]) \in SpanIds(items)
        /\ W[h + 1] = Parent(items, W[h])
    BY WayUp
  <2>2. top \in Nat
    BY TopFact, SpansFinite DEF Hops
  <2>3. Fits(h)
    <3> HIDE DEF Fits, top
    <3> QED BY <1>3, <2>2
  <2>4. /\ Cyclic(items, W[h]) <=> Cyclic(items, W[h + 1])
        /\ ~Cyclic(items, W[h]) => Level(items, W[h]) = Level(items, W[h + 1]) + 1
    BY <2>1, LevelFact
  <2>5. Level(items, W[h + 1]) \in Nat
    BY <2>1, LevelType, SpansFinite
  <2> HIDE DEF W
  <2> QED BY <1>1, <2>3, <2>4, <2>5
<1>4. Nat \subseteq Good
  <2> HIDE DEF Good
  <2> QED BY <1>2, <1>3, Induction
<1>5. ASSUME NEW h \in 0..top PROVE Fits(h)
  <2>1. h \in Nat /\ h <= top
    BY TopFact, SpansFinite DEF Hops
  <2> HIDE DEF Fits, top
  <2> QED BY <1>4, <2>1
<1> QED BY <1>5

-----------------------------------------------------------------------------
(* The depths that are noted. *)

\* What a depth that is noted means.  On a chain with a cycle it is bounded by the spans
\* and by the depths noted so far.
Noted(items, d) ==
  /\ DOMAIN d \subseteq SpanIds(items)
  /\ \A x \in DOMAIN d :
       /\ d[x] \in Nat
       /\ Cyclic(items, x) => d[x] <= Cardinality(SpanIds(items)) + Cardinality(DOMAIN d)
       /\ ~Cyclic(items, x) => d[x] = Level(items, x)

\* A way that ends at a noted depth has visited no span twice before.
LEMMA NoVisitTwice ==
  ASSUME NEW items \in Seq(Item), NEW d, NEW id \in SpanIds(items),
         Way(items, id)[Top(items, d, id)] \in DOMAIN d,
         NEW i \in Nat, NEW j \in Nat, i < j, j < Top(items, d, id)
  PROVE  Way(items, id)[i] # Way(items, id)[j]
<1> DEFINE top == Top(items, d, id)
           W == Way(items, id)
           Same == {m \in Nat : j + m <= top => W[i + m] = W[j + m]}
<1> SUFFICES ASSUME W[i] = W[j] PROVE FALSE
  OBVIOUS
<1>1. top \in Nat /\ j < top
  BY TopFact, SpansFinite DEF Hops
<1>2. 0 \in Same
  OBVIOUS
<1>3. ASSUME NEW m \in Nat, m \in Same PROVE m + 1 \in Same
  <2> SUFFICES ASSUME j + (m + 1) <= top PROVE W[i + (m + 1)] = W[j + (m + 1)]
    OBVIOUS
  <2> HIDE DEF W
  <2>1. W[i + m] = W[j + m]
    <3> HIDE DEF top
    <3> QED BY <1>1, <1>3
  <2>2. /\ i + m \in Nat /\ (i + m) + 1 <= top
        /\ j + m \in Nat /\ (j + m) + 1 <= top
    <3> HIDE DEF top
    <3> QED BY <1>1
  <2>3. W[(i + m) + 1] = Parent(items, W[i + m])
    BY <2>2, WayUp DEF W
  <2>4. W[(j + m) + 1] = Parent(items, W[j + m])
    BY <2>2, WayUp DEF W
  <2>5. i + (m + 1) = (i + m) + 1 /\ j + (m + 1) = (j + m) + 1
    OBVIOUS
  <2> QED BY <2>1, <2>3, <2>4, <2>5
<1>4. Nat \subseteq Same
  <2> HIDE DEF Same
  <2> QED BY <1>2, <1>3, Induction
<1>5. W[i + (top - j)] = W[top]
  <2>1. top - j \in Nat /\ j + (top - j) = top
    <3> HIDE DEF top
    <3> QED BY <1>1
  <2>2. top - j \in Same
    <3> HIDE DEF Same, top
    <3> QED BY <1>4, <2>1
  <2> HIDE DEF W, top
  <2> QED BY <1>1, <2>1, <2>2
<1>6. W[i + (top - j)] \notin DOMAIN d
  <2>1. i + (top - j) \in Nat /\ (i + (top - j)) + 1 <= top
    <3> HIDE DEF top
    <3> QED BY <1>1
  <2> QED BY <2>1, WayUp
<1> QED BY <1>5, <1>6

\* Such a way notes as many depths as it has steps, or more.
LEMMA NotesGrow ==
  ASSUME NEW items \in Seq(Item), NEW d, DOMAIN d \subseteq SpanIds(items),
         NEW id \in SpanIds(items), id \notin DOMAIN d
  PROVE  LET new == DOMAIN Resolved(items, d, id)
             top == Top(items, d, id)
         IN  /\ new \subseteq SpanIds(items)
             /\ Cardinality(DOMAIN d) \in Nat /\ Cardinality(new) \in Nat
             /\ Cardinality(DOMAIN d) < Cardinality(new)
             /\ Way(items, id)[top] \in DOMAIN d =>
                  Cardinality(DOMAIN d) + top <= Cardinality(new)
<1> DEFINE top == Top(items, d, id)
           W == Way(items, id)
           K == DOMAIN d
           new == K \cup {W[h] : h \in 0..top}
           A == {W[h] : h \in 0..(top - 1)}
<1>1. top \in 0..Hops(items) /\ Hops(items) \in Nat
  BY TopFact, SpansFinite DEF Hops
<1>2. DOMAIN Resolved(items, d, id) = new
  BY ResolvedParts
<1> HIDE DEF top
<1>3. new \subseteq SpanIds(items)
  <2>1. \A h \in 0..top : W[h] \in SpanIds(items)
    BY <1>1, WayFact
  <2> QED BY <2>1
<1>4. /\ IsFiniteSet(new) /\ Cardinality(new) \in Nat
      /\ IsFiniteSet(K) /\ Cardinality(K) \in Nat
  <2> HIDE DEF new
  <2> QED BY <1>3, SpansFinite, FS_Subset, FS_CardinalityType
<1>5. K \in SUBSET new
  OBVIOUS
<1>6. Cardinality(K) < Cardinality(new)
  <2>1. id \in new
    <3>1. W[0] = id /\ 0 \in 0..top
      BY <1>1, WayFact
    <3> HIDE DEF W
    <3> QED BY <3>1
  <2> HIDE DEF new
  <2>2. Cardinality(K) <= Cardinality(new) /\ Cardinality(K) # Cardinality(new)
    BY <1>4, <1>5, <2>1, FS_Subset
  <2> QED BY <1>4, <2>2
<1>7. ASSUME W[top] \in K PROVE Cardinality(K) + top <= Cardinality(new)
  <2> DEFINE f == [h \in 1..top |-> W[h - 1]]
  <2>1. A \in SUBSET new
    <3>1. \A h \in 0..(top - 1) : h \in 0..top
      BY <1>1
    <3> HIDE DEF W
    <3> QED BY <3>1
  <2>2. K \cap A = {}
    <3> SUFFICES ASSUME NEW h \in 0..(top - 1) PROVE W[h] \notin K
      OBVIOUS
    <3>1. h \in Nat /\ h + 1 <= top
      BY <1>1
    <3> QED BY <3>1, WayUp DEF top
  <2>3. f \in Injection(1..top, A)
    <3>1. ASSUME NEW h \in 1..top PROVE f[h] \in A
      <4>1. h - 1 \in 0..(top - 1)
        BY <1>1
      <4> HIDE DEF W
      <4> QED BY <4>1
    <3>2. ASSUME NEW h \in 1..top, NEW g \in 1..top, f[h] = f[g] PROVE h = g
      <4>1. /\ h - 1 \in Nat /\ g - 1 \in Nat /\ h - 1 < top /\ g - 1 < top
            /\ h # g => h - 1 < g - 1 \/ g - 1 < h - 1
        BY <1>1
      <4>2. W[h - 1] = W[g - 1]
        <5> HIDE DEF W
        <5> QED BY <3>2
      <4>3. ~(h - 1 < g - 1) /\ ~(g - 1 < h - 1)
        BY <1>7, <4>1, <4>2, NoVisitTwice DEF top
      <4> QED BY <4>1, <4>3
    <3>3. f \in [1..top -> A]
      <4> HIDE DEF A, W
      <4> QED BY <3>1
    <3> HIDE DEF f, A
    <3> QED BY <3>2, <3>3 DEF Injection, IsInjective
  <2>4. IsFiniteSet(A) /\ Cardinality(A) \in Nat
    <3> HIDE DEF A, new
    <3> QED BY <1>4, <2>1, FS_Subset, FS_CardinalityType
  <2>5. top <= Cardinality(A)
    <3>1. top \in Nat
      BY <1>1
    <3>2. Cardinality(1..top) = top
      BY <3>1, SegmentSize
    <3> HIDE DEF f, A
    <3> QED BY <2>3, <2>4, <3>2, FS_Injection
  <2>6. /\ IsFiniteSet(K \cup A)
        /\ Cardinality(K \cup A) = Cardinality(K) + Cardinality(A) - Cardinality(K \cap A)
    <3> HIDE DEF K, A
    <3> QED BY <1>4, <2>4, FS_Union
  <2>7. Cardinality(K \cap A) = 0
    BY <2>2, FS_EmptySet
  <2>8. Cardinality(K \cup A) <= Cardinality(new)
    <3>1. K \cup A \in SUBSET new
      <4> HIDE DEF A, new
      <4> QED BY <1>5, <2>1
    <3> HIDE DEF K, A, new
    <3> QED BY <1>4, <3>1, FS_Subset
  <2>9. top \in Nat
    BY <1>1
  <2> HIDE DEF K, A, new
  <2> QED BY <1>4, <2>4, <2>5, <2>6, <2>7, <2>8, <2>9
<1> QED BY <1>2, <1>3, <1>4, <1>6, <1>7 DEF top

\* resolve notes right depths, whatever was noted before.
LEMMA ResolvedNoted ==
  ASSUME NEW items \in Seq(Item), NEW d, Noted(items, d),
         NEW id \in SpanIds(items), id \notin DOMAIN d
  PROVE  Noted(items, Resolved(items, d, id))
<1> DEFINE S == SpanIds(items)
           N == Cardinality(S)
           new == Resolved(items, d, id)
           top == Top(items, d, id)
           W == Way(items, id)
           base == Base(items, d, id)
<1>1. /\ DOMAIN new \subseteq S
      /\ Cardinality(DOMAIN d) \in Nat /\ Cardinality(DOMAIN new) \in Nat
      /\ Cardinality(DOMAIN d) < Cardinality(DOMAIN new)
      /\ W[top] \in DOMAIN d => Cardinality(DOMAIN d) + top <= Cardinality(DOMAIN new)
  BY NotesGrow DEF Noted
<1>2. N \in Nat /\ Hops(items) = N + 1 /\ top \in 0..Hops(items) /\ top \in Nat
  BY TopFact, SpansFinite DEF Hops
<1>3. W[top] \in S
  BY <1>2, WayFact
<1>4. \A x \in DOMAIN d : x \in DOMAIN new /\ new[x] = d[x]
  BY ResolvedParts
<1>5. ASSUME NEW x \in DOMAIN new, x \notin DOMAIN d
      PROVE  \E k \in 0..top : x = W[k] /\ new[x] = base + (top - k)
  <2>1. PICK h \in 0..top : x = W[h]
    BY <1>5, ResolvedParts
  <2>2. /\ FirstVisit(items, d, id, x) \in 0..top
        /\ W[FirstVisit(items, d, id, x)] = x
    BY <2>1, VisitFact
  <2>3. new[x] = base + (top - FirstVisit(items, d, id, x))
    BY <1>5, ResolvedParts
  <2> QED BY <2>2, <2>3
<1>6. base = IF W[top] \in DOMAIN d THEN d[W[top]] ELSE 0
  BY DEF Base
<1>7. \A k \in 0..top : /\ Cyclic(items, W[k]) <=> Cyclic(items, id)
                        /\ ~Cyclic(items, id) => Level(items, W[k]) = Level(items, id) - k
  BY WayLevels
<1>8. \A x \in S : Level(items, x) \in 0..N
  BY LevelType
<1>9. top \in 0..top
  BY <1>2
<1> SUFFICES ASSUME NEW x \in DOMAIN new
             PROVE  /\ new[x] \in Nat
                    /\ Cyclic(items, x) => new[x] <= N + Cardinality(DOMAIN new)
                    /\ ~Cyclic(items, x) => new[x] = Level(items, x)
  BY <1>1 DEF Noted
<1>10. CASE x \in DOMAIN d
  <2>1. /\ d[x] \in Nat
        /\ Cyclic(items, x) => d[x] <= N + Cardinality(DOMAIN d)
        /\ ~Cyclic(items, x) => d[x] = Level(items, x)
    BY <1>10 DEF Noted
  <2>2. new[x] = d[x]
    BY <1>4, <1>10
  <2> HIDE DEF new, N
  <2> QED BY <1>1, <1>2, <2>1, <2>2
<1>11. CASE x \notin DOMAIN d /\ ~Cyclic(items, id)
  <2>1. PICK k \in 0..top : x = W[k] /\ new[x] = base + (top - k)
    BY <1>5, <1>11
  <2>2. ~Cyclic(items, W[top]) /\ Level(items, W[top]) = Level(items, id) - top
    BY <1>7, <1>9, <1>11
  <2>3. ~Cyclic(items, x) /\ Level(items, x) = Level(items, id) - k
    BY <1>7, <1>11, <2>1
  <2>4. base = Level(items, W[top])
    <3>1. CASE W[top] \in DOMAIN d
      BY <1>6, <2>2, <3>1 DEF Noted
    <3>2. CASE W[top] \notin DOMAIN d
      <4>1. Rooted(items, W[top]) \/ top = Hops(items)
        BY <3>2, TopFact DEF StopsAt
      <4>2. top # Hops(items)
        <5>1. Level(items, id) \in 0..N /\ Level(items, W[top]) \in 0..N
          BY <1>3, <1>8
        <5> HIDE DEF N, W, top
        <5> QED BY <1>2, <2>2, <5>1
      <4>3. Parent(items, W[top]) \notin S
        BY <1>3, <4>1, <4>2, ParentsAgree DEF Rooted
      <4>4. Level(items, W[top]) = 0
        BY <1>3, <4>3, LevelFact
      <4> QED BY <1>6, <3>2, <4>4
    <3> QED BY <3>1, <3>2
  <2>5. Level(items, x) \in Nat /\ Level(items, id) \in Nat
    <3>1. x \in S
      BY <1>1
    <3> QED BY <1>2, <1>8, <3>1
  <2>6. new[x] = Level(items, x)
    <3> HIDE DEF new, base, top, W
    <3> QED BY <1>2, <2>1, <2>2, <2>3, <2>4, <2>5
  <2> QED BY <2>3, <2>5, <2>6
<1>12. CASE x \notin DOMAIN d /\ Cyclic(items, id)
  <2>1. PICK k \in 0..top : x = W[k] /\ new[x] = base + (top - k)
    BY <1>5, <1>12
  <2>2. Cyclic(items, x) /\ Cyclic(items, W[top])
    BY <1>7, <1>9, <1>12, <2>1
  <2>3. base \in Nat /\ base + top <= N + Cardinality(DOMAIN new)
    <3>1. CASE W[top] \in DOMAIN d
      <4>1. base \in Nat /\ base <= N + Cardinality(DOMAIN d)
        BY <1>6, <2>2, <3>1 DEF Noted
      <4> HIDE DEF new, base, top, W, N
      <4> QED BY <1>1, <1>2, <3>1, <4>1
    <3>2. CASE W[top] \notin DOMAIN d
      <4>1. base = 0
        BY <1>6, <3>2
      <4> HIDE DEF new, base, top, W, N
      <4> QED BY <1>1, <1>2, <4>1
    <3> QED BY <3>1, <3>2
  <2> HIDE DEF new, base, top, W, N
  <2> QED BY <1>1, <1>2, <2>1, <2>2, <2>3
<1> QED BY <1>10, <1>11, <1>12

\* When every span is noted, each has the depth that is promised.
LEMMA NotedDepth ==
  ASSUME NEW items \in Seq(Item), NEW d, Noted(items, d), DOMAIN d = SpanIds(items),
         NEW x \in SpanIds(items)
  PROVE  IsDepth(items, x, d[x])
<1>1. Cyclic(items, x) => d[x] <= 2 * Cardinality(SpanIds(items))
  BY SpansFinite DEF Noted
<1>2. ~Cyclic(items, x) => d[x] = Cardinality(Ancestors(items, x))
  BY DEF Noted, Level
<1> QED BY <1>1, <1>2 DEF IsDepth, Cyclic

-----------------------------------------------------------------------------
(* Blocks. *)

\* The lines of a block one by one.
LEMMA BlockLines ==
  ASSUME NEW items \in Seq(Item), NEW d, NEW footer
  PROVE  LET ls == Block(items, d, footer)
         IN  /\ Len(ls) = Len(items) + 2
             /\ ls[1] = Line("header", 0, 0)
             /\ ls[Len(items) + 2] = Line(footer, 0, 0)
             /\ \A r \in DOMAIN items :
                  ls[r + 1] = Line("item", Order(items)[r], DepthOf(items[Order(items)[r]], d))
<1> DEFINE n == Len(items)
           line(r) == Line("item", Order(items)[r], DepthOf(items[Order(items)[r]], d))
           mid == [r \in 1..n |-> line(r)]
           head == Line("header", 0, 0)
           foot == Line(footer, 0, 0)
           X == {line(r) : r \in 1..n} \cup {head, foot}
<1>1. DOMAIN items = 1..n /\ n \in Nat
  OBVIOUS
<1>2. Block(items, d, footer) = (<<head>> \o mid) \o <<foot>>
  BY <1>1 DEF Block
<1> HIDE DEF n, line, head, foot
<1>3. <<head>> \in Seq(X) /\ <<foot>> \in Seq(X) /\ mid \in Seq(X) /\ Len(mid) = n
  <2>1. mid \in [1..n -> X]
    OBVIOUS
  <2>2. head \in X /\ foot \in X
    OBVIOUS
  <2> HIDE DEF mid, X
  <2>3. mid \in Seq(X) /\ Len(mid) = n
    BY <1>1, <2>1
  <2> QED BY <2>2, <2>3
<1>4. \A r \in 1..n : mid[r] = line(r)
  OBVIOUS
<1> HIDE DEF mid, X
<1> DEFINE front == <<head>> \o mid
<1>5. /\ front \in Seq(X) /\ Len(front) = n + 1
      /\ front[1] = head /\ \A r \in 1..n : front[r + 1] = mid[r]
  BY <1>1, <1>3
<1> HIDE DEF front
<1>6. /\ Len(front \o <<foot>>) = n + 2
      /\ (front \o <<foot>>)[n + 2] = foot
      /\ \A k \in 1..(n + 1) : (front \o <<foot>>)[k] = front[k]
  BY <1>1, <1>3, <1>5
<1>7. 1 \in 1..(n + 1) /\ \A r \in 1..n : r + 1 \in 1..(n + 1)
  BY <1>1
<1> QED BY <1>1, <1>2, <1>4, <1>5, <1>6, <1>7 DEF front, n, line, head, foot

\* The lines of a block show its items.
Shows(ls, items, mode, footer) ==
  /\ Len(ls) = Len(items) + 2
  /\ ls[1].what = "header" /\ ls[Len(ls)].what = footer
  /\ \A i \in DOMAIN items : \E n \in 2..(Len(ls) - 1) :
       /\ ls[n].what = "item" /\ ls[n].item = i
       /\ IF mode = "tree" /\ items[i].kind = "span" /\ items[i].id # NoId
            THEN IsDepth(items, items[i].id, ls[n].depth)
            ELSE ls[n].depth = 0
  /\ \A m, n \in 2..(Len(ls) - 1) : m < n =>
       LET i == ls[m].item  j == ls[n].item
       IN  items[i].at < items[j].at \/ (items[i].at = items[j].at /\ i < j)

\* A block with the depths noted for it shows the tree.
LEMMA BlockShows ==
  ASSUME NEW items \in Seq(Item), NEW d, NEW footer, NEW mode,
         Noted(items, d),
         mode = "tree" => DOMAIN d = SpanIds(items),
         mode # "tree" => DOMAIN d = {}
  PROVE  Shows(Block(items, d, footer), items, mode, footer)
<1> DEFINE ls == Block(items, d, footer)
           O == Order(items)
<1>1. DOMAIN items = 1..Len(items) /\ Len(items) \in Nat
  OBVIOUS
<1>2. /\ Len(ls) = Len(items) + 2
      /\ ls[1] = Line("header", 0, 0)
      /\ ls[Len(items) + 2] = Line(footer, 0, 0)
      /\ \A r \in DOMAIN items : ls[r + 1] = Line("item", O[r], DepthOf(items[O[r]], d))
  BY BlockLines
<1> HIDE DEF ls
<1>3. ls[1].what = "header" /\ ls[Len(ls)].what = footer
  BY <1>2 DEF Line
<1>4. \A r \in DOMAIN items : /\ ls[r + 1].what = "item" /\ ls[r + 1].item = O[r]
                              /\ ls[r + 1].depth = DepthOf(items[O[r]], d)
  <2>1. \A a, b, c : /\ Line(a, b, c).what = a /\ Line(a, b, c).item = b
                     /\ Line(a, b, c).depth = c
    BY DEF Line
  <2> QED BY <1>2, <2>1
<1>5. ASSUME NEW i \in DOMAIN items
      PROVE  IF mode = "tree" /\ items[i].kind = "span" /\ items[i].id # NoId
               THEN IsDepth(items, items[i].id, DepthOf(items[i], d))
               ELSE DepthOf(items[i], d) = 0
  <2>1. CASE mode = "tree" /\ items[i].kind = "span" /\ items[i].id # NoId
    <3>1. items[i].id \in SpanIds(items)
      BY <2>1 DEF SpanIds
    <3>2. DepthOf(items[i], d) = d[items[i].id]
      BY <2>1, <3>1 DEF DepthOf
    <3>3. IsDepth(items, items[i].id, d[items[i].id])
      BY <2>1, <3>1, NotedDepth
    <3> QED BY <2>1, <3>2, <3>3
  <2>2. CASE ~(mode = "tree" /\ items[i].kind = "span" /\ items[i].id # NoId)
    <3>1. NoId \notin SpanIds(items)
      BY DEF SpanIds
    <3>2. ~(items[i].kind = "span" /\ items[i].id \in DOMAIN d)
      BY <2>2, <3>1
    <3> QED BY <2>2, <3>2 DEF DepthOf
  <2> QED BY <2>1, <2>2
<1>6. ASSUME NEW i \in DOMAIN items
      PROVE  \E n \in 2..(Len(ls) - 1) :
               /\ ls[n].what = "item" /\ ls[n].item = i
               /\ IF mode = "tree" /\ items[i].kind = "span" /\ items[i].id # NoId
                    THEN IsDepth(items, items[i].id, ls[n].depth)
                    ELSE ls[n].depth = 0
  <2>1. PICK r \in DOMAIN items : O[r] = i
    BY OrderSorts
  <2>2. r + 1 \in 2..(Len(ls) - 1)
    BY <1>1, <1>2
  <2> HIDE DEF O
  <2> QED BY <1>4, <1>5, <2>1, <2>2
<1>7. ASSUME NEW m \in 2..(Len(ls) - 1), NEW n \in 2..(Len(ls) - 1), m < n
      PROVE  LET i == ls[m].item  j == ls[n].item
             IN  items[i].at < items[j].at \/ (items[i].at = items[j].at /\ i < j)
  <2> DEFINE q == m - 1  r == n - 1
  <2>1. /\ q \in DOMAIN items /\ r \in DOMAIN items /\ q < r
        /\ m = q + 1 /\ n = r + 1
    BY <1>1, <1>2, <1>7
  <2> HIDE DEF q, r
  <2>2. ls[m].item = O[q] /\ ls[n].item = O[r]
    BY <1>4, <2>1
  <2>3. O[q] # O[r] /\ BeforeOrAt(items, O[q], O[r]) /\ O[q] \in DOMAIN items /\ O[r] \in DOMAIN items
    BY <2>1, OrderSorts
  <2>4. O[q] \in Nat /\ O[r] \in Nat
    BY <1>1, <2>3
  <2> HIDE DEF O
  <2> QED BY <2>2, <2>3, <2>4 DEF BeforeOrAt
<1> QED BY <1>2, <1>3, <1>6, <1>7 DEF ls, Shows

-----------------------------------------------------------------------------

\* What was noted and rendered so far.
Rendered ==
  /\ job \in Jobs
  /\ DOMAIN pc = Writers /\ DOMAIN depth = Writers /\ DOMAIN lines = Writers
  /\ \A w \in Writers :
       /\ Noted(job[w].items, depth[w])
       /\ job[w].mode # "tree" => DOMAIN depth[w] = {}
       /\ Flushes(w) /\ pc[w] = "lock" =>
            /\ lines[w] = Block(job[w].items, depth[w], job[w].footer)
            /\ job[w].mode = "tree" => DOMAIN depth[w] = SpanIds(job[w].items)

\* In the beginning nothing is noted.
LEMMA RenderedInit == Init => Rendered
<1> SUFFICES ASSUME Init PROVE Rendered
  OBVIOUS
<1>1. \A w \in Writers : depth[w] = <<>> /\ pc[w] = "idle"
  BY DEF Init
<1>2. \A w \in Writers : Noted(job[w].items, depth[w]) /\ DOMAIN depth[w] = {}
  BY <1>1 DEF Noted
<1> QED BY <1>1, <1>2 DEF Init, Rendered

\* A step of w that notes no depth and renders no block.
LEMMA RenderedKept ==
  ASSUME Rendered, NEW w \in Writers, UNCHANGED <<job, depth>>,
         DOMAIN pc' = Writers, DOMAIN lines' = Writers,
         \A v \in Writers \ {w} : pc'[v] = pc[v] /\ lines'[v] = lines[v],
         pc'[w] = "lock" => ~Flushes(w)
  PROVE  Rendered'
<1>1. \A v \in Writers : Flushes(v)' <=> Flushes(v)
  BY DEF Flushes
<1> QED BY <1>1 DEF Rendered, Flushes

\* Every step keeps it.
LEMMA RenderedStep == Rendered /\ [Next]_vars => Rendered'
<1> SUFFICES ASSUME Rendered, [Next]_vars PROVE Rendered'
  OBVIOUS
<1>t. DOMAIN pc = Writers /\ DOMAIN depth = Writers /\ DOMAIN lines = Writers
  BY DEF Rendered
<1>1. ASSUME NEW w \in Writers, Refuse(w) PROVE Rendered'
  BY <1>1, <1>t, RenderedKept DEF Refuse, Goto
<1>2. ASSUME NEW w \in Writers, Format(w) PROVE Rendered'
  BY <1>2, <1>t, RenderedKept DEF Format, Goto
<1>3. ASSUME NEW w \in Writers, Enter(w) PROVE Rendered'
  BY <1>3, <1>t, RenderedKept DEF Enter, Goto
<1>4. ASSUME NEW w \in Writers, Resolve(w) PROVE Rendered'
  <2>1. PICK id \in SpanIds(job[w].items) \ DOMAIN depth[w] :
          depth' = [depth EXCEPT ![w] = Resolved(job[w].items, @, id)]
    BY <1>4 DEF Resolve
  <2>2. job[w].items \in Seq(Item) /\ Noted(job[w].items, depth[w])
    BY StdoutAssumption DEF Rendered
  <2>3. Noted(job[w].items, Resolved(job[w].items, depth[w], id))
    BY <2>2, ResolvedNoted
  <2>4. /\ DOMAIN depth' = Writers
        /\ depth'[w] = Resolved(job[w].items, depth[w], id)
        /\ \A v \in Writers \ {w} : depth'[v] = depth[v]
    BY <1>t, <2>1
  <2>5. UNCHANGED <<job, pc, lines>> /\ pc[w] # "lock" /\ job[w].mode = "tree"
    BY <1>4 DEF Resolve
  <2> QED BY <2>3, <2>4, <2>5 DEF Rendered, Flushes
<1>5. ASSUME NEW w \in Writers, Render(w) PROVE Rendered'
  <2>1. /\ UNCHANGED <<job, depth>>
        /\ DOMAIN pc' = Writers /\ DOMAIN lines' = Writers
        /\ lines'[w] = Block(job[w].items, depth[w], job[w].footer)
        /\ \A v \in Writers \ {w} : pc'[v] = pc[v] /\ lines'[v] = lines[v]
    BY <1>5, <1>t DEF Render, Goto
  <2>2. job[w].mode = "tree" => DOMAIN depth[w] = SpanIds(job[w].items)
    BY <1>5 DEF Render, Rendered, Noted
  <2> QED BY <2>1, <2>2 DEF Rendered, Flushes
<1>6. ASSUME NEW w \in Writers, Lock(w) PROVE Rendered'
  BY <1>6, <1>t, RenderedKept DEF Lock, Goto
<1>7. ASSUME NEW w \in Writers, WriteLine(w) PROVE Rendered'
  BY <1>7, <1>t, RenderedKept DEF WriteLine
<1>8. ASSUME NEW w \in Writers, WriteFails(w) PROVE Rendered'
  BY <1>8, <1>t, RenderedKept DEF WriteFails, Unlock, Goto
<1>9. ASSUME NEW w \in Writers, Written(w) PROVE Rendered'
  BY <1>9, <1>t, RenderedKept DEF Written, Unlock, Goto
<1>10. ASSUME NEW w \in Writers, Leave(w) PROVE Rendered'
  BY <1>10, <1>t, RenderedKept DEF Leave, Goto
<1>11. CASE UNCHANGED vars
  BY <1>11 DEF vars, Rendered, Flushes
<1> QED
  BY <1>1, <1>2, <1>3, <1>4, <1>5, <1>6, <1>7, <1>8, <1>9, <1>10, <1>11
  DEF Next, Step, Quiet

\* Every block shows the items of its buffer once, sorted, each span as deep as it has
\* ancestors there, in whatever order the spans are walked.
THEOREM BlocksShow == Spec => []BlocksShowTheTree
<1>1. Rendered => BlocksShowTheTree
  <2> SUFFICES ASSUME Rendered
               PROVE  \A w \in Writers : Flushes(w) /\ pc[w] = "lock" =>
                        Shows(lines[w], job[w].items, job[w].mode, job[w].footer)
    BY DEF BlocksShowTheTree, Shows
  <2> SUFFICES ASSUME NEW w \in Writers, Flushes(w), pc[w] = "lock"
               PROVE  Shows(lines[w], job[w].items, job[w].mode, job[w].footer)
    OBVIOUS
  <2>1. job[w].items \in Seq(Item)
    BY StdoutAssumption DEF Rendered
  <2>2. /\ Noted(job[w].items, depth[w])
        /\ job[w].mode = "tree" => DOMAIN depth[w] = SpanIds(job[w].items)
        /\ job[w].mode # "tree" => DOMAIN depth[w] = {}
        /\ lines[w] = Block(job[w].items, depth[w], job[w].footer)
    BY DEF Rendered
  <2> QED BY <2>1, <2>2, BlockShows
<1> QED BY RenderedInit, RenderedStep, <1>1, PTL DEF Spec

=============================================================================
