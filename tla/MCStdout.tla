------------------------------ MODULE MCStdout ------------------------------
(* Instances of Stdout for TLC. *)
EXTENDS Stdout, TLC

CONSTANTS w1, w2, w3, sA, sB, a, b, c, x

\* A block and a request through one sink, a request through another.
MCWriters == {w1, w2, w3}
MCSinkOf == (w1 :> sA) @@ (w2 :> sA) @@ (w3 :> sB)

Span(at, id, parent) == [kind |-> "span", at |-> at, id |-> id, parent |-> parent]
Log(at) == [kind |-> "log", at |-> at, id |-> NoId, parent |-> NoId]

\* Three spans with any parents, in three orders of arrival and time; among them
\* one id twice; a log beside two spans.
Parents == {NoId, a, b, c, x}
Buffers ==
  UNION {{<<Span(1, a, p), Span(1, b, q), Span(2, c, r)>>,
          <<Span(2, a, p), Span(1, b, q), Span(1, a, r)>>,
          <<Span(2, NoId, p), Log(1), Span(1, c, r)>>} : p, q, r \in Parents}

Tree(items) == [items |-> items, mode |-> "tree", footer |-> "footer"]
Grouped(items) == [items |-> items, mode |-> "grouped", footer |-> "warning"]
Lines(items) == [items |-> items, mode |-> "lines", footer |-> "none"]

\* Every block, beside requests that print nothing; two of them beside requests that do.
MCJobs ==
  {(w1 :> Tree(buffer)) @@ (w2 :> Lines(<<>>)) @@ (w3 :> Lines(<<>>)) : buffer \in Buffers}
    \cup {(w1 :> block) @@ (w2 :> Lines(<<Log(1), Log(1)>>)) @@ (w3 :> Lines(<<Log(1)>>)) :
            block \in {Tree(<<Span(1, a, b), Span(1, b, a)>>),
                       Grouped(<<Span(2, a, b), Span(1, b, NoId)>>)}}

=============================================================================
