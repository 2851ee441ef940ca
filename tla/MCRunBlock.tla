---------------------------- MODULE MCRunBlock ----------------------------
(***************************************************************************)
(* Instances of RunBlock for TLC: small sets of calls, runs and traces,    *)
(* and the export requests the calls choose from.                          *)
(***************************************************************************)
EXTENDS RunBlock, TLC

CONSTANTS c1, c2, c3, r1, r2, t1, o1

TwoCalls == {c1, c2}
ThreeCalls == {c1, c2, c3}

Plain == [own |-> NoRun, scope |-> NoRun, resource |-> NoRun,
          trace |-> NoTrace, root |-> FALSE, outcome |-> NoOutcome]

Span(r, t)    == [Plain EXCEPT !.own = r, !.trace = t]
Child(t)      == Span(NoRun, t)
RootEnd(r, t) == [Span(r, t) EXCEPT !.root = TRUE, !.outcome = o1]

TracesRequest(items)  == [signal |-> "traces", items |-> items]
LogsRequest(items)    == [signal |-> "logs", items |-> items]
MetricsRequest(items) == [signal |-> "metrics", items |-> items]

ChildAlone    == TracesRequest(<<Child(t1)>>)
SpanThenChild == TracesRequest(<<Span(r1, t1), Child(t1)>>)
EndAlone      == TracesRequest(<<RootEnd(r1, t1)>>)
\* The root may carry its outcome and find its run by its trace.
EndByTrace    == TracesRequest(<<RootEnd(NoRun, t1)>>)
EndThenChild  == TracesRequest(<<RootEnd(r1, t1), Child(t1)>>)
\* Trace t1 changes hands inside one request.
TwoRunsOneTrace == TracesRequest(<<Span(r1, t1), Span(r2, t1), Child(t1)>>)

\* A record of no run among records whose run is on the scope and on the
\* resource.
MixedLogs == LogsRequest(<<[Plain EXCEPT !.scope = r1, !.resource = r2], Plain>>)
\* Two data points of one resource, one with a run of its own.
TwoRunMetrics == MetricsRequest(<<[Plain EXCEPT !.resource = r1],
                                  [Plain EXCEPT !.own = r2, !.resource = r1]>>)
\* A scope's run.id means nothing to a data point.
ScopedMetric == MetricsRequest(<<[Plain EXCEPT !.scope = r1]>>)
\* With a cap of one or two: an overflow, then an item of another run.
Log(r) == [Plain EXCEPT !.own = r]
Flood == LogsRequest(<<Log(r1), Log(r1), Log(r2)>>)
LongFlood == LogsRequest(<<Log(r1), Log(r1), Log(r1), Log(r2)>>)
OneLog == LogsRequest(<<Log(r1)>>)
OtherLog == LogsRequest(<<Log(r2)>>)

AllRequests == {ChildAlone, SpanThenChild, EndAlone, EndByTrace, EndThenChild,
                TwoRunsOneTrace, MixedLogs, TwoRunMetrics, ScopedMetric, Flood}
ThreeRequests == {MixedLogs, EndAlone, ChildAlone}
LiveRequests == {SpanThenChild, EndThenChild, OneLog}
LeakRequests == {SpanThenChild}
SiblingRequests == {SpanThenChild, EndAlone}
StaleRequests == {LongFlood, OtherLog}

CallSymmetry == Permutations(Calls)
=============================================================================
