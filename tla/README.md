# Verification of steeplechase

steeplechase receives OTLP metrics, logs and traces over gRPC and HTTP and hands
every export request to one or more sinks: stdout, another OTLP endpoint, an MQTT
broker. This directory holds TLA+ models of it, the configurations under which TLC
checks them, and theorems with proofs for TLAPS. `PROJECT.json` maps every
definition to the lines of Go it stands for, and lists the runs, the mutants that
show that each property can fail, the hazards, the findings and the theorems.

## 1. Inventory

| Part | State | Operations | Modules | What makes it correct |
|---|---|---|---|---|
| `RunBlockSink` (`internal/sink/runblock.go`) | open buffers, `traceToRun`, `truncated`, one mutex, a sweeper goroutine | `Consume*`, the sweep, `flushLocked`, `Shutdown` | `RunBlock`, `RunLog` | every item is printed once or its loss has a cause; the cap; a block is of one run; footers tell the truth; ended and idle runs are printed; Shutdown leaves nothing |
| `retryConfig.Do` (`retry.go`) | attempts, interval, elapsed time | one call | `Retry`, `Attempts` | budget, an end soon after that of the context, the count of retries, the backoff |
| `FanoutSink` (`fanout.go`) | none across calls | `Consume*`, `Shutdown` | `Delivery`, `AtLeastOnce` | an error only when every child failed; every child is waited for |
| `MeteredSink` and `Recorder` (`metered.go`, `metrics/metrics.go`) | Prometheus counters and gauges | `SinkStart`, finish, `ObserveReceive` | `Delivery` | the gauge returns to zero; retries add up |
| `OTLPForwardSink`, gRPC and HTTP transports | one retry count per signal | `Consume*`, `Send*`, `Close` | `Delivery`, `Transport`, `Retry` | what is retried is retryable; success is success |
| `StdoutSink` (`stdout.go`) | a mutex around the writer | `Consume*`, `writeRunBlockLines` | `Stdout`; one step in `RunBlock` and `Delivery` | the lines of one write stay together, and success means all of them |
| `MQTTSink` (`mqtt.go`) | the paho client, a mutex around connecting | `Consume*`, `Publish`, `Close` | `MqttTransport`; a retrying leaf of `Delivery` | one connect at a time, no false success, every call returns |
| Receivers (`internal/receiver`) | servers | `Export`, `handle*`, start, stop | `Delivery`, `Lifecycle` | the exporter is told what happened |
| Admin server (`internal/admin`) | the ready flag | `MarkReady`, `MarkNotReady`, probes | `Lifecycle` | ready means serving |
| Process (`cmd/steeplechase`) | the order of building, starting and stopping | `main`, `buildPipeline` | `Pipeline`, `Lifecycle` | nothing is leaked when a sink cannot be built; work is drained and printed before exit, and the process exits |
| Sink DSN (`dsn.go`) and the constructors | none | `ParseDSN` | `Dsn`, `Pipeline` | a sink is configured as given and documented, and a typo is an error |
| Rendering of a block (`internal/format/runblock.go`) | none | `RenderRunBlock`, `computeSpanDepths` | `BlockLayout`, `Stdout` | order, and depth whatever the order of the walk |
| Wording of lines, OTLP JSON, body decompression | none | pure functions | – | see section 7 |

How the parts interact. A receiver's handler calls `Consume*` of the root sink, once
per request and from a goroutine per request. The root is a `MeteredSink` or a
`FanoutSink` over several; each `MeteredSink` holds one leaf. `FanoutSink` calls its
children in goroutines and waits for all. Forwarding leaves call `Do`, which calls
the transport. A `RunBlockSink` keeps items under its mutex and prints through the
`StdoutSink` it wraps, with its mutex held for blocks and without it for items that
are streamed one by one; its sweeper does the same in the background. `MeteredSink`
reads the number of retries back from a cell that the leaf stored it in. `main`
builds the sinks from their DSNs, starts three listeners, and on a signal or an error stops the receivers, then the
admin listener, then the sinks.

What is hard: every sink is called concurrently; `ConsumeTraces` takes the mutex of
`RunBlockSink` twice and gives it up in the middle of its loop; the clock is read
before the lock is taken; contexts end at any instant; a write or a send may fail
after it had its effect; the answer may come after the caller left; shutdown meets
calls that are still in flight. The list `hazards` of `PROJECT.json` has each of
these at its line.

## 2. The modules

* **`RunBlock`** is the core. One action per critical section or step of
  `Consume*`: `Begin`, `Refuse` (the context had ended), `MapTraces` (the first pass
  of `ConsumeTraces`, under the lock), `Bucket` (one item goes to the pendings or
  to the bypass request; a look-up of a trace takes the lock), `Bucketed`, `Bypass`
  and `BypassCancelled`, then the loop under the lock: `Lock`, `Keep` (the item is
  buffered), `Finish` (the item ends its run, whose block is printed), `Overflow` (the
  block is printed for the cap) and `Divert` (the run was truncated before), both
  followed by `Stream` with the lock given up and by `Relock`; at last `Return`. The
  sweeper is
  `SweepTick`, `SweepLock`, `SweepFlush`, `SweepUnlock`, `SweepExit`; `Shutdown` is
  `StopBegin`, `StopLock`, `StopFlush`, `StopEnd`. `pc` and `k` are a call's place
  in the code and in its loop, `snap` the `now` it read, `out` what stdout received,
  one entry per write. An item is a record of what the code reads of a data point,
  log record or span: `run.id` on the item, its scope and its resource, its trace,
  whether it is the root span of a run, and its outcome. Texts are left out.
  `lost` records what was dropped and is read by properties only.
* **`MCRunBlock`** gives it calls, runs and requests.
* **`RunLog`** is what `RunBlock` promises the reader of stdout, without calls, locks or
  time: items are offered; one is held for a run (`Hold`); what is held is printed as a
  block (`Flush`), with the item that ends the run (`End`), or with the warning that closes
  the run (`Truncate`); a later item is printed by itself (`Stream`) or dropped (`Drop`);
  items of no run pass (`Pass`). `RunBlock` implements it (`KeepsLog`): what was dealt with
  is read off `out`, `lost` and the buffers.
* **`RunBlockProofs`** and **`RunBlockItems`** hold its theorems: types, the cap and
  truncation, and where the items go.
* **`Attempts`** says what a caller of `Do` may rely on, without time. **`Retry`** is
  `Do` with time in ticks: `GiveUp` and `Check` (the context at the top of the loop),
  `Send` (the call of `op`, a step of its own, before which the context may end),
  `Answer`, `Return` and `GoOn` (the error, and the first reading of the clock),
  `ReturnLate` and `Sleep` (the second, at most `Lag` ticks later), `Interrupt`, `Wake`,
  and the environment's `End` and `Tick`. What an attempt comes to is an outcome of **`Transport`**: which
  gRPC code and which HTTP status is success, permanent, of a context, or retryable.
  `Retry` implements `Attempts` (`KeepsPromise`). **`RetryProofs`** holds its theorems.
* **`AtLeastOnce`** says what an exporter may rely on. **`Delivery`** is the way of a
  request from the exporter through receiver, fanout, meter and leaf, and the answer
  back; it implements `AtLeastOnce` (`AtLeastOneSink`). Its leaves make at most
  `MaxSends` sends by the rules of `Attempts`; time is left out, so a leaf may give
  up after any send. What a leaf's success is worth differs: `Unsure` leaves may report
  it with nothing taken, as an MQTT sink does for a publish whose wait ended at the
  deadline (`mqtt.go:108-111`) and for any of QoS 0, and a `RunBlockSink` whose write
  of a block failed (`runblock.go:639`) or which dropped an item (`runblock.go:653`).
  `AtLeastOnce` therefore tells what a sink `claimed` from what it has `taken`.
  `Endless` leaves may never return while they are waited for: `retry_max_elapsed=0`
  is no budget (`retry.go:111`), and over gRPC `timeout=0` is no deadline.
  **`MCDelivery`** instantiates it; **`DeliveryProofs`** holds its theorems.
* **`MqttTransport`** is `MQTTSink` over one paho client: for each call the loop of `Do`
  without time (`Attempt`, `Sleep`, `Wake`, `GiveUp`, `Return`), `ensureConnected`
  (`CheckOpen`, `Lock`, `Recheck`, `Dial`), `Publish`, and the loop of
  `waitMQTTToken`, whose checks are actions of their own (`SeeContext`, `TimeOut`,
  `SeeDeadline`, `Look`, `Poll`). A context with a deadline is `due` from the instant
  the clock passes the deadline until its timer has run and `Err()` is not nil. The
  client and the broker are external; the module's head says what is assumed of
  them. **`MqttProofs`** holds its theorems.
* **`BlockLayout`** is `RenderRunBlock` without words: the order of the items, and
  `computeSpanDepths` as the effect of one call of `resolve` (`Resolved`). **`Stdout`** is
  what happens under the two mutexes: `Enter`, `Resolve` (one step per span of the
  `range` over a map, in any order), `Render` for a block, `Refuse` and `Format` for a
  request in line mode, and for both `Lock`, `WriteLine`, `WriteFails`, `Written`,
  `Leave`. `file` is what the operating system received, line by line.
  **`MCStdout`** gives it buffers; **`StdoutProofs`** holds its theorems.
* **`Dsn`** is `dsn.go` and the checks of the constructors as operators on a DSN that
  is split into its parts: from scheme, host, path and query to the configuration of
  a sink, or to a failure. **`Pipeline`** is `main` before it listens: `ParseFlags`,
  `DefaultSink`, `AddSink`, `GiveUp` (teardown and `log.Fatalf`), `Compose`. It also
  states the table of the README (`DocumentedKeys`, `DocumentedDefault`), the keys for
  which the code departs from it (`Departs`) and what it does there (`Instead`).
* **`Lifecycle`** continues it: `MarkReady`, `Notify`, `Wake` (the select),
  `MarkNotReady`, `StopListening`, `GrpcStopped` and `HttpStopped` (the two
  goroutines), `CloseAdmin`, `Release`, `Return` (the deferred calls), with
  listeners that bind or fail, requests that arrive, and signals. Of the pipeline it
  keeps the kinds of its leaves and which of them hold something: where one prints
  blocks, what a handler delivered is held until the first `Shutdown`.
  **`MCLifecycle`** gives it flags and DSNs; **`LifecycleProofs`** holds its theorems.

Definitions marked `Variant:` in a comment are not part of the program. Each is what
a definition would be with a plausible bug; `PROJECT.json` says which property
finds it.

## 3. The runs

All bounds are CONSTANTs of the configurations. Properties are defined, with what
they mean, at the end of each module.

| Run | States | Question, bounds |
|---|---|---|
| `RB_pairs` | 1.35M | Two calls that choose among ten kinds of request, a cap of 1, one call that may be cancelled, the sweeper, Shutdown at any time. `ExactlyOnce`, `CapRespected`, `TruncatedStayClosed`, `StreamedOnlyAfterTruncation`, `BlocksArePure`, `FooterTellsTheTruth`, `EndedRunsAreFlushed`, `TraceEntriesAreBacked`. |
| `RB_three` | 1.13M | Three calls on one run, some with items of no run that are written before, a cap of 1, a writer that may fail part of the way in any write. `KeepsLog`. |
| `RB_live` | 24k | Clock, sweeper and Shutdown, a cap of 2. `IdleMeansIdle`, `IdleRunsAreFlushed`, `CallsReturn`, `ShutdownCompletes`, `ShutdownFlushesAll`, `AcceptedIsPrinted`. |
| `RT_backoff` | 81k | One call of `Do` over gRPC and over HTTP; every status, any jitter, up to two ticks between the two readings of the clock, a context that may end at any instant. `WithinBudget`, `StopsSoonAfterEnd`, `RetriesToTheEnd`, `ClosedFormBackoff`, `Returns`, `KeepsPromise`. |
| `DL_fanout` | 436k | Two calls, a payload that can be decoded and one that cannot, a stdout leaf and a forwarding leaf that is unsure, an impatient exporter and late answers, one send per leaf and call. `OneCopyEach`, `MetersAddUp`, `AtLeastOneSink`. |
| `DL_answers` | 72k | One call at a time, a payload that can be decoded and one that cannot, a stdout leaf, a forwarding leaf and an endless one, two sends each, an exporter that may lose patience. `CallsAreAnswered`. |
| `MQ_publish` | 194k | Two calls, one of whose contexts has a deadline, two attempts each; a broker that refuses, breaks off, falls silent; contexts that end at any instant; Close. `OneConnectAtATime`, `SuccessWasTaken`, `CallsReturn`. |
| `ST_blocks` | 334k | A block and a request through one sink, a request through another on the same file; every assignment of parents to three spans, in three buffers, with orphans, cycles, an id twice and a log in between; writes that fail. `WholeWrites`, `BlocksShowTheTree`. |
| `LC_stop` | 284k | 353 lists of DSNs (every key of every sink with every kind of value, TLS with a CA bundle, every shape of address, sinks that fail after others were built) under eight triples of flags; then one gRPC and two HTTP calls, one of which hangs, failing listeners, signals. `BuiltAsExpected`, `NothingLeaks`, `DrainedWorkIsShown`, `ProbesDuringDrain`, `StopsWhenAsked`. |

Each also checks the module's `TypeOK` where it is listed in the configuration. The
three other runs are those of section 5.

Why the bounds are enough to be interesting. Two calls already meet in every
pair of critical sections, three let a call find a run overflowed and diverted by
two others. A cap of 1 makes every second item overflow. Two runs and one
trace let the trace change hands. In `RB_live` the clock runs past the timeout, so
that the sweeper finds runs that are idle, not idle, and refreshed meanwhile; no
request of it has an item of another run after one that is streamed, which is the
case of `RB_stale_now`. In
`Retry` the budget is several intervals long, so that the interval reaches its cap
and the last sleep is cut, and `Lag` is long enough for the budget to run out between the
two readings of the clock. Two calls of one signal are what is needed to mix up a
retry count, and two for one payload to deliver it twice; the retries within a call are
bounded by one send in `DL_fanout` and two in `DL_answers` and `DL_retries`. Two calls of one
MQTT client meet in `ensureConnected` from every side, and a second attempt finds the connection as the first left it. Three spans make every
shape that matters to `resolve`: a chain, siblings, an orphan, a cycle with and without
a tail. The lists of DSNs combine keys only where the code does (`tls` and `ca`); the
other keys are read independently. Calls are interchangeable
where a run uses symmetry, which no run with a liveness property does.

## 4. Fairness

* `RunBlock`: a goroutine that can run does. `Lock` and the other steps that
  take the mutex are strongly fair, because `sync.Mutex` hands the lock to a waiter
  that has waited for a millisecond; the sweeper's exit is strongly fair because
  `select` chooses at random among ready cases. Nobody has to make a call, and
  nobody has to shut the sink down: `AcceptedIsPrinted` and `ShutdownCompletes` begin
  when somebody does.
* `Retry`: `Do` goes on, the clock ticks, and an attempt answers by its timeout,
  which HTTP sets on every call and gRPC unless the DSN says `timeout=0`. `Returns` is about
  calls with a budget. A sleep is over as soon as the context is.
* `MqttTransport`: a goroutine that can run does; `Lock` is strongly fair as above, and
  so is `TimeOut`, because `waitMQTTToken` looks at the clock each time around and the
  clock goes on. The broker need never answer, and no context has to end.
* `Delivery`: the goroutines of receiver and leaves go on. An `Endless` leaf begins and ends
  its call, but nothing makes it end its sends unless the context of the call does, which
  `Do` and its transports heed; `CallsAreAnswered` then lets the call wait as long as the
  exporter does, but no other leaf. Any other leaf answers in the end: a forwarding one by its
  budget and timeout, stdout as long as a write returns (one that blocks for ever, on a
  full pipe, is not modelled). Nobody has to export, or to lose patience.
* `Lifecycle`: `main`, its goroutines and its timer go on, and so does every handler
  that is not in `Hung`. `StopsWhenAsked` holds with a hung HTTP handler, because
  `Shutdown` of the HTTP server has a deadline; it would not with a hung gRPC
  handler, because `GracefulStop` has none: `LC_stop` therefore hangs an HTTP call
  only. No listener has to bind, and no signal has to come.

## 5. Where the code and its documentation disagree

Three are defects, each shown by a run whose only property states the documented
behaviour.

| Run | What happens |
|---|---|
| `RB_stale_now` | The time read before an item is streamed is used for a buffer afterwards: the sweeper prints a run that is not idle. |
| `DL_retries` | Two concurrent calls through one forwarder: one retry count is added twice, the other never. |
| `MQ_unconfirmed` | The poll of `waitMQTTToken` ends exactly at the deadline of the context; the next check finds the deadline passed by the clock and returns `ctx.Err()`, which is still nil: a publish nobody acknowledged counts as success. |

Four more are stated at the end of their modules as invariants; a configuration that
adds the name to its INVARIANTS shows the counterexample.

* `TraceEntriesHaveOpenRuns` (`RB_pairs.cfg`): `traceToRun` keeps entries for runs with no open
  buffer, which its comment rules out (`runblock.go:107`), after a truncation or a
  failed bypass.
* `SiblingsAreBucketed` (`RB_pairs.cfg`): a flush between the two passes of `ConsumeTraces` sends
  a child span to the bypass although its request names the run (`runblock.go:450`).
* `ReadyIsServing` (`LC_stop.cfg`): the probe says ready while a receiver has not bound, or
  could not (`main.go:96`, against `admin.go:64`).
* `BuiltAsDocumented` (`LC_stop.cfg`): the table of `README.md:99-114` by itself, without
  the departures that `BuiltAsExpected` lists: the names of MQTT sinks, `tls` and `ca`
  against the scheme, and timeouts of zero, as described below.

Others were met while reading and modelling. The models behave this way, too, and the
properties that are checked allow for it:

* The depth of a span on a chain that leads to a cycle may be up to twice the number of
  spans, and depends on the order of a map (`format/runblock.go:220-246`); the comment
  speaks of a cap at the number of spans. Spans are told apart by their id alone,
  not by trace. `IsDepth` promises for them no more than that bound.
* `WholeWrites` is about the lines of one sink. With `--sink stdout` given twice each sink
  has a mutex of its own, and lines of two writes interleave on stdout, although
  `stdout.go:69-71` speaks of "the same writer". Both sinks also have the same name
  in the metrics, which `sink.go:21` wants unique.
* `timeout=0` (or less) means ten seconds to HTTP and MQTT and no deadline at all to gRPC
  (`otlp_forward_http.go:62`, `mqtt.go:44`, `otlp_forward_grpc.go:140`), where an attempt then
  ends with the export call only. `tls=false` on `otlp+https` is overruled (`dsn.go:178`);
  `tls` and `ca` on `otlp+http`, and `ca` without `tls` over gRPC, are ignored; so are a path
  over gRPC, a fragment of any OTLP DSN and the pairs of a query that `net/url` cannot
  split. The README says of typos that they "become hard errors".
* `name` defaults to `host:port` for every sink by the README (`README.md:101`) and the
  comment of `ParseDSN` (`dsn.go:22`); an MQTT sink without a name is called
  `host:port/topic` (`dsn.go:251-254`), in logs and in every metric.
* An MQTT call whose time or context is over leaves the `Connect` it began under way and
  gives the mutex back (`mqtt.go:82-89,98-105`): the next call gets an error from
  `client.Connect` and fails its attempt, though the broker may be about to answer.
  `OneConnectAtATime` says that nothing but this makes one call meet the `Connect` of
  another.
* An item that follows the root span of its run in the same request opens a new
  buffer (`runblock.go:529-532`, against the comment at 431-435).
* A call that reaches `RunBlockSink` while it shuts down leaves a buffer nobody prints
  (`runblock.go:219-234`); this is why `ShutdownFlushes` assumes `DrainFirst`. `main`
  can bring it about: when the HTTP server's ten seconds are over it shuts the sinks
  down under handlers that still run (`main.go:127-140`), although callers should not
  use a sink after Shutdown (`sink.go:28-29`); hence the exception for HTTP in
  `DrainedWorkIsShown`.
* An orderly exit calls Shutdown of the root sink twice (`main.go:72,138`; `sink.go:28`
  says exactly once). It is harmless for the sinks there are.
* A sink may return nil with nothing taken (`Unsure` in section 2), and the receiver
  answers that the request was accepted. `AtLeastOneSink` promises no more of such a sink
  than that it said so.
* A context that ends between the check at the top of the loop and the call of `op`
  (`retry.go:92,99`): one attempt begins with a dead context. `StopsSoonAfterEnd` allows one.
* A context that ends when a backoff does: `Do` reports one retry more than it sent
  (`retry.go:92-97,135`), which `Attempts` allows for.
* Jitter is applied after the cap, so that a backoff may exceed `Max` (`retry.go:115`),
  the second part of `ClosedFormBackoff`.
* A slow leaf delays the answer past the server's `WriteTimeout` (`fanout.go:78`,
  `http.go:40`) and the exporter sends again what another leaf took; hence `Heard` in
  `OneCopyEach`.
* A panic under the HTTP receiver leaves the inflight gauge raised: the call of finish
  is not deferred (`metered.go:43-47`, against 17-18). Panics are not modelled.
* A body that cannot be decoded is counted as accepted (`http.go:75`).
* `truncated` is never cleaned: it keeps an entry for every run that overflowed
  (`runblock.go:590`), which no comment rules out.

## 6. What is proved

Every theorem holds for all values of the constants that satisfy the `ASSUME`s of
its module: sentinels are not members of the sets they stand beside, requests are
well-typed, caps and timeouts are positive (constructors replace others). The run
named is the one that checks the same property on an instance.

* `RunBlockProofs!TypeCorrect` (`RB_pairs`). `TypeOK` is inductive only with what the
  loop variables mean: `OwnItems` (pendings are items of the call's own request) and
  `InBounds` (a call that left the loop to stream an item has not run off its
  pendings). One lemma per group of actions, combined in `TypeStep`.
* `RunBlockProofs!CapKept` and `TruncationIsFinal` (`RB_pairs`).
  `StepKinds` reduces every action to what it does to buffers and output: nothing, an
  append, a flush, or a write outside any block. `Bounded` is kept by each: buffers
  are at most at the cap, blocks were buffers, an overflow block is at the cap, a
  truncated run is not open, and its overflow block is its last. The latter needs
  that a flush prints open runs only and that `Keep` re-checks `truncated` under the
  lock; that check is what the theorem rests on.
* `RunBlockProofs!ShutdownFlushes` (`RB_live`), assuming `DrainFirst`. `Drained`: once
  Shutdown has begun no call is in flight, and once it flushes the sweeper is gone,
  so no buffer opens.
* Three properties fail (section 5), and for each a theorem says under which condition
  on the behaviour they hold, so that nothing else breaks them.
  `RunBlockProofs!IdleUnlessStale`: `IdleMeansIdle`, if a call that comes back from streaming
  has items of truncated runs left only (`OnlyTruncatedLeft`; true of every state of
  `RB_live`, broken in `RB_stale_now`). `Timely`: who appends then has the latest `now`, so
  that lastActivity is the latest arrival and never ahead of the clock.
  `DeliveryProofs!RetriesOfCallsApart`: `RetriesAddUp`, if no two calls are inside a sink
  that retries at once and no exporter gives up (`Apart`), for finitely many calls; the
  counter is the sum (`FoldFunction`) over those that left, and `TotalGrows` adds one.
  `MqttProofs!ConfirmedUnlessDue`: `SuccessIsConfirmed`, if no context is past its deadline
  before its timer has ended it (`TimersInTime`).
* `RunBlockItems` (`RB_pairs`). The printed properties speak of `out` only; what makes
  them inductive is where the items were before. `Owned`: every item in sight is of a call
  that was made. `Sorted`: a call puts each of its items in one place, the pendings or the
  bypass request. `Related`: a pending or buffered item belongs to the run it waits for,
  because it names it or because `traceToRun` said so, whose entries are all of spans that
  were seen. `Unended`: a buffer never holds the end of its run, as the append that brings it
  flushes under the same lock. `Warned`: a run is in `truncated` only after its warning,
  and a call streams only for such runs. `Accounted`: an item waits, is dropped, is
  buffered or is printed, never two of these, and at one index of one buffer or write.
  From them `BlocksPure`, `FootersTrue`, `EndedFlushed`, `StreamedAfterWarning`,
  `TracesBacked` and `ItemsExactlyOnce`, for any number of calls, runs, traces and items,
  and whatever fails. The counting of `ExactlyOnce` (a cardinality over writes and
  buffers) is reduced to `PrintedOnce` and `BufferedOnce` at the end (`PlacesCount`).
  `LogKept` (`RB_three`): `RunBlock` implements `RunLog`. `Moves` sorts the steps into those
  that touch no item, which may `Offer` some, `Bypass`, `Stream`, `Keep`, and flushes; each
  has a lemma that names its step of `RunLog`. That an item a call still waits for is
  neither lost, printed nor buffered (`Accounted`) makes it fresh; that an open run is
  never empty (`Filled`) is needed for the blocks of the sweeper and of Shutdown.
  `ShutdownPrintsAll` (`RB_live`), assuming `DrainFirst`: `AcceptedIsPrinted` follows from
  `ShutdownCompletes`. Of the places in `Accounted` a call that took an item is not waiting
  and, with no run open, no buffer holds any (`Emptied`), so the item is printed or lost.
* `RetryProofs` (`RT_backoff`). The invariant is `TypeOK`, `OnTime` (where the clock may
  be at each place of the loop), `EndedInTime` (how far it may be from where it was when the
  context ended, and at which places one attempt may have been begun since), `Counted` (how
  sends, answers and retries go together) and that a retryable failure was given up at the
  end of the budget only. From it `BudgetKept`, `EndStopsSoon`, `BudgetUsed`;
  and `PromiseKept`: `Do` implements `Attempts`, every step of it being a send, an
  answer, a report or a stutter of the promise. `BackoffIsExponential` is that the
  multiplication repeated by the loop, capped in each turn, is the power capped once: the
  step is `CapOnce`, and the bound of the total (`SleepsBound`) follows by induction.
* `LifecycleProofs` (`LC_stop`). `InOrder` is what `main` has done by each place,
  `Emptied` that no handler runs under a receiver that stopped in time or never
  listened, `Printed` that the first Shutdown printed the rest, `Leafless` that nothing is
  held before the first sink is built and after the last Shutdown. From them
  `WorkIsShown`, `ProbesKept` and `NothingIsLeft`, for any flags and DSNs, any number of
  calls and whichever hang. `BuiltRight` holds for every DSN: each parser gives a sink, key by
  key, the setting of the DSN, the documented default, or the one departure `Departs` lists for
  the key, and `BuildInv` carries this from `AddSink` to `Compose`.
* `MqttProofs` (`MQ_publish`). The mutex (a call between `Lock` and the end of its wait is
  the holder), what the tokens mean (a pending one of a call that dials is that of the
  Connect under way; a complete one of a call that published was acknowledged), and what
  an error of nil means. From them `OneConnects` and `SuccessesWereTaken`, for any number of
  calls and attempts.
* `StdoutProofs` (`ST_blocks`). `WritesAreWhole`: who writes holds the mutex of its sink, and has
  printed exactly its lines up to `next`; lines of one writer are never before and after those of
  another of its sink, because the latter is finished or has not begun. Any number of
  writers, sinks, and lines. `BlocksShow`: what a finished block wrote shows its buffer.
  `OrderSorts`: the rank of an item (how many come before it) is one-to-one, so the sorted
  block has each item once, in order. The depths are noted span by span, in whatever order
  the walks come, so the invariant (`Noted`) is about the notes and not about the order: a
  noted depth is the number of ancestors where the chain of parents ends, and is bounded by
  what was noted before plus the number of spans where it returns to itself. A walk visits
  no span twice (`NoVisitTwice`) and there are finitely many, so it ends; it ends at a
  span without a parent, at one noted before or at one of its own (`TopFact`).
* `InductionFacts` serves `BackoffIsExponential`, `BlocksShow` and `RetriesOfCallsApart`:
  least and greatest members of bounded sets of naturals, induction over a set of them,
  that iterating a function and recursion over the naturals define what they say, and
  that the partial sums of `FoldFunction` exist and grow with one value. It is stated
  with sets and functions only, so that it can be cited without a parameter that is an
  operator.
* `DeliveryProofs` (`DL_fanout`). Calls need not be finite; that finitely many were made
  is part of the invariant, so that what the meters count has a size. `Progress`: the place of
  a call in the receiver goes with its place in each leaf and with what the leaf returned.
  `Trail`: a leaf that reports success has taken the payload unless it is `Unsure`, and none
  takes a malformed one. `Bounded`: an attempt begins within `MaxSends`.
  `Awaited`: the exporter waits for a call under way, of a payload it has not heard of.
  `Known`: one that hears every answer waits for every call under way, and a payload that
  was accepted is settled and has one accepted call. From these `OneCopy`. `MetersTrue` is
  inductive with `Progress`, and `Types` rests on it: `Finish` may lower the gauge because
  the call is counted in it. `SinkPromise`: a copy made by a leaf is `Take`, a
  success it reports is `Claim`, an answer that is heard is `Settle`, `Refuse` or nothing, and
  every other step is a stutter of `AtLeastOnce`. A sink that is not `Unsure` may claim only
  what it has, so acceptance means a copy where every leaf is sure.

Only model-checked, because it is out of the prover's reach: liveness
(`IdleRunsAreFlushed`, `CallsReturn`, `ShutdownCompletes`, `Returns`, `StopsWhenAsked`,
`CallsAreAnswered`). `AcceptedIsPrinted` is proved as far as it follows from
`ShutdownCompletes`, which fairness has to give.
`IdleMeansIdle` is no theorem without its condition: it holds with the bounds of `RB_live` and
fails with those of `RB_stale_now`.

## 7. What is not modelled

* Texts: the wording of lines, number formats, hexadecimal ids. A line is the item it
  shows and its depth; in `RunBlock` a block is the set of its items, its header's run and
  its footer.
* `otlp_json.go`, `decompress.go`, and the splitting of a DSN into its parts: conversions
  without state. A body that
  cannot be decoded is a malformed payload of `Delivery`.
* The Go runtime, net/http, grpc-go, paho and Prometheus are outside; the models say
  what they take them to do: a mutex, `GracefulStop` that waits for handlers,
  `Shutdown` that waits for its context. Panics are left out.
* TLS, headers, compression and connection management of the gRPC and HTTP transports
  beyond their configuration. A request that cannot be marshalled, and quality of
  service 0, in MQTT.
* `--version`; the histogram of durations and the build info.
* Durations: `Delivery` and `Lifecycle` let a deadline pass at any instant.

## 8. Plan

Done: the core (`RunBlock`) and what it promises, retries with their transports, delivery,
MQTT, stdout and the layout of blocks, the process from its flags to its exit. What is
left: `Shutdown` of `RunBlockSink` under `Lifecycle` action by action, in place of the one
step `Release`.
