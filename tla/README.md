# QuicForge in TLA+

A formal model of QuicForge, a QUIC latency lab: a benchmark engine that drives
load over concurrent connections, the transport it drives it over, and a GraphQL
API through which clients start runs, query them and follow them live. The
modules are translated from the Rust sources under `src/crates/`; TLC checks
them on small instances and TLAPS proves the main safety results for every value
of the constants.

Paths below are relative to `src/crates/`. `engine.rs` is
`quicforge-core/src/engine.rs`, `quic.rs` is `quicforge-infra/src/quic.rs`, and
so on.

## 1. The system

| Component | State it keeps | Operations | Talks to |
|---|---|---|---|
| Benchmark engine (`engine.rs`) | per run: the summary being built, the join handles, the merged histogram, the first failure, an `AtomicU64` shared by the run's tasks; per task: its connection and its histogram | `run`, `run_connection`, `get`, `recent` | connector, repository, event sink, clock (ports), metrics |
| Resilience (`quicforge-resilience/src/lib.rs`) | the attempt counter of a call, its timers | `with_timeout`, `retry`, `retry_if`, `delay_for` | the operation it is given |
| Event bus (`quicforge-infra/src/events.rs`) | a broadcast ring of 1024 events, a cursor per receiver | `publish`, `subscribe`, the stream | engine (writes), subscriptions (read) |
| Run repository (`repo.rs`) | a vector of summaries under a mutex | `save`, `update`, `get`, `list_recent` | engine (writes), queries (read) |
| GraphQL API (`quicforge-api`) | none of its own | `startBenchmark`, `run`, `runs`, `runProgress` | engine, bus |
| Parameters (`params.rs`) | none: validated values | constructors, `total_requests` | API, CLI, engine |
| Statistics (`histo.rs`, `stats.rs`) | a histogram per task | record, merge, summarise | engine |
| QUIC transport (`quic.rs`) | client endpoint and connections; server endpoint, accept loop, a task per connection and per stream | `connect`, `round_trip`, `close`; `start`, `shutdown` | quinn |
| Loopback simulator (`sim.rs`) | a delay | `connect`, `round_trip` | tokio's timer |
| Benchmark command (`bench.rs`) | the run it awaits | `run_bench`, `print_report` | connectors, engine |
| Server (`startup.rs`) | the listener, signal handlers, connections, a request counter | `run_server`, `shutdown_signal`, the routes | axum, the API over engine and bus |
| Node (`lib.rs`, `main.rs`, `config.rs`, `telemetry.rs`) | the command line | `run` | the two commands |

How a run goes: `startBenchmark` validates its input and awaits
`BenchEngine::run`. The engine stamps and saves a `Running` row, publishes
`Started`, spawns one task per connection and awaits the handles in index order.
A task connects (timeout inside retry), does its round-trips (each under a
timeout, each counted in its histogram and in the shared counter), publishes one
`Progress`, closes its connection and returns. When all have been joined the
engine updates the row to `Completed` or `Failed`, publishes the terminal event,
counts it and returns the summary. Any number of runs go on at once; clients
query the repository and read the bus at any time.

What is hard in it: the tasks of a run interleave with each other, with other
runs and with readers; a task may fail at any await or panic; the caller may
drop the future of `run`, which detaches the tasks; a write of the row may fail;
subscribers lag behind a finite ring that hides the loss; a timeout races the
answer it waits for; connections are lost, stall half way through a handshake
and are shut down under running tasks; signals come before their handlers are
installed or a second time, and the server drains requests while new ones still
arrive; percentiles are those of a histogram merged from many.

What makes each part correct:

- engine: no sample lost or counted twice; the outcome is that of the joined
  tasks and not of the schedule; the row comes before the event; nothing of the
  run goes on after its outcome; answers, counters and events agree; every run
  ends;
- resilience: attempts, waits and the whole call are within the policy; no
  timeout for an answer that was in time; the last error is the one returned;
- bus: order kept, nothing from before the subscription, only overruns lost, the
  latest event always reached;
- repository and API: newest first by start, one row per run, and whatever a
  client was told it can query;
- transport: a counted round-trip is a whole echo; the two length limits agree;
  nobody's stall blocks others; no task of the server outlives its connection;
- statistics and the command that prints them: the report is that of all the
  samples, to within the width of a bucket;
- server: it runs until a signal, ends after one, and cuts no request that its
  client waits for.

## 2. The modules

| Module | Models | Lines up with the code |
|---|---|---|
| `RunLifecycle` | the abstract promise about a run: recorded, announced, ended once, the end announced after it is recorded | no code of its own; what `engine.rs` implements |
| `BenchEngine` | `run` and `run_connection` | one action per stretch between two awaits, or between two effects others can see: `Save`, `AnnounceStart`, `Start`, `JoinNext`, `RecordOutcome`, `Announce`, `CountEnding` and the failing `SaveFails`, `RecordFails`, `DropRun` for a run; `Connect`, `RetryConnect`, `GiveUp`, `RoundTrip`, `CountRoundTrip`, `FailRoundTrip`, `TimeOut`, `LoadCompleted`, `ReportProgress`, `Panic` for a task |
| `BenchEngineInv`, `ReadModelsInv` | the inductive invariants of `BenchEngine`, in two layers (`IInv`, `FullInv`), and of `ReadModels` | - |
| `Resilience` | one `retry_if` over `with_timeout`, in ticks | the loop of `retry_if`; `PollReady`/`Expire` are the two outcomes of polling a timeout, `Wake` ends the sleep |
| `BroadcastEventSink` | the bus | `Publish`, `Subscribe`, `Deliver`, `SkipLost` (a filtered lag marker), `Unsubscribe` |
| `MemoryRunRepository` | the repository | an operator per method on the vector `rows` |
| `Api` | validation and the conversions of `mutation.rs`, `types.rs`, `params.rs` | an operator per conversion |
| `ReadModels` | composition: runs at the two ports, `MemoryRunRepository`, `BroadcastEventSink`, `Api` and a client | the engine by its steps at the ports, in the order of `run`; `Listen`, `Ask`, `RecentRuns` for the client |
| `QuicEcho` | client connections and the echo server of `quic.rs` | an action per await: `Dial` ... `Close` at the client, `Accept` ... `LeaveStream` at the server, `Shutdown`, `Lose` |
| `Histogram` | `histo.rs` and `stats.rs`; hdrhistogram's buckets | `Record` saturates, `StatsFromHistogram` takes the figures by rank |
| `Connectors` | `build_connector` and `sim.rs` | what may fail and how long a round-trip may take, per connector; a timer is late by up to `TimerLag` |
| `Bench` | `run_bench` | `Refuse`, `Prepare`, `PrintReport`, and between them `Drive`: the actions of an instance of `BenchEngine` for one run, each taken with what it does to the histograms (`TimedRoundTrip`, `JoinAndMerge`) and only if the chosen connector allows it |
| `Serve` | `run_server`, `shutdown_signal` and the routes | `Bind`, `StartupFails`, `InstallHandlers`, `ShutDown`, `Exit` for the process, `SignalCaught`, `SignalKills`, and `Accept` ... `Disconnect` for a connection |
| `Node` | `main` and `run` | composition: a command line that says `serve` or `bench` |
| `MCBenchEngine`, `MCReadModels`, `MCQuicEcho`, `MCNode` | the instances TLC checks | - |
| `BenchEngineProofs`, `BenchProgressProofs`, `ResilienceProofs`, `BroadcastEventSinkProofs`, `ReadModelsProofs`, `QuicEchoProofs`, `HistogramProofs`, `NodeProofs` | the proofs | - |

Operators with an underscore in their name (`AllJoined_FailFast`,
`Resume_AtTheEnd`, ...) are mistakes one could make in the code they stand next
to. No specification uses them: each is there to show that a property
notices when it takes the place of the right definition.

What is abstracted, and why it does not matter to the properties:

- Data. In `BenchEngine` a histogram is the number of its samples; `Bench` puts
  the histograms back and its type invariant says that they hold that many. A
  throughput is the count it is computed from, a payload its length, an error its
  kind. Where a client could
  confuse runs (`ReadModels`) the figures are those of their run.
- Effects are one step only if no property, no other task and no caller that
  leaves can tell them from two. `run` publishes an event at an await and counts it
  after that: two steps (`AnnounceStart` and `Start`, `Announce` and
  `CountEnding`), with a place between them where the future may be dropped. A
  round-trip is counted for the process and then for the run, two atomics and two
  steps; loading the shared count and publishing it are two as well. Counting a run
  and spawning its tasks, or publishing `Progress`, closing and returning, are one:
  nothing is awaited between them, publishing being synchronous (`events.rs:39-42`).
- `connect` and `round_trip` are nondeterministic in `BenchEngine`; `Resilience`
  adds time to the first, `QuicEcho` has their inside.
- tokio's broadcast channel, tokio's timer, quinn, hdrhistogram and axum are
  modelled by their contracts, from how this code uses them: an event sent to nobody is dropped, a
  lagging receiver goes on at the oldest event kept, a timeout polls its
  operation before its timer, a dropped stream is finished or stopped, a closed
  endpoint still yields the connections in its queue, a value is counted in a
  bucket that is wider the larger the value, a graceful shutdown closes idle
  connections, waits for the others and knows nothing of upgraded ones.
- In `Serve` a request is where it has got to; what its handler does is in
  `ReadModels` and `BenchEngine`, where a client that goes away is `DropRun`.

## 3. What TLC checks

Every run but the last five passes. `2 x 2` means two connections of two
round-trips.

| Run | Instance | Question, and what it shows |
|---|---|---|
| `engine_one_run` | one run 3 x 2, 3 connect attempts, panics, failing repository, a caller that leaves at any await, a connector that need not answer, fair | the outcome, the row and the events come out right in every interleaving: `FeedIsOneLifecycle`, `EventsFollowTheRow`, `CompletedRunIsExact`, `FailureIsTheFirstInOrder`, `NothingOutlivesItsOutcome`, `ProgressKeepsUp`, `ProgressIsHonest`, `TheEndIsFinal`; the inductive invariant `FullInv`, which contains `IInv`; `RunLifecycle` is implemented. `EveryTaskEnds`: a task ends by its timeouts alone, detached or not. `ImplementsLifecycleFully`: a run whose caller stays and whose repository works comes to its outcome, its announcement and its answer |
| `engine_two_runs` | two runs 2 x 2, 2 connect attempts, failing repository, callers that leave at any await | `MetricsMatchTheFeeds`: the counters of the process trail the events by just the runs between an event and its count, for good if their callers left there, and lead the runs' counts by just the tasks between the two. `AnswersMatchTheRecord`: `Ok` means recorded and announced, `Err` neither, under whatever ending |
| `retry_backoff` | `max_attempts` 0, 1 or 3, base 3, cap 4, limit 2, lag 1 ticks, jitter | result, timeouts, waits and duration are within the policy, which makes one attempt even for 0; the call returns even if the operation never answers |
| `bus_delivery` | 2 subscribers, 2 slots, 5 events | `InOrderSinceSubscribed`, `OnlyOverrunsAreLost`, and `EveryoneCatchesUp` for a subscriber that stays |
| `read_models` | 2 runs, a client, 3 slots, clock 1..2, lists of up to 2, 6 inputs | `RecentIsNewestFirst`, for lists of at most one and at most two, so that one of the runs may have to be left out; `SeenCanBeQueried`, `NoEndIsMissed`; the inductive invariant `IInv`; the lifecycle holds of what the adapters answer |
| `quic_echo` | a client of 2 and a possible staller of 1 round-trip, payload = limit | `OkMeansEchoed`, `OnlyALostConnectionFails`, `EveryEchoComesBack`, `TasksEndWithTheConnection`, `ShutdownStopsEverything` |
| `node` | `serve`: 2 clients of 2 requests, one of which may stall, signals and handlers that fail. `bench`: 2 x 2, 2 connect attempts, 12 command lines, three latencies | `EveryRequestIsAnswered`: a graceful exit cuts no request. `ReportIsOfAllSamples`: the figures printed are those of all the latencies together. `LoopbackIsAsSlowAsAsked`: what a simulated delay does to a run, unless it is so near the timeout that a late timer decides. `TheCommandEnds`: a benchmark ends, and so does a server that caught a signal |
| `doc_running_in_flight`, `doc_lost_established`, `doc_stats_present` | one run 2 x 2 | where documentation and code disagree: section 6 |
| `doc_serves_until_signal`, `doc_loopback_target` | that of `node` | the same |

Why the bounds are enough. Three connections make joining order, ending order
and failing order three different things, and let one task fail before, between
and after others; two round-trips separate "some" from "all"; the attempts are the
three of `EngineConfig`. Two concurrent runs show all that one can do to
another, as they share only counters, rows and the bus. In `retry_backoff` the
cap lies between the first and the second delay, and a lag of one tick makes
every race of a timer and an answer happen; the policies are the one whose number
of attempts is not the number asked for, the one without a retry, and one with
two. A ring of two slots is overrun after
three events, and one of three by the six of two runs, so that the end of a run may
be lost too. In `quic_echo` the payload is exactly the limit, which is where the
two constants could disagree. In `node` two signals and two clients are enough for
each order of a signal, a handler, a request and a departure; the histogram has
single buckets up to 1, then wider ones, and ends at 7, so that the latencies 1, 5
and 9 are exact, rounded and cut off; the simulated delays are none, well below, just
below, just above and well above the request timeout of 5, where a timer may be late by 1. The remaining bounds (`MaxPublish`, `MaxClock`, `MaxRequests`,
one query per client, one `Progress` per run in `ReadModels`) are named where
they are declared.

`read_models` and `engine_two_runs` use the symmetry of the run ids; neither
checks a liveness property.

Fairness, and why the code justifies it. In `BenchEngine` a run takes its next step
if it can, and so does a task as far as the step is its own (`OwnStep`): tokio polls
every task that was woken and fires every timer. Nothing is assumed of the
connector: it may answer none of the attempts and none of the round-trips, and then it is
`TimeOut`, the `with_timeout` around both (`engine.rs:201, 222`), that lets a task
end; without it around `connect` `EveryTaskEnds` is violated. That a call of `retry_if`,
its capped waits included, is bounded is what `retry_backoff` shows.
Nothing obliges a client to start a run or to stay, a port to fail or a task to
panic. In `Resilience` time passes and what can be polled is polled; the
operation need never answer. In `BroadcastEventSink` a subscriber that stays
reads. In `QuicEcho` the server's tasks and the clients that dial go on when they
can; a staller need not answer in its handshake, no timeout need fire, and a
round-trip fails for its connection only once that is gone.
`DropRun` has no fairness, and `ImplementsLifecycleFully` is about the runs that
are neither dropped nor let down by the repository. In `Bench` one step after the
other is taken as long as there is one. In `Serve` the process goes on when it
can, a handler returns (a benchmark always ends, see `engine_one_run`), and a
client that is no staller sends the whole of a request it began; nobody is
obliged to connect, to leave or to send a signal.

Deadlock is checked in the engine's runs, whose only stuttering end is `Done`:
every run over and no task left. The other specifications may come to rest (a
returned call, all events published, all runs over), and their configurations
say so.

## 4. What is proved

Each proof module extends the module it is about; the constants satisfy only the
assumptions named there (`EngineAssumption`: at least one connection and one
request, as `ConnectionCount` and `RequestCount` guarantee, a finite set of runs;
`ResilienceAssumption`, `SinkAssumption`: numbers in range; `EchoAssumption`: the
payload limit does not exceed the echo limit; `ReadModelsAssumption`: a finite set
of runs, at least one slot, lists of at least one, a clock that shows something;
`BenchAssumption`: numbers in range, and what the accepted command lines ask for;
`ConnectorsAssumption`: timers are late by at most some `TimerLag`;
`HistogramAssumption`: an even number of single buckets, 2048 in hdrhistogram).

`BenchEngineProofs`, for any number of runs, connections, requests and retries,
with or without panics, repository faults and dropped callers:

- `Invariance`: `Spec => []IInv`. `IInv` is the conjunction, for every run, of
  `ControlInv` (the place of the run's future against its row and its events),
  `WorkerInv` (a task's place against its result, connection and samples),
  `JoinInv` (what joining has gathered is what the handles up to `joined`
  yielded: the first failure, and a merged count of `Requests` per success),
  `FeedInv` (the shape of the events), `OutcomeInv` (a terminal row is still what
  the joined results say) and `CountInv` (the shared counter is the number of
  samples but those a task is about to count). The properties alone are not inductive: that the row of a failed run
  names the first failure, say, needs that `firstErr` did so at each join, and
  that results once pending never change after they are joined. `CountInv` counts
  pairs (task, number) instead of summing over tasks, so that one more sample is
  one more element.
- from it `TypeCorrect`, `NothingOutlives`, `FeedShape`, `EventsFollow`,
  `CompletedExact` (all samples of all tasks are `Connections * Requests` pairs),
  `FailureReasonCorrect` (which includes that the defensive branch at
  `engine.rs:126` is never taken), `AnswersMatch` (whose second half rests on `FeedInv`: an ending, of whatever kind,
  is in the feed only where the future of `run` has passed its update);
- `EndFinal`: the action property, from the invariant: once a row is terminal all
  tasks are finished, so nothing is left that could change anything;
- `Refinement`: `BenchEngine` implements `RunLifecycle`, each action being one of
  its steps or a stutter, with the row's status and the last news as mapping.

`BenchProgressProofs`, for the same constants, has the second layer, `FullInv`:

- `FullInvariance`: to `IInv` comes `ProgressInv`: a count that was loaded is at
  least the share of its own connection and at most what was done, and of the
  counts loaded or published fewer than k are below k shares. The last is what
  makes it inductive: a task that loads finds in the counter the whole shares of
  all those that loaded before it, since each had done its round-trips by then,
  so it is not below k shares unless fewer than k - 1 others had loaded. Neither
  the order of loading nor that of publishing is that of the counts;
- from it `HonestProgress` and `ProgressCatchesUp`;
- `MetricsMatch`: each counter of the process is the cardinality of a set (runs
  that spawned their tasks, runs that returned under an ending, round-trips counted
  for their runs and tasks that have yet to do so), and a step that increments it adds
  one element to its set. The sets are not those of the events: a run that has
  published and not counted, or was dropped there, is in the one and not in the
  other, and the theorem says that these are all that differ. That a counted ending
  is a published one, of the same kind, is `FeedInv`.

`ResilienceProofs`: `Invariance` of types, the loop (`LoopInv`) and the timers
(`TimeInv`: the attempt numbered n began within n times the longest attempt and
wait); `LastResult`, `GenuineTimeouts`, `BackoffInRange`, `BoundedCall`.

`BroadcastEventSinkProofs`: `Invariance`, whose core is that every event since a
subscription opened was seen, stands behind its cursor, or was overrun
(`AccountedFor`); `InOrder`, `OnlyOverruns`.

`ReadModelsProofs`, for any number of runs and clients, any size of the bus and of a
list, and a clock that may be set back:

- `Invariance`: the place of a run determines what its summary, its row and the
  events about it look like; the vector has one row for each run saved, equal to
  its summary; the end of a run a client asked about, when not yet over, was
  published after the client had subscribed. The bus takes its steps inside those of
  this module, so that its own invariant is taken over from
  `BroadcastEventSinkProofs` by instantiation (`BusInvariance`);
- `SeenAgrees`: what a client was delivered is an event of the log, hence of a run
  that was saved, whose row agrees with it;
- `EndReaches`: the end of such a run came after the subscription (`AskedInv`), so
  that by `AccountedFor` of the bus it was delivered, is to come or was overrun;
- `RecentNewestFirst`: `Rank` is a permutation of the positions (it orders them, so it
  is injective, and an injection of a finite set into itself is onto), hence the
  sorted vector has each row once and in order, and so has any prefix of it;
- `Refinement`: `RunLifecycle` is implemented by what the vector and the event log
  answer, the `CHOOSE`s in both having only one candidate.

`QuicEchoProofs`: `Invariance` of types and `EchoInv` (an echo is as long as its
request, which is `Size` from the time the client reads, and a stream is used
once); `OkIsEchoed`, `LimitsAgree`.

`HistogramProofs`, for any number of single buckets, any bound and any latencies:

- `FiguresAreExact`: given a set of round-trips with their latencies, the bag of the
  latencies and the histogram of their buckets, what `StatsFromHistogram` computes from
  the histogram is right about the bag: the number, each percentile (the end of the
  bucket of the latency at its rank), the maximum, and a mean between least and
  greatest. The histogram does not know the latencies; that a rank in it is the rank
  among them is because `Bucket` is monotone (`BucketGrows`), and that a figure is
  less than a bucket off because a latency is in its bucket (`BucketHolds`);
- `FiguresTyped`: the figures are numbers, whatever the histogram;
- what the lemmas unfold. `Width` is a recursive function and the sums are folds of the
  library, both a `CHOOSE` of a function that satisfies an equation: that there is one
  is proved (`WidthExists`, `SumExists`) and that it is unique where it is needed
  (`WidthsAgree`, `SumsAgree`). Induction is by a least counterexample, a number
  (`LeastNat`) or a finite set (`MinimalFinite`), from the well-foundedness of both
  orders; the theorem of the library that would do it in one step takes an operator;
- `IsTally(b, S, f)` says that the bag b counts the elements of S by f. Sums over b are
  then cardinalities of subsets of S (`TallySum`), recording adds an element
  (`TallyAdd`) and merging is a union of disjoint sets (`TallyMerge`).

`NodeProofs`, for any clients and signals, command lines, connections, requests,
retries, timeouts and latencies:

- `ServeInvariance`: every request that began is answered, abandoned or pending, which
  a graceful exit turns into answered or abandoned, since it waits until none is
  pending; `GracefulExit`, and `NodeExitsGracefully` for the node;
- `NodeDrivesEngine`: each step of a benchmark is one of `BenchEngine` (with the
  adapters of `build_engine`: no panic, no repository fault, no caller that leaves) or
  leaves its variables alone, so that all the theorems about the engine are true of
  the command, and are used next (`EngineFacts`);
- the invariant of the command, `BenchInv`, adds what the connector allows
  (`SimulatedInv`: over the simulator nothing but `io` can go wrong, and not that if the
  delay is `InTime`, below the timeout by more than the lateness of timers; if it is
  `TooLate`, above it by more than that, no round-trip succeeds) and what the histograms hold
  (`HistInv`): the round-trips are slots, pairs of a task and a number, and for *some*
  latencies of the slots the bag of measurements is a tally of the slots taken, each
  task's histogram one of its own slots, and the run's one of the slots of the tasks
  joined so far that succeeded. The latencies are not in any variable: a step that
  measures one changes the witness at the slot it takes, which no tally counted before;
- `ReportedRun` and `LoopbackOutcome`: a completed run has joined tasks that
  succeeded, whose histograms are not empty, so there are figures to print; a failed
  one has the reason of one of its tasks;
- `NodeTyped`: the types, and that the histograms hold as many values as the engine
  counts, from the number of slots behind each;
- `ReportedFigures`: a completed run has taken and joined all slots, so that
  `FiguresAreExact` applies to the run's histogram and the bag of all measurements.
  Its hypothesis is that `Connections * Requests` does not wrap (`params.rs:126`
  multiplies two `u64`): the number the report is compared with is the wrapped one.
  Over the simulator no latency is less than the delay, so no percentile is less than
  the delay cut off at the bound of the histogram.

TLC alone checks every liveness property, and the fair refinement
`ImplementsLifecycleFully`: the prover does not handle fairness.

## 5. What is not modelled

- The inside of socket, TLS and certificate set-up (`quic.rs:29-94, 154-186,
  224-287`): all that is modelled is that it may fail, in `Connectors` and
  `Bench`. Loss and stalls of a connection are in `QuicEcho`.
- What the routes for health, metrics and the GraphiQL page return, GraphQL
  parsing, execution and limits.
- Defaults, environment variables and help texts of the command line, logs, and
  the `quicforge_round_trip_seconds` histogram of the metrics.
- The clock is a nondeterministic reading; the division of a throughput by the
  time elapsed is left out.
- The time a runtime may stall. `Connectors` bounds by `TimerLag` how late a timer is
  set (tokio's go by milliseconds), fires or has its future polled, and so decides
  nothing about simulated delays within that of the timeout; no value of the bound is
  in the code, and a runtime that stalls for longer is outside the model. In `Resilience`
  the bound is `Lag`.
- `total_requests` wraps at 2^64 (`params.rs:126`). `Api` says so, but a run of
  that size does not end, so no checked instance shows it, and `ReportedFigures`
  excludes it by a hypothesis.
- Rows are never removed (`repo.rs:39`); no bound is stated to check.

## 6. Where documentation and code disagree

Each is a run whose property quotes the documentation and is violated.

- `RunStatus::Running` is documented as "In flight; `completed` round-trips so
  far" (`run.rs:71`). A run whose caller went away while it joined stays `Running`
  with nothing in flight (`RunningMeansInFlight`). Nor is `completed` the count so
  far: the row is saved with 0 and not written again until the run is over.
- `FailureReason::ConnectionLost` is documented as "An established connection
  dropped mid-run" (`run.rs:45`). It is what any connect error but a timeout
  becomes; an established connection that drops is reported as `Io`
  (`LostMeansEstablished`).
- `RunSummary::stats` is documented as "present once samples exist" (`run.rs:88`).
  A connection that fails drops its histogram, so a failed run may have done
  round-trips and have no statistics (`StatsOnceSamplesExist`).
- `run_server` is documented to "Run the server until a shutdown signal (SIGTERM /
  Ctrl-C) arrives" (`startup.rs:86`). If a handler cannot be installed its branch
  of the `select!` is over, and the server shuts down at once
  (`ServesUntilSignalled`).
- `--target` is documented as "`host:port` (ignored by loopback)"
  (`config.rs:75`). It is parsed before the transport is looked at, so a benchmark
  over the simulator is refused for it (`LoopbackIgnoresTarget`); and only an IP
  address parses, not a host name.

Two more that no run is spent on. The figures are called exact and the merge
lossless in the repository's README (lines 144, 199, 229): the merge is, as
`ReportIsOfAllSamples` shows, and a figure is exact to the width of its bucket.
And `bench` exits with success when its benchmark failed (`bench.rs:68-69`):
`PrintReport` says so, and no document says otherwise.

## 7. Plan

Done: the engine, its abstract specification, resilience, the bus, the
repository, the API over them, the QUIC transport, the histogram, the two
commands of the node, and the proofs above. Every safety property a run checks has
a theorem, `ReportIsOfAllSamples` under the hypothesis named in section 4.

Next, in this order:

1. the engine over the transport: `QuicEcho`'s client side in the place of the
   connector that `BenchEngine` assumes, so that a task's `RoundTrip` is a whole
   echo, and from that a theorem that joins `CompletedExact` and `OkIsEchoed`;
2. action properties of the server as theorems: that nothing is accepted once the
   shutdown began, and that of the requests of a connection none is answered twice.
