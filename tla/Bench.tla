-------------------------------- MODULE Bench --------------------------------
(***************************************************************************)
(* The bench command (quicforge-node bench.rs): it prepares a connector    *)
(* from its arguments, has the engine do one run over it and prints a      *)
(* report.                                                                 *)
(*                                                                         *)
(* The run is that of BenchEngine, whose steps are taken with two things   *)
(* added: what the chosen connector can do (sim.rs; QuicEcho for quic.rs), *)
(* and the latencies, which the tasks record in histograms of their own    *)
(* and the run merges as it joins them.                                    *)
(***************************************************************************)
EXTENDS Api, Histogram, Connectors

CONSTANTS
  Invocations,      \* the command lines: BenchArgs
  Connections, Requests,   \* what the valid ones among them ask for
  ConnectRetries, RequestTimeout,   \* EngineConfig
  Latencies         \* the times a round-trip may take

\* What clap accepts.
BenchArgs == [target : {"address", "nonsense"}, connections : Nat, requests : Nat,
              payload : Nat, transport : Transport, spawn_echo : BOOLEAN, sim_delay : Nat]

Run == "run"

ASSUME BenchAssumption ==
  /\ Connections \in Nat \ {0} /\ Requests \in Nat \ {0} /\ ConnectRetries \in Nat
  /\ RequestTimeout \in Nat \ {0} /\ Latencies \subseteq Nat
  /\ Invocations \subseteq BenchArgs
  /\ \A args \in Invocations : /\ args.connections \in {0, Connections}
                               /\ args.requests \in {0, Requests}

VARIABLES
  pc, row, feed, completed, joined, merged, firstErr,   \* the engine
  wst, attempts, samples, loaded, result, conn, metrics,
  args,        \* the arguments
  at,          \* "starting", "running" or "done"
  connector,   \* the connector given to the engine
  hist,        \* hist[w]: the histogram of task w
  mergedHist,  \* the histogram of the run
  raw,         \* the latencies measured so far: a history variable
  printed      \* what the command told its user last

engineVars  == <<pc, row, feed, completed, joined, merged, firstErr,
                 wst, attempts, samples, loaded, result, conn, metrics>>
commandVars == <<args, at, connector, printed>>
histVars    == <<hist, mergedHist, raw>>
benchVars   == <<engineVars, commandVars, histVars>>

\* The adapters of build_engine: a repository that does not fail, and no await
\* of the run but its joins; the release build aborts on a panic.
Engine == INSTANCE BenchEngine WITH
  Runs <- {Run}, Panics <- FALSE, RepoFaults <- FALSE, DropPoints <- {}

BenchInit ==
  /\ Engine!Init
  /\ args \in Invocations
  /\ at = "starting" /\ connector = [kind |-> "none"]
  /\ printed = "nothing"
  /\ hist = [w \in Engine!Workers |-> NewHistogram]
  /\ mergedHist = NewHistogram /\ raw = EmptyBag

-----------------------------------------------------------------------------
(* Up to the run.                                                          *)

\* QuicEchoServer::start: a certificate and a socket, which may not be had.
ServerStart == {"echo", "error"}

\* An echo server of its own, or the target given, which has to parse.
Target ==
  IF QuicFeature /\ args.spawn_echo /\ args.transport = "quic" THEN ServerStart
  ELSE IF args.spawn_echo /\ ~QuicFeature THEN {"error"}
  ELSE IF args.target = "address" THEN {"given"}
  ELSE {"error"}

Valid == /\ ConnectionCount(args.connections) /\ RequestCount(args.requests)
         /\ PayloadSize(args.payload)

Refuse ==
  /\ at = "starting"
  /\ \E t \in Target, c \in BuildConnector(args.transport, args.sim_delay) :
       t = "error" \/ c.kind = "error" \/ ~Valid
  /\ at' = "done" /\ printed' = "error"
  /\ UNCHANGED <<engineVars, histVars, args, connector>>

Prepare ==
  /\ at = "starting" /\ Valid
  /\ \E t \in Target : t # "error"
  /\ connector' \in BuildConnector(args.transport, args.sim_delay)
  /\ connector'.kind # "error"
  /\ at' = "running"
  /\ UNCHANGED <<engineVars, histVars, args, printed>>

-----------------------------------------------------------------------------
(* The run.                                                                *)

Merge_LastOne(all, one) == one
Merge(all, one) == all (+) one

TimedRoundTrip(w) ==
  /\ Engine!RoundTrip(Run, w)
  /\ \E ns \in Latencies :
       /\ MayTake(connector, RequestTimeout, ns)
       /\ hist' = [hist EXCEPT ![w] = Record(@, ns)]
       /\ raw' = raw (+) SetToBag({ns})
  /\ UNCHANGED mergedHist

JoinAndMerge ==
  /\ Engine!JoinNext(Run)
  /\ LET w == joined[Run] + 1 IN
       mergedHist' = IF result[Run][w] = "ok" THEN Merge(mergedHist, hist[w]) ELSE mergedHist
  /\ UNCHANGED <<hist, raw>>

\* A timeout is one of the ways to fail, and so up to the connector as well.
EngineStep ==
  \/ Engine!Save(Run) \/ Engine!AnnounceStart(Run) \/ Engine!Start(Run)
  \/ Engine!RecordOutcome(Run) \/ Engine!Announce(Run) \/ Engine!CountEnding(Run)
  \/ \E w \in Engine!Workers :
       \/ Engine!Connect(Run, w)
       \/ MayFailToConnect(connector) /\ Engine!ConnectFails(Run, w)
       \/ MayFail(connector, RequestTimeout) /\ Engine!FailRoundTrip(Run, w)
       \/ Engine!CountRoundTrip(Run, w)
       \/ Engine!LoadCompleted(Run, w) \/ Engine!ReportProgress(Run, w)

Drive ==
  /\ at = "running"
  /\ \/ EngineStep /\ UNCHANGED histVars
     \/ JoinAndMerge
     \/ \E w \in Engine!Workers : TimedRoundTrip(w)
  /\ UNCHANGED commandVars

\* print_report, of the summary run returned.
Report(summary) ==
  IF summary.status = "failed" THEN "failed"
  ELSE IF summary.status # "completed" THEN "unexpected state"
  ELSE IF StatsFromHistogram(mergedHist) = {} THEN "no samples"
  ELSE "report"

\* A failed run is reported as such, and the command succeeds all the same.
PrintReport ==
  /\ at = "running" /\ pc[Run] = "returned"
  /\ printed' = Report(row[Run])
  /\ at' = "done"
  /\ UNCHANGED <<engineVars, histVars, args, connector>>

BenchNext == Refuse \/ Prepare \/ Drive \/ PrintReport

\* The command goes on as long as it can: the runtime polls its futures and fires
\* its timers, and an await of a connector that does not answer fails by its
\* timeout.  An attempt to connect or a round-trip ends one way or the other.
BenchFairness == WF_benchVars(BenchNext)

BenchSpec == BenchInit /\ [][BenchNext]_benchVars /\ BenchFairness

-----------------------------------------------------------------------------
(* Properties                                                              *)

\* Every variable has its type; and what BenchEngine says of numbers of samples
\* is true of the histograms, so that its results hold of the real thing.
BenchTypeOK ==
  /\ args \in Invocations
  /\ at \in {"starting", "running", "done"}
  /\ connector.kind \in {"none", "loopback", "quinn"}
  /\ printed \in {"nothing", "error", "report", "failed", "unexpected state", "no samples"}
  /\ \A w \in Engine!Workers : Recorded(hist[w]) = samples[Run][w]
  /\ Recorded(mergedHist) = merged[Run]
  /\ StatsFromHistogram(mergedHist) \subseteq LatencyStats

\* The k-th of the latencies measured, in order.
InOrder(k) == CHOOSE v \in DOMAIN raw : UpTo(raw, v) >= k /\ UpTo(raw, v - 1) < k

\* The end of the bucket of a latency, which is less than a bucket off.
Shown(v) == EndOf(Bucket(Clipped(v)))

\* The report is of all the latencies of all the connections: as many as were
\* asked for, and each percentile is that of the measurements taken together, to
\* within the width of a bucket and cut off at the end of the last.  (Not the
\* average of the connections' own, say, nor those of one of them.)  Over the
\* simulator none is below its delay.  And the report is never the one for a run
\* without samples, or without an end.
ReportIsOfARun == printed \notin {"unexpected state", "no samples"}
ReportIsOfAllSamples ==
  /\ ReportIsOfARun
  /\ printed = "report" =>
       \E stats \in StatsFromHistogram(mergedHist) :
         LET n == TotalRequests(args)
             exact(quantile) == Shown(InOrder((quantile * n + 999) \div 1000))
         IN  /\ stats.samples = n /\ Recorded(raw) = n
             /\ stats.p50 = exact(500) /\ stats.p90 = exact(900)
             /\ stats.p99 = exact(990) /\ stats.p999 = exact(999)
             /\ stats.max = exact(1000)
             /\ stats.min <= stats.mean /\ stats.mean <= stats.max
             /\ stats.min <= InOrder(1) /\ stats.min <= stats.p50
             /\ args.transport = "loopback" => stats.p50 >= Clipped(args.sim_delay)

\* Delays that are below the timeout, or above it, however late a timer is.
InTime  == args.sim_delay = 0 \/ args.sim_delay + TimerLag < RequestTimeout
TooLate == args.sim_delay > RequestTimeout + TimerLag

\* Over the simulator a run that is accepted succeeds if its delay is below the
\* timeout of a request and fails if it is above, unless the two are so close
\* that a late timer decides; without a delay it always succeeds.  Whatever
\* connection fails, the run never reports one as lost or late to connect.
LoopbackIsAsSlowAsAsked ==
  args.transport = "loopback" /\ at = "done" /\ printed # "error" =>
    /\ InTime => printed = "report"
    /\ TooLate => printed = "failed"
    /\ printed = "failed" => row[Run].reason = "io"

\* config.rs:75 "Target QUIC echo server as `host:port` (ignored by loopback)."
LoopbackIgnoresTarget ==
  args.transport = "loopback" /\ Valid => printed # "error"
=============================================================================
