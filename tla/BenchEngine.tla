----------------------------- MODULE BenchEngine -----------------------------
(***************************************************************************)
(* The benchmark engine of quicforge-core (engine.rs).                     *)
(*                                                                         *)
(* BenchEngine::run records a run as Running, announces and counts it,     *)
(* spawns one task per connection, joins the tasks in index order, folds   *)
(* their results into one outcome, records, announces and counts that.     *)
(* run_connection is the task: it connects with retries, does its share of *)
(* the round-trips, reports progress, closes and returns.  Several runs    *)
(* may be in flight; the tasks of all of them interleave freely.           *)
(*                                                                         *)
(* The ports are modelled by their contract: connect and round_trip may    *)
(* succeed, fail or exceed the time their caller gives them, save and      *)
(* update may fail (RepoFaults), a task may panic in an unwinding build    *)
(* (Panics) and the future of a run may be dropped by its caller at an     *)
(* await that suspends (DropPoints).  Time is in module Resilience.        *)
(***************************************************************************)
EXTENDS Integers, Sequences, FiniteSets

CONSTANTS
  Runs,             \* the ids of the runs clients may start
  Connections,      \* BenchParams.connections
  Requests,         \* BenchParams.requests_per_connection
  ConnectRetries,   \* EngineConfig.connect_retries
  Panics,           \* whether a connection task may unwind
  RepoFaults,       \* whether save and update may return an error
  DropPoints        \* the awaits of run at which its future may be dropped

ASSUME EngineAssumption ==
  /\ IsFiniteSet(Runs)
  /\ Connections \in Nat \ {0}
  /\ Requests \in Nat \ {0}
  /\ ConnectRetries \in Nat
  /\ Panics \in BOOLEAN
  /\ RepoFaults \in BOOLEAN
  /\ DropPoints \subseteq {"accepted", "announced", "joining", "recording",
                          "announcing", "ending"}

VARIABLES
  \* each run
  pc,          \* pc[r]: where the future of BenchEngine::run is
  row,         \* row[r]: the summary the repository holds for the id
  feed,        \* feed[r]: the events published for the run, in order
  completed,   \* completed[r]: the AtomicU64 the tasks of the run share
  joined,      \* joined[r]: how many handles have been awaited
  merged,      \* merged[r]: the samples in the merged histogram
  firstErr,    \* firstErr[r]: the first failure met while joining
  \* each connection task of each run
  wst,         \* wst[r][w]: where the task is
  attempts,    \* attempts[r][w]: failed connects so far, while it connects
  samples,     \* samples[r][w]: round-trips recorded in its histogram
  loaded,      \* loaded[r][w]: the count it read for its Progress event
  result,      \* result[r][w]: what its handle yields
  conn,        \* conn[r][w]: its connection
  \* the process
  metrics      \* the counters of the metrics recorder

runVars    == <<pc, row, feed, completed, joined, merged, firstErr>>
workerVars == <<wst, attempts, samples, loaded, result, conn>>
vars       == <<runVars, workerVars, metrics>>

-----------------------------------------------------------------------------
Workers == 1..Connections
Total   == Connections * Requests   \* as a u64 product: see module Api

FailureReason == {"connect_timeout", "connection_lost", "io", "internal"}
ConnectError  == {"timeout", "transport", "unavailable", "not_found"}
Endings       == {"completed", "failed"}

\* A RunSummary: of the statistics only the number of samples, of the
\* throughput only the count it is computed from; 0 stands for None.
Row(status, reason, count, stats, throughput) ==
  [status |-> status, reason |-> reason, completed |-> count,
   stats |-> stats, throughput |-> throughput]

NoRow == Row("absent", "none", 0, 0, 0)

Event(kind, count, reason) == [kind |-> kind, count |-> count, reason |-> reason]

Init ==
  /\ pc        = [r \in Runs |-> "idle"]
  /\ row       = [r \in Runs |-> NoRow]
  /\ feed      = [r \in Runs |-> <<>>]
  /\ completed = [r \in Runs |-> 0]
  /\ joined    = [r \in Runs |-> 0]
  /\ merged    = [r \in Runs |-> 0]
  /\ firstErr  = [r \in Runs |-> "none"]
  /\ wst       = [r \in Runs |-> [w \in Workers |-> "unspawned"]]
  /\ attempts  = [r \in Runs |-> [w \in Workers |-> 0]]
  /\ samples   = [r \in Runs |-> [w \in Workers |-> 0]]
  /\ loaded    = [r \in Runs |-> [w \in Workers |-> 0]]
  /\ result    = [r \in Runs |-> [w \in Workers |-> "pending"]]
  /\ conn      = [r \in Runs |-> [w \in Workers |-> "none"]]
  /\ metrics   = [runs |-> 0, completed |-> 0, failed |-> 0, requests |-> 0]

-----------------------------------------------------------------------------
(* BenchEngine::run                                                        *)

Goto(r, label)    == pc' = [pc EXCEPT ![r] = label]
Publish(r, event) == feed' = [feed EXCEPT ![r] = Append(@, event)]

\* repo.save of the initial summary.
Save(r) ==
  /\ pc[r] = "idle"
  /\ row' = [row EXCEPT ![r] = Row("running", "none", 0, 0, 0)]
  /\ Goto(r, "accepted")
  /\ UNCHANGED <<feed, completed, joined, merged, firstErr, workerVars, metrics>>

SaveFails(r) ==
  /\ RepoFaults
  /\ pc[r] = "idle"
  /\ Goto(r, "errored")
  /\ UNCHANGED <<row, feed, completed, joined, merged, firstErr, workerVars, metrics>>

\* Publish Started.
AnnounceStart(r) ==
  /\ pc[r] = "accepted"
  /\ Publish(r, Event("started", Total, "none"))
  /\ Goto(r, "announced")
  /\ UNCHANGED <<row, completed, joined, merged, firstErr, workerVars, metrics>>

\* Back from that await: count the run and spawn its tasks.
Start(r) ==
  /\ pc[r] = "announced"
  /\ metrics' = [metrics EXCEPT !.runs = @ + 1]
  /\ wst' = [wst EXCEPT ![r] = [w \in Workers |-> "connecting"]]
  /\ Goto(r, "joining")
  /\ UNCHANGED <<row, feed, completed, joined, merged, firstErr,
                 attempts, samples, loaded, result, conn>>

\* Option::get_or_insert: an earlier failure is kept.
FirstError_LastWins(err, res) == IF res # "ok" THEN res ELSE err
FirstError(err, res) == IF err = "none" /\ res # "ok" THEN res ELSE err

\* The join loop goes over every handle, whatever the results so far.
AllJoined_FailFast(r, w) == w = Connections \/ result[r][w] # "ok"
AllJoined(r, w) == w = Connections

\* handle.await of the next handle, once its task has ended.
JoinNext(r) ==
  /\ pc[r] = "joining"
  /\ LET w == joined[r] + 1 IN
       /\ result[r][w] # "pending"
       /\ joined' = [joined EXCEPT ![r] = w]
       /\ merged' = [merged EXCEPT ![r] =
                       IF result[r][w] = "ok" THEN @ + samples[r][w] ELSE @]
       /\ firstErr' = [firstErr EXCEPT ![r] = FirstError(@, result[r][w])]
       /\ Goto(r, IF AllJoined(r, w) THEN "recording" ELSE "joining")
  /\ UNCHANGED <<row, feed, completed, workerVars, metrics>>

\* The terminal summary.  The middle case is the defensive branch for a run
\* that joined every task without a failure and without a sample.
Outcome(r) ==
  CASE firstErr[r] # "none" -> Row("failed", firstErr[r], 0, merged[r], 0)
    [] firstErr[r] = "none" /\ merged[r] = 0 -> Row("failed", "internal", 0, 0, 0)
    [] OTHER -> Row("completed", "none", 0, merged[r], completed[r])

RecordOutcome_NoUpdate(r) ==
  /\ pc[r] = "recording"
  /\ Goto(r, "announcing")
  /\ UNCHANGED <<row, feed, completed, joined, merged, firstErr, workerVars, metrics>>

RecordOutcome_Silent(r) ==
  /\ pc[r] = "recording"
  /\ row' = [row EXCEPT ![r] = Outcome(r)]
  /\ Goto(r, "returned")
  /\ UNCHANGED <<feed, completed, joined, merged, firstErr, workerVars, metrics>>

\* repo.update of the terminal summary.
RecordOutcome(r) ==
  /\ pc[r] = "recording"
  /\ row' = [row EXCEPT ![r] = Outcome(r)]
  /\ Goto(r, "announcing")
  /\ UNCHANGED <<feed, completed, joined, merged, firstErr, workerVars, metrics>>

\* What the outcome in the row is announced as.
EndEvent(outcome) ==
  IF outcome.status = "completed" THEN Event("completed", outcome.stats, "none")
                                  ELSE Event("failed", 0, outcome.reason)

RecordFails_Announced(r) ==
  /\ RepoFaults
  /\ pc[r] = "recording"
  /\ Publish(r, EndEvent(Outcome(r)))
  /\ Goto(r, "errored")
  /\ UNCHANGED <<row, completed, joined, merged, firstErr, workerVars, metrics>>

RecordFails(r) ==
  /\ RepoFaults
  /\ pc[r] = "recording"
  /\ Goto(r, "errored")
  /\ UNCHANGED <<row, feed, completed, joined, merged, firstErr, workerVars, metrics>>

\* Publish the terminal event.
Announce(r) ==
  /\ pc[r] = "announcing"
  /\ Publish(r, EndEvent(row[r]))
  /\ Goto(r, "ending")
  /\ UNCHANGED <<row, completed, joined, merged, firstErr, workerVars, metrics>>

CountEnding_BothCounters(r) ==
  /\ pc[r] = "ending"
  /\ metrics' = [metrics EXCEPT
                   !.completed = @ + 1,
                   !.failed    = IF firstErr[r] # "none" THEN @ + 1 ELSE @]
  /\ Goto(r, "returned")
  /\ UNCHANGED <<row, feed, completed, joined, merged, firstErr, workerVars>>

\* Back from that await: count the ending and return the summary.  Only a
\* failure met while joining counts as a failed run: the defensive branch
\* returns without touching the counter.
CountEnding(r) ==
  /\ pc[r] = "ending"
  /\ metrics' = [metrics EXCEPT
                   !.completed = IF row[r].status = "completed" THEN @ + 1 ELSE @,
                   !.failed    = IF firstErr[r] # "none" THEN @ + 1 ELSE @]
  /\ Goto(r, "returned")
  /\ UNCHANGED <<row, feed, completed, joined, merged, firstErr, workerVars>>

\* The caller drops the future (its client disconnects, say).  Dropping a
\* JoinHandle detaches its task: the tasks go on.
DropRun(r) ==
  /\ pc[r] \in DropPoints
  /\ Goto(r, "dropped")
  /\ UNCHANGED <<row, feed, completed, joined, merged, firstErr, workerVars, metrics>>

-----------------------------------------------------------------------------
(* run_connection                                                          *)

MaxAttempts == IF ConnectRetries > 1 THEN ConnectRetries ELSE 1

IsRetryable(e) == e # "not_found"

\* retry_if: the attempt that just failed was not the last one allowed.
MayRetry(r, w) == attempts[r][w] + 1 < MaxAttempts

ConnectFailure(e) == IF e = "timeout" THEN "connect_timeout" ELSE "connection_lost"

\* The task returns: its handle becomes ready with res.
Return(r, w, res) ==
  /\ wst' = [wst EXCEPT ![r][w] = "finished"]
  /\ result' = [result EXCEPT ![r][w] = res]

Release_Leaky(r, w) == UNCHANGED conn

Release(r, w) ==
  conn' = [conn EXCEPT ![r][w] = IF @ = "open" THEN "closed" ELSE @]

\* The counter of attempts is a local of retry_if.
LeaveRetry(r, w) == attempts' = [attempts EXCEPT ![r][w] = 0]

\* An attempt to connect succeeds within connect_timeout.
Connect(r, w) ==
  /\ wst[r][w] = "connecting"
  /\ wst' = [wst EXCEPT ![r][w] = "sending"]
  /\ conn' = [conn EXCEPT ![r][w] = "open"]
  /\ LeaveRetry(r, w)
  /\ UNCHANGED <<runVars, samples, loaded, result, metrics>>

\* An attempt fails with e and retry_if tries again.
RetryConnect(r, w, e) ==
  /\ wst[r][w] = "connecting"
  /\ MayRetry(r, w) /\ IsRetryable(e)
  /\ attempts' = [attempts EXCEPT ![r][w] = @ + 1]
  /\ UNCHANGED <<runVars, wst, samples, loaded, result, conn, metrics>>

\* An attempt fails for good: it was the last, or e is not retryable.
GiveUp(r, w, e) ==
  /\ wst[r][w] = "connecting"
  /\ ~(MayRetry(r, w) /\ IsRetryable(e))
  /\ Return(r, w, ConnectFailure(e))
  /\ LeaveRetry(r, w)
  /\ UNCHANGED <<runVars, samples, loaded, conn, metrics>>

AttemptFails(r, w, e) == RetryConnect(r, w, e) \/ GiveUp(r, w, e)

\* The connector answers an attempt with an error.
ConnectFails(r, w) == \E e \in ConnectError : AttemptFails(r, w, e)

RoundTrip_OneTooMany(r, w) ==
  /\ wst[r][w] = "sending"
  /\ samples[r][w] <= Requests
  /\ samples' = [samples EXCEPT ![r][w] = @ + 1]
  /\ metrics' = [metrics EXCEPT !.requests = @ + 1]
  /\ wst' = [wst EXCEPT ![r][w] = "counting"]
  /\ UNCHANGED <<runVars, attempts, loaded, result, conn>>

\* A round-trip succeeds: it is recorded in the task's histogram and counted
\* for the process ...
RoundTrip(r, w) ==
  /\ wst[r][w] = "sending"
  /\ samples[r][w] < Requests
  /\ samples' = [samples EXCEPT ![r][w] = @ + 1]
  /\ metrics' = [metrics EXCEPT !.requests = @ + 1]
  /\ wst' = [wst EXCEPT ![r][w] = "counting"]
  /\ UNCHANGED <<runVars, attempts, loaded, result, conn>>

CountRoundTrip_Lost(r, w) ==
  /\ wst[r][w] = "counting"
  /\ wst' = [wst EXCEPT ![r][w] = "sending"]
  /\ UNCHANGED <<runVars, attempts, samples, loaded, result, conn, metrics>>

\* ... and then for the run: two atomics, and a scrape or another task may
\* come in between.
CountRoundTrip(r, w) ==
  /\ wst[r][w] = "counting"
  /\ completed' = [completed EXCEPT ![r] = @ + 1]
  /\ wst' = [wst EXCEPT ![r][w] = "sending"]
  /\ UNCHANGED <<pc, row, feed, joined, merged, firstErr,
                 attempts, samples, loaded, result, conn, metrics>>

\* A round-trip fails or exceeds request_timeout: close and give up.
FailRoundTrip(r, w) ==
  /\ wst[r][w] = "sending"
  /\ samples[r][w] < Requests
  /\ Release(r, w)
  /\ Return(r, w, "io")
  /\ UNCHANGED <<runVars, attempts, samples, loaded, metrics>>

TimeOut_ConnectUnbounded(r, w) == FailRoundTrip(r, w)

\* with_timeout gives up on a connector that does not answer, be it in an
\* attempt to connect or in a round-trip.
TimeOut(r, w) == AttemptFails(r, w, "timeout") \/ FailRoundTrip(r, w)

ProgressCount_BeforeAdd(r) == completed[r] - 1
ProgressCount(r) == completed[r]

\* All round-trips done: read the shared count for the Progress event ...
LoadCompleted(r, w) ==
  /\ wst[r][w] = "sending"
  /\ samples[r][w] = Requests
  /\ loaded' = [loaded EXCEPT ![r][w] = ProgressCount(r)]
  /\ wst' = [wst EXCEPT ![r][w] = "reporting"]
  /\ UNCHANGED <<runVars, attempts, samples, result, conn, metrics>>

\* ... and publish it, a step other tasks may come before; close and return.
ReportProgress(r, w) ==
  /\ wst[r][w] = "reporting"
  /\ Publish(r, Event("progress", loaded[r][w], "none"))
  /\ Release(r, w)
  /\ Return(r, w, "ok")
  /\ UNCHANGED <<pc, row, completed, joined, merged, firstErr,
                 attempts, samples, loaded, metrics>>

\* The task unwinds: its locals are dropped, its handle yields a JoinError.
Panic(r, w) ==
  /\ Panics
  /\ wst[r][w] \in {"connecting", "sending", "reporting"}
  /\ Release(r, w)
  /\ LeaveRetry(r, w)
  /\ Return(r, w, "internal")
  /\ UNCHANGED <<runVars, samples, loaded, metrics>>

-----------------------------------------------------------------------------
RunStep(r) ==
  \/ AnnounceStart(r) \/ Start(r)
  \/ JoinNext(r)
  \/ RecordOutcome(r) \/ RecordFails(r)
  \/ Announce(r) \/ CountEnding(r)

\* What a task does without an answer from the connector.
OwnStep(r, w) ==
  CountRoundTrip(r, w) \/ LoadCompleted(r, w) \/ ReportProgress(r, w) \/ TimeOut(r, w)

\* What the connector's answers make it do.
AnswerStep(r, w) ==
  Connect(r, w) \/ ConnectFails(r, w) \/ RoundTrip(r, w) \/ FailRoundTrip(r, w)

WorkerStep(r, w) == OwnStep(r, w) \/ AnswerStep(r, w)

WorkerAction(r, w) == WorkerStep(r, w) \/ Panic(r, w)

\* Every run that was started is over and no task is left.
Done ==
  /\ \A r \in Runs : pc[r] \in {"returned", "errored", "dropped"}
  /\ \A r \in Runs, w \in Workers : wst[r][w] \in {"unspawned", "finished"}
  /\ UNCHANGED vars

Next ==
  \/ \E r \in Runs : Save(r) \/ SaveFails(r) \/ RunStep(r) \/ DropRun(r)
  \/ \E r \in Runs, w \in Workers : WorkerAction(r, w)
  \/ Done

Spec == Init /\ [][Next]_vars

\* The runtime polls every future that can go on and fires every timer.  The
\* connector need not ever answer: a task can count on its timeouts only.  No
\* client is obliged to start a run or to stay, and no task to panic.
FairSpec ==
  /\ Spec
  /\ \A r \in Runs : WF_vars(RunStep(r))
  /\ \A r \in Runs, w \in Workers : WF_vars(OwnStep(r, w))

-----------------------------------------------------------------------------
(* Safety                                                                  *)

RunLabel  == {"idle", "accepted", "announced", "joining", "recording",
              "announcing", "ending", "returned", "errored", "dropped"}
TaskLabel == {"unspawned", "connecting", "sending", "counting", "reporting", "finished"}

RunSummary == [status : {"absent", "running"} \union Endings,
               reason : FailureReason \union {"none"},
               completed : Nat, stats : Nat, throughput : Nat]
RunEvent   == [kind : {"started", "progress"} \union Endings, count : Nat,
               reason : FailureReason \union {"none"}]

\* Every variable holds a value the program's type for it admits.
TypeOK ==
  /\ pc \in [Runs -> RunLabel]
  /\ row \in [Runs -> RunSummary]
  /\ feed \in [Runs -> Seq(RunEvent)]
  /\ completed \in [Runs -> Nat]
  /\ joined \in [Runs -> 0..Connections]
  /\ merged \in [Runs -> Nat]
  /\ firstErr \in [Runs -> FailureReason \union {"none"}]
  /\ wst \in [Runs -> [Workers -> TaskLabel]]
  /\ attempts \in [Runs -> [Workers -> 0..(MaxAttempts - 1)]]
  /\ samples \in [Runs -> [Workers -> 0..Requests]]
  /\ loaded \in [Runs -> [Workers -> Nat]]
  /\ result \in [Runs -> [Workers -> FailureReason \union {"pending", "ok"}]]
  /\ conn \in [Runs -> [Workers -> {"none", "open", "closed"}]]
  /\ metrics \in [runs : Nat, completed : Nat, failed : Nat, requests : Nat]

Ended(r) == row[r].status \in Endings

\* A subscriber of the run sees it begin once and first, sees one Progress for
\* each connection that did its share, and sees it end at most once and last.
FeedIsOneLifecycle ==
  \A r \in Runs :
    /\ \A i \in 1..Len(feed[r]) : /\ feed[r][i].kind = "started" <=> i = 1
                                  /\ feed[r][i].kind \in Endings => i = Len(feed[r])
    /\ Cardinality({i \in 1..Len(feed[r]) : feed[r][i].kind = "progress"})
         = Cardinality({w \in Workers : result[r][w] = "ok"})

\* A client that learns of a run from an event and then queries it reads a row
\* at least as new: the row is there once Started is out, and once a terminal
\* event is out the row holds the very outcome that event carries.
EventsFollowTheRow ==
  \A r \in Runs : \A i \in 1..Len(feed[r]) :
    LET e == feed[r][i] IN
      /\ row[r].status # "absent"
      /\ e.kind \in Endings => /\ row[r].status = e.kind
                               /\ row[r].reason = e.reason
      /\ e.kind = "completed" => row[r].stats = e.count

\* No sample is lost or counted twice on the way from the tasks through the
\* shared counter and the merged histogram to a completed run's summary.
CompletedRunIsExact ==
  \A r \in Runs : row[r].status = "completed" =>
    /\ row[r].stats = Total
    /\ row[r].throughput = Total
    /\ \A w \in Workers : result[r][w] = "ok"

\* A run fails exactly because a connection failed, and reports the failure of
\* the lowest-numbered one whatever the order the tasks ended in (so the
\* defensive no-samples branch, which blames no connection, is never taken);
\* its statistics hold every sample of the connections that succeeded.
FailureIsTheFirstInOrder ==
  \A r \in Runs : row[r].status = "failed" =>
    /\ \E w \in Workers : /\ result[r][w] = row[r].reason
                          /\ \A v \in 1..(w - 1) : result[r][v] = "ok"
    /\ row[r].stats = Requests * Cardinality({w \in Workers : result[r][w] = "ok"})

\* Once the outcome of a run is visible, nothing of the run is still going on:
\* each of its tasks has returned and let go of its connection.
NothingOutlivesItsOutcome ==
  \A r \in Runs : Ended(r) =>
    \A w \in Workers : wst[r][w] = "finished" /\ conn[r][w] # "open"

\* Progress counts are stale by at most the tasks that finish meanwhile: fewer
\* than k of the Progress events of a run show less than k whole shares.  With
\* k = Connections: by the time a run completes, some Progress showed Total.
ProgressKeepsUp ==
  \A r \in Runs : \A k \in Workers :
    Cardinality({i \in 1..Len(feed[r]) : /\ feed[r][i].kind = "progress"
                                         /\ feed[r][i].count < k * Requests}) < k

\* No Progress event shows more than the round-trips done, nor less than the
\* share of the task that sent it, and the run never counts more than the
\* total its subscribers were told.
ProgressIsHonest ==
  \A r \in Runs :
    /\ completed[r] <= Total
    /\ \A i \in 1..Len(feed[r]) :
         feed[r][i].kind = "progress" => feed[r][i].count \in Requests..completed[r]

\* The counters of the process trail what was published by exactly the runs
\* that are between an event and its count, and for good by those whose caller
\* left there; they count no run twice and none under two endings.  The
\* requests lead the counts of the runs by exactly the tasks between the two.
MetricsMatchTheFeeds ==
  LET Published(kind) == {r \in Runs : \E i \in 1..Len(feed[r]) : feed[r][i].kind = kind}
      Spawned         == {r \in Runs : \E w \in Workers : wst[r][w] # "unspawned"}
      Returned        == {r \in Runs : pc[r] = "returned"}
  IN  /\ metrics.runs = Cardinality(Spawned)
      /\ Spawned \subseteq Published("started")
      /\ \A r \in Published("started") \ Spawned : pc[r] \in {"announced", "dropped"}
      /\ \A ending \in Endings :
           /\ metrics[ending] = Cardinality(Published(ending) \intersect Returned)
           /\ \A r \in Published(ending) \ Returned : pc[r] \in {"ending", "dropped"}
      /\ metrics.requests
           = Cardinality({d \in Runs \X (1..Total) : d[2] <= completed[d[1]]})
             + Cardinality({t \in Runs \X Workers : wst[t[1]][t[2]] = "counting"})

\* What run answers agrees with the record and with the event stream: Ok means
\* that the outcome is in the repository and was announced, Err that neither is
\* so, whatever ending the run came to.
AnswersMatchTheRecord ==
  \A r \in Runs :
    LET announced(kind) == \E i \in 1..Len(feed[r]) : feed[r][i].kind = kind IN
      /\ pc[r] = "returned" => Ended(r) /\ announced(row[r].status)
      /\ pc[r] = "errored"  => ~Ended(r) /\ \A ending \in Endings : ~announced(ending)

-----------------------------------------------------------------------------
(* What a step may never do                                                *)

\* A terminal row is final, and so is everything it was computed from; the one
\* event that may still follow it is its announcement.
TheEndIsFinal ==
  [][\A r \in Runs : Ended(r) =>
       /\ row'[r] = row[r]
       /\ completed'[r] = completed[r]
       /\ samples'[r] = samples[r]
       /\ result'[r] = result[r]
       /\ Len(feed'[r]) > Len(feed[r]) =>
            feed'[r] = Append(feed[r], Event(row[r].status, feed'[r][Len(feed'[r])].count,
                                             row[r].reason))]_vars

-----------------------------------------------------------------------------
(* Liveness                                                                *)

\* Every task that was spawned ends, even when nobody joins it any more and the
\* connector never answers: each of its awaits is under a timeout.
EveryTaskEnds ==
  \A r \in Runs, w \in Workers : wst[r][w] = "connecting" ~> wst[r][w] = "finished"

-----------------------------------------------------------------------------
(* Refinement: the engine implements RunLifecycle.                         *)

LastNews(r) ==
  IF feed[r] = <<>> THEN "none"
  ELSE LET last == feed[r][Len(feed[r])].kind
       IN  IF last \in Endings THEN last ELSE "started"

Lifecycle == INSTANCE RunLifecycle WITH
  status <- [r \in Runs |-> row[r].status],
  news   <- [r \in Runs |-> LastNews(r)]

\* Seen through the repository and the event stream, every run behaves as
\* RunLifecycle says.
ImplementsLifecycle == Lifecycle!Spec

\* A run whose caller stays and whose repository does not fail also gets as
\* far: it ends, its end is announced, and its caller has an answer.
ImplementsLifecycleFully ==
  \A r \in Runs : [](pc[r] \notin {"dropped", "errored"}) => Lifecycle!Carried(r)

-----------------------------------------------------------------------------
(* What the documentation says and the code does not do                    *)

\* run.rs:71 "In flight": a Running row belongs to a run that is going on.
RunningMeansInFlight ==
  \A r \in Runs : row[r].status = "running" =>
    \/ pc[r] \in {"accepted", "announced", "joining", "recording"}
    \/ \E w \in Workers : wst[r][w] \notin {"unspawned", "finished"}

\* run.rs:45 "An established connection dropped mid-run."
LostMeansEstablished ==
  \A r \in Runs, w \in Workers :
    result[r][w] = "connection_lost" => conn[r][w] # "none"

\* run.rs:88 "Latency distribution (present once samples exist)."
StatsOnceSamplesExist ==
  \A r \in Runs : Ended(r) /\ completed[r] > 0 => row[r].stats > 0
=============================================================================
