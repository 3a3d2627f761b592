----------------------------- MODULE ReadModels -----------------------------
(***************************************************************************)
(* What clients of the GraphQL API see: the runs startBenchmark starts,    *)
(* written to MemoryRunRepository and announced on BroadcastEventSink, and *)
(* clients that subscribe to the event stream (runProgress) and query the  *)
(* repository (run, runs) while the runs go on.                            *)
(*                                                                         *)
(* The engine appears by its steps at the two ports, in the order of       *)
(* BenchEngine::run; what happens between them is in BenchEngine.  The     *)
(* start of a run is read from the wall clock before the row is saved, and *)
(* the clock may be set back: runs may be saved in another order than that *)
(* of their start.                                                         *)
(***************************************************************************)
EXTENDS Api, Sequences, FiniteSets

CONSTANTS
  Runs,       \* the runs
  Inputs,     \* what startBenchmark may be given
  Clients,    \* the clients, each with at most one subscription
  Slots,      \* the size of the event bus
  PageMax,    \* bound on the longest list runs(limit) may give, which is 200
  MaxClock    \* bound on the readings of the wall clock

ASSUME ReadModelsAssumption ==
  /\ IsFiniteSet(Runs)
  /\ Slots \in Nat \ {0} /\ PageMax \in Nat \ {0} /\ MaxClock \in Nat \ {0}

VARIABLES
  stage,      \* stage[r]: how far the run is
  summary,    \* summary[r]: the summary the future of the run holds
  rows,       \* the repository
  log,        \* the events, in the order of publication
  published, channel, state, next, since, got,   \* the event bus
  asked       \* asked[c]: the run client c queried and found not over yet

busVars == <<published, channel, state, next, since, got>>
vars    == <<stage, summary, rows, log, busVars, asked>>

Repo == INSTANCE MemoryRunRepository
\* Each run publishes three events here: Started, one Progress and its end.
Bus  == INSTANCE BroadcastEventSink WITH
          Subscribers <- Clients, MaxPublish <- 3 * Cardinality(Runs)

Endings == {"completed", "failed"}

\* What to_params lets through.
AcceptedInputs == {input \in Inputs : Accepted(input)}

\* What the queries run(id) and runs(limit) answer; the limit is clamped to
\* 1..200, or whatever else the longest list is.
Query(r) == {RunSummaryObject(row) : row \in Repo!Get(r)}
Clamped_Below(limit, longest) == IF limit < 1 THEN 1 ELSE limit
Clamped(limit, longest) == IF limit < 1 THEN 1 ELSE IF limit > longest THEN longest ELSE limit
RecentRuns(limit, longest) ==
  LET list == Repo!ListRecent(Clamped(limit, longest))
  IN  [i \in DOMAIN list |-> RunSummaryObject(list[i])]

StatusOf(r) == LET found == Query(r)
               IN  IF found = {} THEN "absent" ELSE (CHOOSE o \in found : TRUE).state

\* Before the engine has made one.
NoSummary(r) == [id |-> r, status |-> [kind |-> "absent"]]

Init ==
  /\ stage   = [r \in Runs |-> "idle"]
  /\ summary = [r \in Runs |-> NoSummary(r)]
  /\ log     = <<>>
  /\ asked   = [c \in Clients |-> {}]
  /\ Repo!Init
  /\ Bus!Init

-----------------------------------------------------------------------------
(* A run, at its ports.  A reason, the figures of a histogram and a        *)
(* throughput are those of their run, and written as the run.              *)

Reach(r, s) == stage' = [stage EXCEPT ![r] = s]

Emit(event) == Bus!Publish /\ log' = Append(log, event)

\* startBenchmark refuses its input, and the engine never hears of it.
Refuse(r) ==
  /\ stage[r] = "idle"
  /\ \E input \in Inputs : ~Accepted(input)
  /\ Reach(r, "refused")
  /\ UNCHANGED <<summary, rows, log, busVars, asked>>

\* Or hands it to the engine: the id is generated and the clock read ...
Stamp(r) ==
  /\ stage[r] = "idle"
  /\ \E input \in AcceptedInputs : \E clock \in 1..MaxClock :
       summary' = [summary EXCEPT ![r] =
         [id |-> r, params |-> input, status |-> [kind |-> "running", completed |-> 0],
          stats |-> {}, throughput |-> {}, started |-> clock, finished |-> FALSE]]
  /\ Reach(r, "stamped")
  /\ UNCHANGED <<rows, log, busVars, asked>>

Save_Unstamped(r) ==
  /\ stage[r] = "stamped"
  /\ Repo!Save([summary[r] EXCEPT !.started = 0])
  /\ Reach(r, "saved")
  /\ UNCHANGED <<summary, log, busVars, asked>>

\* ... before the row is saved.
Save(r) ==
  /\ stage[r] = "stamped"
  /\ Repo!Save(summary[r])
  /\ Reach(r, "saved")
  /\ UNCHANGED <<summary, log, busVars, asked>>

Total(r) == TotalRequests(summary[r].params)

AnnounceStart(r) ==
  /\ stage[r] = "saved"
  /\ Emit([run |-> r, kind |-> "started", total |-> Total(r)])
  /\ Reach(r, "started")
  /\ UNCHANGED <<summary, rows, asked>>

\* A connection of the run reports: the first one here, and when no other has
\* done anything yet.
Share(r) == summary[r].params.requests

ReportProgress(r) ==
  /\ stage[r] = "started"
  /\ Emit([run |-> r, kind |-> "progress", completed |-> Share(r), total |-> Total(r)])
  /\ Reach(r, "reported")
  /\ UNCHANGED <<summary, rows, asked>>

Completed(r) ==
  [summary[r] EXCEPT !.status = [kind |-> "completed"], !.finished = TRUE,
                     !.stats = {r}, !.throughput = {r}]

\* Of a run that failed the row keeps the samples of the other connections.
Failed(r, samples) ==
  [summary[r] EXCEPT !.status = [kind |-> "failed", reason |-> r], !.finished = TRUE,
                     !.stats = samples]

Record(r) ==
  /\ stage[r] \in {"started", "reported"}
  /\ \E s \in {Completed(r), Failed(r, {}), Failed(r, {r})} :
       summary' = [summary EXCEPT ![r] = s] /\ Repo!Update(s)
  /\ Reach(r, "recorded")
  /\ UNCHANGED <<log, busVars, asked>>

End(r) ==
  IF summary[r].status.kind = "completed"
  THEN [run |-> r, kind |-> "completed", stats |-> r, throughput |-> r]
  ELSE [run |-> r, kind |-> "failed", reason |-> r]

AnnounceEnd_First(r) ==
  /\ stage[r] \in {"started", "reported"}
  /\ Emit([run |-> r, kind |-> "failed", reason |-> r])
  /\ Reach(r, "announced")
  /\ UNCHANGED <<summary, rows, asked>>

\* With the announcement the run is over, and startBenchmark answers.
AnnounceEnd(r) ==
  /\ stage[r] = "recorded"
  /\ Emit(End(r))
  /\ Reach(r, "announced")
  /\ UNCHANGED <<summary, rows, asked>>

-----------------------------------------------------------------------------
(* The clients.                                                            *)

\* A client's subscription; one that goes away is of no interest here.
Listen(c) ==
  /\ Bus!Subscribe(c) \/ Bus!Deliver(c) \/ Bus!SkipLost(c)
  /\ UNCHANGED <<stage, summary, rows, log, asked>>

\* The query run(id), by a client that listens.  A bound: one such query, about
\* any of the runs and at any time, is what NoEndIsMissed looks at, and only of a
\* run that is not over is there an end to miss.
Ask(c, r) ==
  /\ state[c] = "open"
  /\ asked[c] = {}
  /\ StatusOf(r) \notin Endings
  /\ asked' = [asked EXCEPT ![c] = {r}]
  /\ UNCHANGED <<stage, summary, rows, log, busVars>>

\* What startBenchmark answers for a run that is over.
Answer(r) == RunSummaryObject(summary[r])

RunStep(r) ==
  \/ Refuse(r) \/ Stamp(r) \/ Save(r) \/ AnnounceStart(r) \/ ReportProgress(r)
  \/ Record(r) \/ AnnounceEnd(r)

Next ==
  \/ \E r \in Runs : RunStep(r)
  \/ \E c \in Clients : Listen(c) \/ \E r \in Runs : Ask(c, r)

Spec == Init /\ [][Next]_vars

-----------------------------------------------------------------------------
(* Properties                                                              *)

\* Every variable has its type; the bus is typed by its own module.
TypeOK ==
  /\ stage \in [Runs -> {"idle", "refused", "stamped", "saved", "started", "reported",
                         "recorded", "announced"}]
  /\ \A i \in DOMAIN rows :
       /\ rows[i] \in [id : Runs, params : AcceptedInputs,
                       status : [kind : {"running"}, completed : {0}]
                         \union [kind : {"completed"}] \union [kind : {"failed"}, reason : Runs],
                       stats : SUBSET Runs, throughput : SUBSET Runs,
                       started : 1..MaxClock, finished : BOOLEAN]
       /\ Cardinality(rows[i].stats) <= 1 /\ Cardinality(rows[i].throughput) <= 1
  /\ \A i \in DOMAIN log :
       log[i].run \in Runs /\ log[i].kind \in {"started", "progress"} \union Endings
  /\ asked \in [Clients -> SUBSET Runs]
  /\ Bus!TypeOK /\ published = Len(log)

Saved == {r \in Runs : stage[r] \notin {"idle", "refused", "stamped"}}

\* runs(limit) gives as many runs as there are up to the limit, never more than
\* the longest list, however long that may be, and one even for a limit below;
\* each once and as it was last written, the later started first, and none that
\* is left out started later than one that is listed.  Runs that were saved in
\* another order than they started, and a clock set back, change nothing of it.
RecentIsNewestFirst ==
  \A longest \in 1..PageMax : \A limit \in 0..(longest + 1) :
    LET list == RecentRuns(limit, longest)
        listed == {list[i].id : i \in DOMAIN list}
        size == Cardinality({k \in 1..Cardinality(Saved) :
                               k <= longest /\ (k <= limit \/ k = 1)})
    IN  /\ Len(list) = size /\ Cardinality(listed) = size
        /\ \A i \in DOMAIN list :
             LET o == list[i] IN
               /\ o = RunSummaryObject(summary[o.id])
               /\ \A j \in 1..(i - 1) : list[j].started_at >= o.started_at
               /\ \A r \in Saved \ listed : summary[r].started <= o.started_at

\* A client that learns of a run from its stream, however late, and then queries
\* it is shown a run of the total that was announced and, of one that ended, the
\* same end, with the same figures or reason, and never less than the event had.
\* The answer of startBenchmark is what a query shows from then on.  (Not the
\* count of a Progress event, which no row ever has.)
SeenCanBeQueried ==
  /\ \A c \in Clients : \A i \in DOMAIN got[c] :
       LET e == RunEventObject(log[got[c][i]]) IN
         \E o \in Query(e.run_id) :
           /\ e.total # {} => e.total = {o.total_requests}
           /\ e.kind \in Endings =>
                /\ o.state = e.kind /\ o.finished
                /\ o.failure_reason = e.failure_reason
                /\ o.throughput = e.throughput /\ e.stats \subseteq o.stats
  /\ \A r \in Runs : stage[r] = "announced" => Query(r) = {Answer(r)}

\* A client that subscribes first and queries then does not miss the end of a
\* run that was not over when it asked: the end was delivered, or is still to
\* come, or the client was overrun.
NoEndIsMissed ==
  \A c \in Clients : \A e \in DOMAIN log :
    /\ state[c] = "open"
    /\ log[e].run \in asked[c]
    /\ log[e].kind \in Endings
    => \/ \E i \in DOMAIN got[c] : got[c][i] = e
       \/ \E p \in next[c]..Len(channel) : channel[p] = e
       \/ e + Slots <= published

\* Seen through these adapters, every run is as RunLifecycle says: the vector
\* answers for a run what was last written for it.
LastNews(r) ==
  LET news == {log[i].kind : i \in {j \in DOMAIN log : log[j].run = r}}
  IN  IF news = {} THEN "none"
      ELSE IF news \intersect Endings # {} THEN CHOOSE k \in news : k \in Endings
      ELSE "started"

Lifecycle == INSTANCE RunLifecycle WITH
  status <- [r \in Runs |-> StatusOf(r)],
  news   <- [r \in Runs |-> LastNews(r)]

ImplementsLifecycle == Lifecycle!Spec
=============================================================================
