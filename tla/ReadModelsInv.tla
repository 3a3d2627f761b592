---------------------------- MODULE ReadModelsInv ----------------------------
(***************************************************************************)
(* The inductive invariant of ReadModels: how the place of a run stands to *)
(* its summary, its row in the vector, the events published about it, and  *)
(* what a client knows of it.                                              *)
(***************************************************************************)
EXTENDS ReadModels

\* What the future of a run holds in turn.
Summary(r, statuses) ==
  [id : {r}, params : AcceptedInputs, status : statuses,
   stats : {{}, {r}}, throughput : {{}, {r}}, started : 1..MaxClock, finished : BOOLEAN]

RunningSummary(r) ==
  {s \in Summary(r, [kind : {"running"}, completed : {0}]) :
     ~s.finished /\ s.stats = {} /\ s.throughput = {}}
EndedSummary(r) ==
  {s \in Summary(r, [kind : {"completed"}] \union [kind : {"failed"}, reason : {r}]) :
     /\ s.finished
     /\ s.status.kind = "completed" => s.stats = {r} /\ s.throughput = {r}
     /\ s.status.kind = "failed" => s.throughput = {}}

Announced(r) == stage[r] \in {"started", "reported", "recorded", "announced"}
Over(r)      == stage[r] \in {"recorded", "announced"}

\* The future of a run holds one summary, which is as far as the run is.
SummaryInv(r) ==
  /\ stage[r] \in {"stamped", "saved", "started", "reported"} => summary[r] \in RunningSummary(r)
  /\ Over(r) => summary[r] \in EndedSummary(r)

\* One row for each run that was saved, and it is the run's summary.
RowsInv ==
  /\ rows \in Seq({summary[r] : r \in Saved})
  /\ \A i, j \in DOMAIN rows : rows[i].id = rows[j].id => i = j
  /\ \A r \in Saved : \E i \in DOMAIN rows : rows[i].id = r

\* What may have been published about a run: its end only as the summary has it.
EventsOf(r) ==
  {[run |-> r, kind |-> "started", total |-> Total(r)],
   [run |-> r, kind |-> "progress", completed |-> Share(r), total |-> Total(r)]}
  \union {e \in {End(r)} : stage[r] = "announced"}

\* What was to be published by now was published.
LogInv(r) ==
  /\ Announced(r) => \E i \in DOMAIN log : log[i].run = r
  /\ stage[r] = "announced" => \E i \in DOMAIN log : log[i] = End(r)

\* The end of a run that was not over when a client asked came, or comes, after
\* the client had subscribed.
AskedInv(c) ==
  asked[c] # {} =>
    /\ state[c] = "open"
    /\ \A e \in DOMAIN log :
         log[e].run \in asked[c] /\ log[e].kind \in Endings => e > since[c]

\* The inductive invariant, to which that of the bus is added: Bus!IInv.
IInv ==
  /\ TypeOK
  /\ summary = [r \in Runs |-> summary[r]]
  /\ \A r \in Runs : SummaryInv(r) /\ LogInv(r)
  /\ RowsInv
  /\ log \in Seq(UNION {EventsOf(r) : r \in {q \in Runs : Announced(q)}})
  /\ \A c \in Clients : AskedInv(c)
=============================================================================
