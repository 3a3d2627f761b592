-------------------------- MODULE ReadModelsProofs --------------------------
(***************************************************************************)
(* Proofs about ReadModels, for any number of runs and clients, any size   *)
(* of the bus, any length of the list and any readings of the clock.       *)
(***************************************************************************)
EXTENDS ReadModelsInv, FiniteSetTheorems, TLAPS

-----------------------------------------------------------------------------
(* The bus: every step here is a step of the bus or leaves it alone, so    *)
(* that its invariant is one of the composition.                           *)

BusProofs == INSTANCE BroadcastEventSinkProofs WITH
               Subscribers <- Clients, MaxPublish <- 3 * Cardinality(Runs)

LEMMA BusAssumption == BusProofs!SinkAssumption
BY ReadModelsAssumption, FS_CardinalityType DEF BusProofs!SinkAssumption

LEMMA BusSteps == [Next]_vars => [BusProofs!Next]_(BusProofs!vars)
<1>. SUFFICES ASSUME [Next]_vars PROVE BusProofs!Next \/ UNCHANGED BusProofs!vars
  OBVIOUS
<1>1. CASE UNCHANGED vars
  BY <1>1 DEF vars, busVars, BusProofs!vars
<1>2. ASSUME NEW r \in Runs, RunStep(r) PROVE BusProofs!Next \/ UNCHANGED BusProofs!vars
  <2>1. CASE Refuse(r) \/ Stamp(r) \/ Save(r) \/ Record(r)
    BY <2>1 DEF Refuse, Stamp, Save, Record, busVars, BusProofs!vars
  <2>2. CASE AnnounceStart(r) \/ ReportProgress(r) \/ AnnounceEnd(r)
    BY <2>2 DEF AnnounceStart, ReportProgress, AnnounceEnd, Emit, Bus!Publish,
                BusProofs!Publish, BusProofs!Next
  <2>. QED
    BY <1>2, <2>1, <2>2 DEF RunStep
<1>3. ASSUME NEW c \in Clients, Listen(c) PROVE BusProofs!Next
  <2>1. BusProofs!Subscribe(c) \/ BusProofs!Deliver(c) \/ BusProofs!SkipLost(c)
    BY <1>3 DEF Listen, Bus!Subscribe, Bus!Deliver, Bus!SkipLost, Bus!Start, Bus!Oldest,
                Bus!Resume, BusProofs!Subscribe, BusProofs!Deliver, BusProofs!SkipLost,
                BusProofs!Start, BusProofs!Oldest, BusProofs!Resume
  <2>. QED
    BY <2>1 DEF BusProofs!Next
<1>4. ASSUME NEW c \in Clients, NEW r \in Runs, Ask(c, r) PROVE UNCHANGED BusProofs!vars
  BY <1>4 DEF Ask, busVars, BusProofs!vars
<1>. QED
  BY <1>1, <1>2, <1>3, <1>4 DEF Next

LEMMA SameBusInv == BusProofs!IInv => Bus!IInv
BY DEF Bus!IInv, Bus!TypeOK, Bus!ChannelInv, Bus!CursorInv, Bus!AccountedFor,
       Bus!InOrderSinceSubscribed, Bus!OnlyOverrunsAreLost,
       BusProofs!IInv, BusProofs!TypeOK, BusProofs!ChannelInv, BusProofs!CursorInv,
       BusProofs!AccountedFor, BusProofs!InOrderSinceSubscribed,
       BusProofs!OnlyOverrunsAreLost

LEMMA BusInvariance == Spec => []Bus!IInv
<1>1. Init => BusProofs!Init
  BY DEF Init, Bus!Init, BusProofs!Init
<1>2. BusProofs!Spec => []BusProofs!IInv
  BY BusProofs!Invariance, BusAssumption
<1>. QED
  BY <1>1, <1>2, BusSteps, SameBusInv, PTL DEF Spec, BusProofs!Spec

LEMMA ElementOfSeq ==
  ASSUME NEW S, NEW s \in Seq(S), NEW i \in DOMAIN s
  PROVE  s[i] \in S /\ i \in 1..Len(s) /\ Len(s) \in Nat
OBVIOUS

-----------------------------------------------------------------------------
(* The invariant.  Types follow from its other parts.                      *)

Stages == {"idle", "refused", "stamped", "saved", "started", "reported", "recorded",
           "announced"}

Events == UNION {EventsOf(r) : r \in {q \in Runs : Announced(q)}}

Core ==
  /\ stage \in [Runs -> Stages]
  /\ summary = [r \in Runs |-> summary[r]]
  /\ asked \in [Clients -> SUBSET Runs]
  /\ published = Len(log)
  /\ \A r \in Runs : SummaryInv(r) /\ LogInv(r)
  /\ RowsInv
  /\ log \in Seq(Events)
  /\ \A c \in Clients : AskedInv(c)

\* The summary of a run that has one.
LEMMA SummaryTyped ==
  ASSUME NEW r \in Runs, SummaryInv(r), stage[r] \in Stages \ {"idle", "refused"}
  PROVE  summary[r] \in RunningSummary(r) \union EndedSummary(r)
BY DEF SummaryInv, Stages, Over

LEMMA CoreTypes == Core /\ Bus!IInv => TypeOK
<1>. SUFFICES ASSUME Core, Bus!IInv PROVE TypeOK
  OBVIOUS
<1>1. ASSUME NEW i \in DOMAIN rows
      PROVE  /\ rows[i] \in [id : Runs, params : AcceptedInputs,
                       status : [kind : {"running"}, completed : {0}]
                         \union [kind : {"completed"}] \union [kind : {"failed"}, reason : Runs],
                       stats : SUBSET Runs, throughput : SUBSET Runs,
                       started : 1..MaxClock, finished : BOOLEAN]
             /\ Cardinality(rows[i].stats) <= 1 /\ Cardinality(rows[i].throughput) <= 1
  <2>1. PICK r \in Saved : rows[i] = summary[r]
    BY ElementOfSeq DEF Core, RowsInv
  <2>2. r \in Runs /\ stage[r] \in Stages \ {"idle", "refused"} /\ SummaryInv(r)
    BY DEF Saved, Core
  <2>3. summary[r] \in RunningSummary(r) \union EndedSummary(r)
    BY <2>2, SummaryTyped
  <2>4. summary[r].stats \in {{}, {r}} /\ summary[r].throughput \in {{}, {r}}
    BY <2>3 DEF RunningSummary, EndedSummary, Summary
  <2>5. Cardinality({}) <= 1 /\ Cardinality({r}) <= 1
    <3>1. Cardinality({}) = 0
      BY FS_EmptySet
    <3>2. Cardinality({r}) = 1
      BY FS_Singleton
    <3>. QED
      BY <3>1, <3>2
  <2>6. summary[r].status \in [kind : {"running"}, completed : {0}]
                 \union [kind : {"completed"}] \union [kind : {"failed"}, reason : Runs]
    BY <2>2, <2>3 DEF RunningSummary, EndedSummary, Summary
  <2>7. /\ summary[r] = [id |-> summary[r].id, params |-> summary[r].params,
                         status |-> summary[r].status, stats |-> summary[r].stats,
                         throughput |-> summary[r].throughput,
                         started |-> summary[r].started, finished |-> summary[r].finished]
        /\ summary[r].id = r /\ summary[r].params \in AcceptedInputs
        /\ summary[r].started \in 1..MaxClock /\ summary[r].finished \in BOOLEAN
    BY <2>3 DEF RunningSummary, EndedSummary, Summary
  <2>8. summary[r].stats \in SUBSET Runs /\ summary[r].throughput \in SUBSET Runs
    BY <2>2, <2>4
  <2>9. Cardinality(summary[r].stats) <= 1 /\ Cardinality(summary[r].throughput) <= 1
    BY <2>4, <2>5
  <2>10. summary[r] \in [id : Runs, params : AcceptedInputs,
                       status : [kind : {"running"}, completed : {0}]
                         \union [kind : {"completed"}] \union [kind : {"failed"}, reason : Runs],
                       stats : SUBSET Runs, throughput : SUBSET Runs,
                       started : 1..MaxClock, finished : BOOLEAN]
    BY <2>2, <2>6, <2>7, <2>8, Zenon
  <2>. QED
    BY <2>1, <2>9, <2>10, Zenon
<1>2. ASSUME NEW i \in DOMAIN log
      PROVE  log[i].run \in Runs /\ log[i].kind \in {"started", "progress"} \union Endings
  <2>1. PICK r \in Runs : Announced(r) /\ log[i] \in EventsOf(r)
    BY DEF Core, Events
  <2>. QED
    BY <2>1 DEF EventsOf, End, Endings
<1>. QED
  BY <1>1, <1>2 DEF TypeOK, Core, Bus!IInv, Stages

LEMMA CoreIsInv == Core /\ Bus!IInv => IInv
BY CoreTypes DEF Core, IInv, Events

LEMMA InitCore == Init => Core
<1>. SUFFICES ASSUME Init PROVE Core
  OBVIOUS
<1>. USE DEF Init, Repo!Init, Bus!Init
<1>1. \A r \in Runs : stage[r] = "idle"
  OBVIOUS
<1>2. \A r \in Runs : SummaryInv(r) /\ LogInv(r)
  BY <1>1 DEF SummaryInv, LogInv, Over, Announced
<1>3. RowsInv
  BY <1>1 DEF RowsInv, Saved
<1>4. \A c \in Clients : AskedInv(c)
  BY DEF AskedInv
<1>5. stage \in [Runs -> Stages] /\ summary = [r \in Runs |-> summary[r]]
  BY DEF Stages
<1>. QED
  BY <1>2, <1>3, <1>4, <1>5 DEF Core

-----------------------------------------------------------------------------
(* What the steps of a run have in common.                                 *)

LEMMA SeqMonotone ==
  ASSUME NEW S, NEW T, S \subseteq T, NEW s \in Seq(S)
  PROVE  s \in Seq(T)
OBVIOUS

LEMMA EventsGrow ==
  ASSUME \A q \in Runs : Announced(q) => Announced(q)' /\ EventsOf(q) \subseteq EventsOf(q)'
  PROVE  Events \subseteq Events'
BY DEF Events

\* One run goes from one stage to another.
LEMMA StageMoves ==
  ASSUME Core, NEW r \in Runs, NEW s \in Stages, Reach(r, s)
  PROVE  /\ stage' \in [Runs -> Stages]
         /\ stage'[r] = s
         /\ \A q \in Runs \ {r} : stage'[q] = stage[q]
         /\ \A q \in Runs \ {r} : /\ Announced(q)' <=> Announced(q)
                                  /\ Over(q)' <=> Over(q)
                                  /\ q \in Saved' <=> q \in Saved
BY DEF Core, Reach, Announced, Over, Saved

\* A step that publishes nothing, of a run before its announcement or of one that
\* keeps its total.
LEMMA NothingPublished ==
  ASSUME Core, NEW r \in Runs, NEW s \in Stages, Reach(r, s),
         UNCHANGED log, s # "announced", stage[r] # "announced",
         \A q \in Runs \ {r} : summary'[q] = summary[q],
         Announced(r)' <=> Announced(r),
         Announced(r) => Total(r)' = Total(r) /\ Share(r)' = Share(r)
  PROVE  log' \in Seq(Events') /\ \A q \in Runs : LogInv(q)'
<1>1. ASSUME NEW q \in Runs, Announced(q)
      PROVE  Announced(q)' /\ EventsOf(q) \subseteq EventsOf(q)'
  <2>1. CASE q = r
    <3>1. EventsOf(r) \subseteq {[run |-> r, kind |-> "started", total |-> Total(r)],
                       [run |-> r, kind |-> "progress", completed |-> Share(r), total |-> Total(r)]}
      BY DEF EventsOf
    <3>2. Total(r)' = Total(r) /\ Share(r)' = Share(r)
      BY <1>1, <2>1
    <3>. QED
      BY <1>1, <2>1, <3>1, <3>2 DEF EventsOf
  <2>2. CASE q # r
    BY <1>1, <2>2, StageMoves DEF EventsOf, Total, Share, End
  <2>. QED
    BY <2>1, <2>2
<1>2. Events \subseteq Events'
  BY <1>1, EventsGrow
<1>3. log' \in Seq(Events')
  BY <1>2, SeqMonotone DEF Core
<1>4. ASSUME NEW q \in Runs PROVE LogInv(q)'
  <2>1. CASE q = r
    BY <2>1, StageMoves DEF Core, LogInv
  <2>2. CASE q # r
    BY <2>2, StageMoves DEF Core, LogInv, End
  <2>. QED
    BY <2>1, <2>2
<1>. QED
  BY <1>3, <1>4

\* A step that publishes an event of the run.
LEMMA OnePublished ==
  ASSUME Core, Bus!IInv, NEW r \in Runs, NEW s \in Stages, Reach(r, s), NEW e, Emit(e),
         UNCHANGED <<summary, asked>>,
         stage[r] # "announced", Announced(r)', e \in EventsOf(r)', e.run = r,
         s = "announced" => e = End(r)
  PROVE  /\ log' \in Seq(Events') /\ published' = Len(log')
         /\ \A q \in Runs : LogInv(q)'
         /\ \A c \in Clients : AskedInv(c)'
<1>0. log' = Append(log, e) /\ published' = published + 1 /\ UNCHANGED <<state, since>>
  BY DEF Emit, Bus!Publish
<1>1. ASSUME NEW q \in Runs, Announced(q)
      PROVE  Announced(q)' /\ EventsOf(q) \subseteq EventsOf(q)'
  BY <1>1, StageMoves DEF EventsOf, Total, Share, End
<1>2. Events \subseteq Events' /\ e \in Events'
  <2>1. Events \subseteq Events'
    BY <1>1, EventsGrow
  <2>. QED
    BY <2>1 DEF Events
<1>3. log \in Seq(Events')
  BY <1>2, SeqMonotone DEF Core
<1>4. /\ log' \in Seq(Events') /\ Len(log') = Len(log) + 1
      /\ log'[Len(log) + 1] = e
      /\ \A i \in 1..Len(log) : log'[i] = log[i]
      /\ DOMAIN log = 1..Len(log) /\ DOMAIN log' = 1..(Len(log) + 1) /\ Len(log) \in Nat
  BY <1>0, <1>2, <1>3
<1>5. published' = Len(log')
  BY <1>0, <1>4 DEF Core
<1>6. ASSUME NEW q \in Runs PROVE LogInv(q)'
  <2>1. CASE q = r
    BY <2>1, <1>4, StageMoves DEF LogInv, End
  <2>2. CASE q # r
    <3>1. LogInv(q)
      BY DEF Core
    <3>. QED
      BY <2>2, <3>1, <1>4, StageMoves DEF LogInv, End
  <2>. QED
    BY <2>1, <2>2
<1>7. ASSUME NEW c \in Clients PROVE AskedInv(c)'
  <2>1. AskedInv(c) /\ since[c] \in Nat /\ since[c] <= published
    BY DEF Core, Bus!IInv, Bus!TypeOK
  <2>. QED
    BY <2>1, <1>0, <1>4 DEF AskedInv, Core
<1>. QED
  BY <1>4, <1>5, <1>6, <1>7

-----------------------------------------------------------------------------
(* What a query finds.                                                     *)

\* The summary of a run that was saved is the run's.
LEMMA SavedSummary ==
  ASSUME Core, NEW r \in Saved
  PROVE  /\ r \in Runs /\ summary[r].id = r
         /\ summary[r] \in RunningSummary(r) \union EndedSummary(r)
<1>1. r \in Runs /\ SummaryInv(r) /\ stage[r] \in Stages \ {"idle", "refused"}
  BY DEF Core, Saved, Stages
<1>. QED
  BY <1>1, SummaryTyped DEF RunningSummary, EndedSummary, Summary

LEMMA RowsAreSummaries ==
  ASSUME Core, NEW i \in DOMAIN rows
  PROVE  \E q \in Saved : rows[i] = summary[q] /\ rows[i].id = q
<1>1. PICK q \in Saved : rows[i] = summary[q]
  BY ElementOfSeq DEF Core, RowsInv
<1>. QED
  BY <1>1, SavedSummary

\* The row of a run is found, once it was saved.
LEMMA RowFound ==
  ASSUME Core, NEW r \in Runs
  PROVE  /\ r \in Saved => /\ Repo!Has(r) /\ Repo!Find(r) \in DOMAIN rows
                           /\ rows[Repo!Find(r)] = summary[r]
         /\ r \notin Saved => ~Repo!Has(r)
<1>1. \A i \in DOMAIN rows : \E q \in Saved : rows[i] = summary[q] /\ rows[i].id = q
  BY RowsAreSummaries
<1>2. ASSUME r \in Saved
      PROVE  /\ Repo!Has(r) /\ Repo!Find(r) \in DOMAIN rows /\ rows[Repo!Find(r)] = summary[r]
  <2>1. PICK i \in DOMAIN rows : rows[i].id = r
    BY <1>2 DEF Core, RowsInv
  <2>2. \A j \in 1..(i - 1) : j \in DOMAIN rows /\ j # i
    BY <2>1, ElementOfSeq DEF Core, RowsInv
  <2>3. rows[i].id = r /\ \A j \in 1..(i - 1) : rows[j].id # r
    BY <2>1, <2>2 DEF Core, RowsInv
  <2>4. Repo!Find(r) \in DOMAIN rows /\ rows[Repo!Find(r)].id = r
    BY <2>3 DEF Repo!Find
  <2>. QED
    BY <2>1, <2>4, <1>1 DEF Repo!Has
<1>3. ASSUME r \notin Saved PROVE ~Repo!Has(r)
  BY <1>1, <1>3 DEF Repo!Has
<1>. QED
  BY <1>2, <1>3

\* What the queries answer for a run, in terms of the run.
LEMMA Shown ==
  Core => \A r \in Runs :
            /\ r \in Saved => /\ Query(r) = {RunSummaryObject(summary[r])}
                              /\ StatusOf(r) = summary[r].status.kind
            /\ r \notin Saved => Query(r) = {} /\ StatusOf(r) = "absent"
<1>. SUFFICES ASSUME Core, NEW r \in Runs
              PROVE  /\ r \in Saved => /\ Query(r) = {RunSummaryObject(summary[r])}
                                       /\ StatusOf(r) = summary[r].status.kind
                     /\ r \notin Saved => Query(r) = {} /\ StatusOf(r) = "absent"
  OBVIOUS
<1>1. ASSUME r \in Saved
      PROVE  Query(r) = {RunSummaryObject(summary[r])} /\ StatusOf(r) = summary[r].status.kind
  <2>1. Repo!Get(r) = {summary[r]}
    BY <1>1, RowFound DEF Repo!Get
  <2>2. Query(r) = {RunSummaryObject(summary[r])}
    BY <2>1 DEF Query
  <2>3. PICK o : o = RunSummaryObject(summary[r])
    OBVIOUS
  <2>4. Query(r) # {} /\ (CHOOSE x \in Query(r) : TRUE) = o
    BY <2>2, <2>3
  <2>5. o.state = summary[r].status.kind
    BY <2>3 DEF RunSummaryObject
  <2>. QED
    BY <2>2, <2>4, <2>5 DEF StatusOf
<1>2. ASSUME r \notin Saved PROVE Query(r) = {} /\ StatusOf(r) = "absent"
  <2>1. Repo!Get(r) = {}
    BY <1>2, RowFound DEF Repo!Get
  <2>. QED
    BY <2>1 DEF Query, StatusOf
<1>. QED
  BY <1>1, <1>2

-----------------------------------------------------------------------------
(* One lemma per action.                                                   *)

\* The rows of the runs that were saved, when neither they nor the vector change.
LEMMA RowsStay ==
  ASSUME RowsInv, UNCHANGED rows, Saved' = Saved,
         \A q \in Saved : summary'[q] = summary[q]
  PROVE  RowsInv'
<1>1. {summary'[q] : q \in Saved'} = {summary[q] : q \in Saved}
  OBVIOUS
<1>. QED
  BY <1>1 DEF RowsInv

LEMMA RefuseStep ==
  ASSUME Core, NEW r \in Runs, Refuse(r)
  PROVE  Core'
<1>1. stage[r] = "idle" /\ Reach(r, "refused") /\ "refused" \in Stages
      /\ UNCHANGED <<summary, rows, log, published, state, since, asked>>
  BY DEF Refuse, busVars, Stages
<1>2. stage'[r] = "refused" /\ Saved' = Saved
  BY <1>1, StageMoves DEF Saved
<1>3. log' \in Seq(Events') /\ \A q \in Runs : LogInv(q)'
  BY <1>1, <1>2, NothingPublished DEF Announced
<1>4. \A q \in Runs : SummaryInv(q)'
  BY <1>1, <1>2, StageMoves DEF Core, SummaryInv, Over
<1>5. RowsInv'
  BY <1>1, <1>2, RowsStay DEF Core
<1>6. \A c \in Clients : AskedInv(c)'
  BY <1>1 DEF Core, AskedInv
<1>. QED
  BY <1>1, <1>3, <1>4, <1>5, <1>6, StageMoves DEF Core

LEMMA StampStep ==
  ASSUME Core, NEW r \in Runs, Stamp(r)
  PROVE  Core'
<1>1. stage[r] = "idle" /\ Reach(r, "stamped") /\ "stamped" \in Stages
      /\ UNCHANGED <<rows, log, published, state, since, asked>>
  BY DEF Stamp, busVars, Stages
<1>2. PICK input \in AcceptedInputs, clock \in 1..MaxClock :
        summary' = [summary EXCEPT ![r] =
          [id |-> r, params |-> input, status |-> [kind |-> "running", completed |-> 0],
           stats |-> {}, throughput |-> {}, started |-> clock, finished |-> FALSE]]
  BY DEF Stamp
<1>3. summary' = [q \in Runs |-> summary'[q]] /\ \A q \in Runs \ {r} : summary'[q] = summary[q]
  BY <1>2 DEF Core
<1>4. summary'[r] \in RunningSummary(r)
  <2>1. summary'[r] = [id |-> r, params |-> input,
                       status |-> [kind |-> "running", completed |-> 0],
                       stats |-> {}, throughput |-> {}, started |-> clock, finished |-> FALSE]
    BY <1>2 DEF Core
  <2>. QED
    BY <2>1 DEF RunningSummary, Summary
<1>5. stage'[r] = "stamped" /\ Saved' = Saved /\ r \notin Saved
  BY <1>1, StageMoves DEF Saved
<1>6. log' \in Seq(Events') /\ \A q \in Runs : LogInv(q)'
  BY <1>1, <1>3, <1>5, NothingPublished DEF Announced
<1>7. \A q \in Runs : SummaryInv(q)'
  BY <1>1, <1>3, <1>4, <1>5, StageMoves DEF Core, SummaryInv, Over, RunningSummary, EndedSummary, Summary
<1>8. RowsInv'
  BY <1>1, <1>3, <1>5, RowsStay DEF Core, Saved
<1>9. \A c \in Clients : AskedInv(c)'
  BY <1>1 DEF Core, AskedInv
<1>. QED
  BY <1>1, <1>3, <1>6, <1>7, <1>8, <1>9, StageMoves DEF Core

LEMMA SaveStep ==
  ASSUME Core, NEW r \in Runs, Save(r)
  PROVE  Core'
<1>1. stage[r] = "stamped" /\ Reach(r, "saved") /\ "saved" \in Stages
      /\ UNCHANGED <<summary, log, published, state, since, asked>>
      /\ rows' = Append(rows, summary[r])
  BY DEF Save, Repo!Save, busVars, Stages
<1>2. stage'[r] = "saved" /\ Saved' = Saved \union {r} /\ r \notin Saved
  BY <1>1, StageMoves DEF Saved
<1>3. log' \in Seq(Events') /\ \A q \in Runs : LogInv(q)'
  BY <1>1, <1>2, NothingPublished DEF Announced
<1>4. \A q \in Runs : SummaryInv(q)'
  BY <1>1, <1>2, StageMoves DEF Core, SummaryInv, Over
<1>5. RowsInv'
  <2>1. /\ rows \in Seq({summary[q] : q \in Saved})
        /\ \A i, j \in DOMAIN rows : rows[i].id = rows[j].id => i = j
        /\ \A q \in Saved : \E i \in DOMAIN rows : rows[i].id = q
    BY DEF Core, RowsInv
  <2>2. \A q \in Saved \union {r} : summary[q].id = q
    <3>1. SummaryInv(r) /\ stage[r] \in Stages \ {"idle", "refused"}
      BY <1>1 DEF Core, Stages
    <3>2. summary[r].id = r
      BY <3>1, SummaryTyped DEF RunningSummary, EndedSummary, Summary
    <3>. QED
      BY <3>2, SavedSummary
  <2>3. rows \in Seq({summary[q] : q \in Saved \union {r}})
    BY <2>1, SeqMonotone
  <2>4. /\ rows' \in Seq({summary[q] : q \in Saved \union {r}})
        /\ rows'[Len(rows) + 1] = summary[r]
        /\ \A i \in 1..Len(rows) : rows'[i] = rows[i]
        /\ DOMAIN rows = 1..Len(rows) /\ DOMAIN rows' = 1..(Len(rows) + 1) /\ Len(rows) \in Nat
    BY <1>1, <2>3
  <2>5. {summary'[q] : q \in Saved'} = {summary[q] : q \in Saved \union {r}}
    BY <1>1, <1>2
  <2>6. \A i \in 1..Len(rows) : rows[i].id \in Saved
    BY <2>1, <2>2, <2>4, ElementOfSeq
  <2>7. \A i, j \in DOMAIN rows' : rows'[i].id = rows'[j].id => i = j
    BY <1>2, <2>1, <2>2, <2>4, <2>6
  <2>8. \A q \in Saved' : \E i \in DOMAIN rows' : rows'[i].id = q
    BY <1>2, <2>1, <2>2, <2>4
  <2>. QED
    BY <2>4, <2>5, <2>7, <2>8 DEF RowsInv
<1>6. \A c \in Clients : AskedInv(c)'
  BY <1>1 DEF Core, AskedInv
<1>. QED
  BY <1>1, <1>3, <1>4, <1>5, <1>6, StageMoves DEF Core

LEMMA AnnounceStep ==
  ASSUME Core, Bus!IInv, NEW r \in Runs,
         AnnounceStart(r) \/ ReportProgress(r) \/ AnnounceEnd(r)
  PROVE  Core'
<1>. DEFINE Goal(s, e) ==
       /\ Reach(r, s) /\ Emit(e) /\ UNCHANGED <<summary, asked>>
       /\ stage[r] # "announced" /\ Announced(r)' /\ e \in EventsOf(r)' /\ e.run = r
       /\ s = "announced" => e = End(r)
<1>1. /\ UNCHANGED <<summary, rows, asked>>
      /\ \E s \in {"started", "reported", "announced"} :
           /\ Reach(r, s) /\ stage[r] \in {"saved", "started", "recorded"}
           /\ s = "announced" <=> stage[r] = "recorded"
           /\ \E e : Goal(s, e)
  <2>1. CASE AnnounceStart(r)
    <3>1. stage[r] = "saved" /\ Reach(r, "started") /\ UNCHANGED <<summary, rows, asked>>
      BY <2>1 DEF AnnounceStart
    <3>2. Announced(r)'
      BY <3>1, StageMoves DEF Announced, Stages
    <3>3. PICK e : e = [run |-> r, kind |-> "started", total |-> Total(r)]
      OBVIOUS
    <3>4. Emit(e) /\ e \in EventsOf(r)' /\ e.run = r
      BY <2>1, <3>1, <3>3 DEF AnnounceStart, EventsOf, Total
    <3>. QED
      BY <3>1, <3>2, <3>4
  <2>2. CASE ReportProgress(r)
    <3>1. stage[r] = "started" /\ Reach(r, "reported") /\ UNCHANGED <<summary, rows, asked>>
      BY <2>2 DEF ReportProgress
    <3>2. Announced(r)'
      BY <3>1, StageMoves DEF Announced, Stages
    <3>3. PICK e : e = [run |-> r, kind |-> "progress", completed |-> Share(r), total |-> Total(r)]
      OBVIOUS
    <3>4. Emit(e) /\ e \in EventsOf(r)' /\ e.run = r
      BY <2>2, <3>1, <3>3 DEF ReportProgress, EventsOf, Total, Share
    <3>. QED
      BY <3>1, <3>2, <3>4
  <2>3. CASE AnnounceEnd(r)
    <3>1. stage[r] = "recorded" /\ Reach(r, "announced") /\ UNCHANGED <<summary, rows, asked>>
      BY <2>3 DEF AnnounceEnd
    <3>2. Announced(r)' /\ stage'[r] = "announced"
      BY <3>1, StageMoves DEF Announced, Stages
    <3>3. PICK e : e = End(r)
      OBVIOUS
    <3>4. Emit(e) /\ e.run = r
      BY <2>3, <3>3 DEF AnnounceEnd, End
    <3>5. e \in EventsOf(r)'
      BY <3>1, <3>2, <3>3 DEF EventsOf, End
    <3>. QED
      BY <3>1, <3>2, <3>3, <3>4, <3>5
  <2>. QED
    BY <2>1, <2>2, <2>3
<1>2. PICK s \in {"started", "reported", "announced"} :
        /\ Reach(r, s) /\ stage[r] \in {"saved", "started", "recorded"}
        /\ s = "announced" <=> stage[r] = "recorded"
        /\ \E e : Goal(s, e)
  BY <1>1
<1>3. s \in Stages
  BY DEF Stages
<1>4. PICK e : Goal(s, e)
  BY <1>2
<1>5. /\ log' \in Seq(Events') /\ published' = Len(log')
      /\ \A q \in Runs : LogInv(q)'
      /\ \A c \in Clients : AskedInv(c)'
  BY <1>3, <1>4, OnePublished
<1>6. stage'[r] = s /\ Saved' = Saved
  BY <1>2, <1>3, StageMoves DEF Saved
<1>7. \A q \in Runs : SummaryInv(q)'
  BY <1>1, <1>2, <1>3, <1>6, StageMoves DEF Core, SummaryInv, Over
<1>8. RowsInv'
  BY <1>1, <1>6, RowsStay DEF Core
<1>. QED
  BY <1>1, <1>2, <1>3, <1>5, <1>7, <1>8, StageMoves DEF Core

LEMMA RecordStep ==
  ASSUME Core, NEW r \in Runs, Record(r)
  PROVE  Core'
<1>1. stage[r] \in {"started", "reported"} /\ Reach(r, "recorded") /\ "recorded" \in Stages
      /\ UNCHANGED <<log, published, state, since, asked>>
  BY DEF Record, busVars, Stages
<1>2. PICK s \in {Completed(r), Failed(r, {}), Failed(r, {r})} :
        summary' = [summary EXCEPT ![r] = s] /\ Repo!Update(s)
  BY DEF Record
<1>3. r \in Saved /\ summary[r] \in RunningSummary(r)
  BY <1>1 DEF Saved, Core, SummaryInv
<1>4. s \in EndedSummary(r) /\ s.id = r /\ s.params = summary[r].params
  <2>1. PICK p \in AcceptedInputs, clock \in 1..MaxClock :
          summary[r] = [id |-> r, params |-> p,
                        status |-> [kind |-> "running", completed |-> 0],
                        stats |-> {}, throughput |-> {}, started |-> clock,
                        finished |-> FALSE]
    BY <1>3 DEF RunningSummary, Summary
  <2>2. CASE s = Completed(r)
    <3>1. s = [id |-> r, params |-> p, status |-> [kind |-> "completed"],
               stats |-> {r}, throughput |-> {r}, started |-> clock, finished |-> TRUE]
      <4>1. s = [[id |-> r, params |-> p, status |-> [kind |-> "running", completed |-> 0],
                  stats |-> {}, throughput |-> {}, started |-> clock, finished |-> FALSE]
                 EXCEPT !.status = [kind |-> "completed"], !.finished = TRUE,
                        !.stats = {r}, !.throughput = {r}]
        BY <2>1, <2>2, Zenon DEF Completed
      <4>. QED
        BY <4>1
    <3>. QED
      BY <2>1, <3>1 DEF EndedSummary, Summary
  <2>3. ASSUME NEW x \in {{}, {r}}, s = Failed(r, x)
        PROVE  s \in EndedSummary(r) /\ s.id = r /\ s.params = summary[r].params
    <3>1. s = [id |-> r, params |-> p, status |-> [kind |-> "failed", reason |-> r],
               stats |-> x, throughput |-> {}, started |-> clock, finished |-> TRUE]
      <4>1. s = [[id |-> r, params |-> p, status |-> [kind |-> "running", completed |-> 0],
                  stats |-> {}, throughput |-> {}, started |-> clock, finished |-> FALSE]
                 EXCEPT !.status = [kind |-> "failed", reason |-> r], !.finished = TRUE,
                        !.stats = x]
        BY <2>1, <2>3, Zenon DEF Failed
      <4>. QED
        BY <4>1
    <3>. QED
      BY <2>1, <2>3, <3>1 DEF EndedSummary, Summary
  <2>. QED
    BY <1>2, <2>2, <2>3
<1>5. /\ summary' = [q \in Runs |-> summary'[q]] /\ summary'[r] = s
      /\ \A q \in Runs \ {r} : summary'[q] = summary[q]
  BY <1>2 DEF Core
<1>6. stage'[r] = "recorded" /\ Saved' = Saved
  BY <1>1, StageMoves DEF Saved
<1>7. log' \in Seq(Events') /\ \A q \in Runs : LogInv(q)'
  <2>1. Total(r)' = Total(r) /\ Share(r)' = Share(r)
    BY <1>4, <1>5 DEF Total, Share
  <2>. QED
    BY <1>1, <1>5, <1>6, <2>1, NothingPublished DEF Announced
<1>8. \A q \in Runs : SummaryInv(q)'
  BY <1>1, <1>4, <1>5, <1>6, StageMoves
     DEF Core, SummaryInv, Over, RunningSummary, EndedSummary, Summary
<1>9. RowsInv'
  <2>. DEFINE k == Repo!Find(r)
  <2>1. k \in DOMAIN rows /\ rows[k] = summary[r] /\ summary[r].id = r
    BY <1>3, RowFound, SavedSummary
  <2>2. rows' = [rows EXCEPT ![k] = s]
    BY <1>2, <1>3, <1>4, RowFound DEF Repo!Update
  <2>3. \A i \in DOMAIN rows : \E q \in Saved : rows[i] = summary[q] /\ rows[i].id = q
    BY RowsAreSummaries
  <2>4. /\ DOMAIN rows' = DOMAIN rows /\ rows'[k] = s
        /\ \A i \in DOMAIN rows \ {k} : rows'[i] = rows[i]
    BY <2>1, <2>2
  <2>5. \A i \in DOMAIN rows : rows'[i].id = rows[i].id
    BY <1>4, <2>1, <2>4
  <2>6. \A i \in DOMAIN rows : rows'[i] \in {summary'[q] : q \in Saved'}
    <3>. TAKE i \in DOMAIN rows
    <3>1. CASE i = k
      BY <3>1, <2>4, <1>3, <1>5, <1>6
    <3>2. CASE i # k
      <4>1. PICK q \in Saved : rows[i] = summary[q] /\ rows[i].id = q
        BY <2>3
      <4>2. q # r
        BY <3>2, <4>1, <2>1 DEF Core, RowsInv
      <4>. QED
        BY <3>2, <4>1, <4>2, <2>4, <1>5, <1>6 DEF Saved
    <3>. QED
      BY <3>1, <3>2
  <2>7. rows' \in Seq({summary'[q] : q \in Saved'})
    <3>1. rows \in Seq({summary[q] : q \in Saved})
      BY DEF Core, RowsInv
    <3>2. DOMAIN rows = 1..Len(rows) /\ Len(rows) \in Nat
      BY <3>1
    <3>3. rows' \in [1..Len(rows) -> {summary'[q] : q \in Saved'}]
      BY <2>2, <2>4, <2>6, <3>2
    <3>. QED
      BY <3>2, <3>3
  <2>8. \A i, j \in DOMAIN rows' : rows'[i].id = rows'[j].id => i = j
    BY <2>4, <2>5 DEF Core, RowsInv
  <2>9. \A q \in Saved' : \E i \in DOMAIN rows' : rows'[i].id = q
    BY <1>6, <2>4, <2>5 DEF Core, RowsInv
  <2>. QED
    BY <2>7, <2>8, <2>9 DEF RowsInv
<1>10. \A c \in Clients : AskedInv(c)'
  BY <1>1 DEF Core, AskedInv
<1>. QED
  BY <1>1, <1>5, <1>7, <1>8, <1>9, <1>10, StageMoves DEF Core

\* A client does not disturb the runs.
LEMMA RunsUndisturbed ==
  ASSUME Core, UNCHANGED <<stage, summary, rows, log>>
  PROVE  /\ stage' \in [Runs -> Stages] /\ summary' = [r \in Runs |-> summary'[r]]
         /\ \A r \in Runs : SummaryInv(r)' /\ LogInv(r)'
         /\ RowsInv' /\ log' \in Seq(Events')
<1>1. \A r \in Runs : EventsOf(r)' = EventsOf(r) /\ (Announced(r)' <=> Announced(r))
  BY DEF EventsOf, Announced, Total, Share, End
<1>2. Events' = Events
  BY <1>1 DEF Events
<1>3. \A r \in Runs : SummaryInv(r)' /\ LogInv(r)'
  BY DEF Core, SummaryInv, LogInv, Over, Announced, End
<1>4. RowsInv'
  BY RowsStay DEF Core, Saved
<1>. QED
  BY <1>2, <1>3, <1>4 DEF Core

LEMMA ListenStep ==
  ASSUME Core, Bus!IInv, NEW c \in Clients, Listen(c)
  PROVE  Core'
<1>1. UNCHANGED <<stage, summary, rows, log, asked, published>>
  BY DEF Listen, Bus!Subscribe, Bus!Deliver, Bus!SkipLost
<1>2. ASSUME NEW d \in Clients PROVE AskedInv(d)'
  <2>1. asked'[d] = asked[d] /\ AskedInv(d)
    BY <1>1 DEF Core
  <2>2. CASE asked[d] = {}
    BY <2>1, <2>2 DEF AskedInv
  <2>3. CASE asked[d] # {}
    <3>1. state[d] = "open"
      BY <2>1, <2>3 DEF AskedInv
    <3>2. state'[d] = state[d] /\ since'[d] = since[d]
      BY <3>1 DEF Listen, Bus!Subscribe, Bus!Deliver, Bus!SkipLost, Bus!IInv, Bus!TypeOK
    <3>. QED
      BY <2>1, <3>2, <1>1 DEF AskedInv
  <2>. QED
    BY <2>2, <2>3
<1>. QED
  BY <1>1, <1>2, RunsUndisturbed DEF Core

\* Only of a run whose end has not been announced does a client go on to wait.
LEMMA AskStep ==
  ASSUME Core, NEW c \in Clients, NEW r \in Runs, Ask(c, r)
  PROVE  Core'
<1>1. /\ UNCHANGED <<stage, summary, rows, log, published, state, since>>
      /\ state[c] = "open" /\ asked' = [asked EXCEPT ![c] = {r}]
  BY DEF Ask, busVars
<1>2. stage[r] # "announced"
  <2>1. SUFFICES ASSUME stage[r] = "announced" PROVE FALSE
    OBVIOUS
  <2>2. r \in Saved /\ summary[r] \in EndedSummary(r)
    BY <2>1 DEF Saved, Core, SummaryInv, Over
  <2>3. StatusOf(r) = summary[r].status.kind
    BY <2>2, Shown
  <2>4. summary[r].status.kind \in Endings
    BY <2>2 DEF EndedSummary, Summary, Endings
  <2>. QED
    BY <2>3, <2>4 DEF Ask
<1>3. \A e \in DOMAIN log : log[e].run = r => log[e].kind \notin Endings
  <2>. TAKE e \in DOMAIN log
  <2>1. PICK q \in Runs : Announced(q) /\ log[e] \in EventsOf(q)
    BY ElementOfSeq DEF Core, Events
  <2>2. log[e].run = q
    BY <2>1 DEF EventsOf, End
  <2>. QED
    BY <2>1, <2>2, <1>2 DEF EventsOf, Endings
<1>4. ASSUME NEW d \in Clients PROVE AskedInv(d)'
  <2>1. CASE d = c
    BY <2>1, <1>1, <1>3 DEF AskedInv, Core
  <2>2. CASE d # c
    BY <2>2, <1>1 DEF AskedInv, Core
  <2>. QED
    BY <2>1, <2>2
<1>. QED
  BY <1>1, <1>4, RunsUndisturbed DEF Core

-----------------------------------------------------------------------------
LEMMA StepKeepsCore == Core /\ Bus!IInv /\ [Next]_vars => Core'
<1>. SUFFICES ASSUME Core, Bus!IInv, [Next]_vars PROVE Core'
  OBVIOUS
<1>1. ASSUME NEW r \in Runs, RunStep(r) PROVE Core'
  BY <1>1, RefuseStep, StampStep, SaveStep, AnnounceStep, RecordStep DEF RunStep
<1>2. CASE UNCHANGED vars
  <2>1. UNCHANGED <<stage, summary, rows, log, asked, published, state, since>>
    BY <1>2 DEF vars, busVars
  <2>2. \A c \in Clients : AskedInv(c)'
    BY <2>1 DEF AskedInv, Core
  <2>. QED
    BY <2>1, <2>2, RunsUndisturbed DEF Core
<1>. QED
  BY <1>1, <1>2, ListenStep, AskStep DEF Next

\* For any number of runs and clients, the invariant holds: what the vector, the
\* event log and the runs hold agree, and what a client knows of a run it asked
\* about is still to be completed by its stream.
THEOREM Invariance == Spec => []IInv
<1>1. Init => Core
  BY InitCore
<1>. QED
  BY <1>1, StepKeepsCore, CoreIsInv, BusInvariance, PTL DEF Spec

LEMMA CoreInvariance == Spec => [](Core /\ Bus!IInv)
BY InitCore, StepKeepsCore, BusInvariance, PTL DEF Spec

-----------------------------------------------------------------------------
(* What a client may rely on.                                              *)

LEMMA SeenByInv == Core /\ Bus!IInv => SeenCanBeQueried
<1>. SUFFICES ASSUME Core, Bus!IInv PROVE SeenCanBeQueried
  OBVIOUS
<1>. DEFINE Agrees(e) ==
             \E o \in Query(e.run_id) :
               /\ e.total # {} => e.total = {o.total_requests}
               /\ e.kind \in Endings =>
                    /\ o.state = e.kind /\ o.finished
                    /\ o.failure_reason = e.failure_reason
                    /\ o.throughput = e.throughput /\ e.stats \subseteq o.stats
<1>1. ASSUME NEW c \in Clients, NEW i \in DOMAIN got[c]
      PROVE  Agrees(RunEventObject(log[got[c][i]]))
  <2>0. PICK e : e = RunEventObject(log[got[c][i]])
    OBVIOUS
  <2>. SUFFICES Agrees(e)
    BY <2>0
  <2>1. got[c][i] \in DOMAIN log
    <3>1. got[c] \in Seq(Nat) /\ since[c] \in Nat /\ published = Len(log)
      BY DEF Core, Bus!IInv, Bus!TypeOK
    <3>2. Bus!InOrderSinceSubscribed /\ i \in 1..Len(got[c])
      BY <3>1 DEF Bus!IInv
    <3>4. got[c][i] \in (since[c] + 1)..published
      BY <3>2 DEF Bus!InOrderSinceSubscribed
    <3>3. DOMAIN log = 1..Len(log) /\ Len(log) \in Nat
      BY DEF Core
    <3>. QED
      BY <3>1, <3>3, <3>4
  <2>2. PICK x : x = log[got[c][i]]
    OBVIOUS
  <2>3. PICK r \in Runs : Announced(r) /\ x \in EventsOf(r)
    BY <2>1, <2>2, ElementOfSeq DEF Core, Events
  <2>4. e = RunEventObject(x) /\ x.run = r /\ e.run_id = r
    BY <2>0, <2>2, <2>3 DEF EventsOf, End, RunEventObject
  <2>5. r \in Saved
    BY <2>3 DEF Announced, Saved
  <2>6. PICK m : m = summary[r]
    OBVIOUS
  <2>7. PICK o : o = RunSummaryObject(m)
    OBVIOUS
  <2>8. Query(e.run_id) = {o}
    BY <2>4, <2>5, <2>6, <2>7, Shown
  <2>9. CASE x = [run |-> r, kind |-> "started", total |-> Total(r)]
             \/ x = [run |-> r, kind |-> "progress", completed |-> Share(r), total |-> Total(r)]
    <3>1. e.total = {Total(r)} /\ e.kind \notin Endings
      BY <2>4, <2>9 DEF RunEventObject, Endings
    <3>2. o.total_requests = Total(r)
      BY <2>6, <2>7 DEF RunSummaryObject, Total
    <3>. QED
      BY <2>8, <3>1, <3>2
  <2>10. CASE stage[r] = "announced" /\ x = End(r)
    <3>1. m \in EndedSummary(r)
      BY <2>6, <2>10 DEF Core, SummaryInv, Over
    <3>2. CASE m.status.kind = "completed"
      <4>1. x = [run |-> r, kind |-> "completed", stats |-> r, throughput |-> r]
        BY <2>6, <2>10, <3>2 DEF End
      <4>2. /\ e.total = {} /\ e.kind = "completed" /\ e.stats = {r}
            /\ e.throughput = {r} /\ e.failure_reason = {}
        BY <2>4, <4>1 DEF RunEventObject
      <4>3. /\ o.state = "completed" /\ o.failure_reason = {}
            /\ o.stats = {r} /\ o.throughput = {r} /\ o.finished
        BY <2>7, <3>1, <3>2 DEF RunSummaryObject, EndedSummary
      <4>. QED
        BY <2>8, <4>2, <4>3
    <3>3. CASE m.status.kind # "completed"
      <4>1. x = [run |-> r, kind |-> "failed", reason |-> r]
        BY <2>6, <2>10, <3>3 DEF End
      <4>2. /\ e.total = {} /\ e.kind = "failed" /\ e.stats = {}
            /\ e.throughput = {} /\ e.failure_reason = {r}
        BY <2>4, <4>1 DEF RunEventObject
      <4>3. m.status.kind = "failed" /\ m.status.reason = r
        BY <3>1, <3>3 DEF EndedSummary, Summary
      <4>4. o.state = "failed" /\ o.failure_reason = {r} /\ o.throughput = {} /\ o.finished
        BY <2>7, <3>1, <4>3 DEF RunSummaryObject, EndedSummary
      <4>. QED
        BY <2>8, <4>2, <4>4
    <3>. QED
      BY <3>2, <3>3
  <2>. QED
    BY <2>3, <2>9, <2>10 DEF EventsOf
<1>2. ASSUME NEW r \in Runs, stage[r] = "announced" PROVE Query(r) = {Answer(r)}
  BY <1>2, Shown DEF Saved, Answer
<1>. QED
  BY <1>1, <1>2 DEF SeenCanBeQueried

\* A client that learns of a run from its stream, however late, is shown a run that
\* agrees with what it learned: the queries and the stream, which the code keeps in
\* two places, tell one story.
THEOREM SeenAgrees == Spec => []SeenCanBeQueried
BY CoreInvariance, SeenByInv, PTL

LEMMA NothingMissedByInv == Core /\ Bus!IInv => NoEndIsMissed
<1>. SUFFICES ASSUME Core, Bus!IInv,
                     NEW c \in Clients, NEW e \in DOMAIN log,
                     state[c] = "open", log[e].run \in asked[c], log[e].kind \in Endings
              PROVE  \/ \E i \in DOMAIN got[c] : got[c][i] = e
                     \/ \E p \in next[c]..Len(channel) : channel[p] = e
                     \/ e + Slots <= published
  BY DEF NoEndIsMissed
<1>1. e > since[c]
  BY DEF Core, AskedInv
<1>2. e \in 1..published /\ published \in Nat /\ since[c] \in Nat /\ got[c] \in Seq(Nat)
  BY DEF Core, Bus!IInv, Bus!TypeOK
<1>3. e \in (since[c] + 1)..published
  BY <1>1, <1>2
<1>4. Bus!AccountedFor(c)
  BY DEF Bus!IInv
<1>5. DOMAIN got[c] = 1..Len(got[c])
  BY <1>2
<1>. QED
  BY <1>3, <1>4, <1>5 DEF Bus!AccountedFor

\* Subscribing first and asking then is enough: a client that does so gets the end
\* of the run, unless it is overrun.
THEOREM EndReaches == Spec => []NoEndIsMissed
BY CoreInvariance, NothingMissedByInv, PTL

-----------------------------------------------------------------------------
(* The lifecycle of a run, seen through the adapters.                      *)

\* The status and the news of a run, in terms of the run.
StateOf(r) == IF r \in Saved THEN summary[r].status.kind ELSE "absent"
NewsOf(r) == IF ~Announced(r) THEN "none"
             ELSE IF stage[r] = "announced" THEN summary[r].status.kind
             ELSE "started"

LEMMA NewsShown ==
  Core => \A r \in Runs : LastNews(r) = NewsOf(r)
<1>. SUFFICES ASSUME Core, NEW r \in Runs PROVE LastNews(r) = NewsOf(r)
  OBVIOUS
<1>. USE DEF NewsOf
<1>. DEFINE mine == {j \in DOMAIN log : log[j].run = r}
            news == {log[i].kind : i \in mine}
<1>1. LastNews(r) = IF news = {} THEN "none"
                    ELSE IF news \intersect Endings # {} THEN CHOOSE k \in news : k \in Endings
                    ELSE "started"
  BY DEF LastNews
<1>2. ASSUME NEW i \in mine PROVE Announced(r) /\ log[i] \in EventsOf(r)
  <2>1. PICK q \in Runs : Announced(q) /\ log[i] \in EventsOf(q)
    BY ElementOfSeq DEF Core, Events
  <2>2. log[i].run = q
    BY <2>1 DEF EventsOf, End
  <2>. QED
    BY <2>1, <2>2
<1>3. CASE ~Announced(r)
  BY <1>1, <1>2, <1>3
<1>4. CASE Announced(r)
  <2>1. mine # {}
    BY <1>4 DEF Core, LogInv
  <2>2. CASE stage[r] # "announced"
    <3>1. \A i \in mine : log[i].kind \notin Endings
      BY <1>2, <2>2 DEF EventsOf, Endings
    <3>. QED
      BY <1>1, <1>4, <2>1, <2>2, <3>1
  <2>3. CASE stage[r] = "announced"
    <3>. DEFINE kind == summary[r].status.kind
    <3>1. kind \in Endings
      BY <2>3 DEF Core, SummaryInv, Over, EndedSummary, Summary, Endings
    <3>2. End(r).kind = kind /\ End(r).run = r
      BY <3>1 DEF End, Endings
    <3>3. \A k \in news : k \in Endings => k = kind
      BY <1>2, <3>2 DEF EventsOf, Endings
    <3>4. kind \in news
      <4>1. PICK i \in DOMAIN log : log[i] = End(r)
        BY <2>3 DEF Core, LogInv
      <4>2. i \in mine /\ log[i].kind = kind
        BY <4>1, <3>2
      <4>. QED
        BY <4>2
    <3>. HIDE DEF news, kind
    <3>5. (CHOOSE k \in news : k \in Endings) = kind
      BY <3>1, <3>3, <3>4
    <3>. QED
      BY <1>1, <1>4, <2>3, <3>1, <3>4, <3>5 DEF kind
  <2>. QED
    BY <2>2, <2>3
<1>. QED
  BY <1>3, <1>4

st == [r \in Runs |-> StateOf(r)]
nw == [r \in Runs |-> NewsOf(r)]

LEMMA LifecycleShown == Core => Lifecycle!vars = <<st, nw>>
<1>. SUFFICES ASSUME Core PROVE Lifecycle!vars = <<st, nw>>
  OBVIOUS
<1>1. \A r \in Runs : StatusOf(r) = StateOf(r)
  BY Shown DEF StateOf
<1>2. \A r \in Runs : LastNews(r) = NewsOf(r)
  BY NewsShown
<1>. QED
  BY <1>1, <1>2 DEF Lifecycle!vars, st, nw

\* What a step of a run does to the state and the news shown of the others.
LEMMA OthersShown ==
  ASSUME Core, NEW r \in Runs, RunStep(r), NEW q \in Runs \ {r}
  PROVE  StateOf(q)' = StateOf(q) /\ NewsOf(q)' = NewsOf(q)
<1>1. summary'[q] = summary[q] /\ stage'[q] = stage[q]
  BY DEF RunStep, Refuse, Stamp, Save, AnnounceStart, ReportProgress, Record, AnnounceEnd,
         Reach, Core
<1>. QED
  BY <1>1 DEF StateOf, NewsOf, Saved, Announced

LEMMA LifecycleStep ==
  ASSUME Core, Core', [Next]_vars
  PROVE  [Lifecycle!Next]_(Lifecycle!vars)
<1>1. Lifecycle!vars = <<st, nw>>
  BY LifecycleShown
<1>2. (Lifecycle!vars)' = <<st, nw>>'
  <2>1. (Core => Lifecycle!vars = <<st, nw>>)'
    BY LifecycleShown, PTL
  <2>. QED
    BY <2>1
<1>3. /\ [r \in Runs |-> StatusOf(r)] = st /\ [r \in Runs |-> LastNews(r)] = nw
      /\ [r \in Runs |-> StatusOf(r)]' = st' /\ [r \in Runs |-> LastNews(r)]' = nw'
  BY <1>1, <1>2 DEF Lifecycle!vars
<1>4. ASSUME st' = st, nw' = nw PROVE UNCHANGED Lifecycle!vars
  BY <1>1, <1>2, <1>4
<1>5. CASE UNCHANGED <<stage, summary>>
  <2>1. st' = st /\ nw' = nw
    BY <1>5 DEF st, nw, StateOf, NewsOf, Saved, Announced
  <2>. QED
    BY <1>4, <2>1
<1>6. ASSUME NEW r \in Runs, RunStep(r)
      PROVE  [Lifecycle!Next]_(Lifecycle!vars)
  <2>1. \A q \in Runs \ {r} : StateOf(q)' = StateOf(q) /\ NewsOf(q)' = NewsOf(q)
    BY <1>6, OthersShown
  <2>2. /\ st' = [st EXCEPT ![r] = StateOf(r)'] /\ st[r] = StateOf(r)
        /\ nw' = [nw EXCEPT ![r] = NewsOf(r)'] /\ nw[r] = NewsOf(r)
    BY <2>1 DEF st, nw
  <2>3. ASSUME StateOf(r)' = StateOf(r), NewsOf(r)' = NewsOf(r)
        PROVE  [Lifecycle!Next]_(Lifecycle!vars)
    <3>1. st' = st /\ nw' = nw
      BY <2>1, <2>3 DEF st, nw
    <3>. QED
      BY <1>4, <3>1
  <2>. USE DEF Reach
  <2>4. stage \in [Runs -> Stages] /\ summary = [q \in Runs |-> summary[q]]
    BY DEF Core
  <2>5. CASE Refuse(r) \/ Stamp(r)
    <3>1. /\ stage[r] = "idle" /\ stage'[r] \in {"refused", "stamped"}
      BY <2>4, <2>5 DEF Refuse, Stamp
    <3>. QED
      BY <2>3, <3>1 DEF StateOf, NewsOf, Saved, Announced
  <2>6. CASE Save(r)
    <3>1. stage[r] = "stamped" /\ stage'[r] = "saved" /\ summary' = summary
      BY <2>4, <2>6 DEF Save
    <3>2. summary[r].status.kind = "running"
      BY <3>1 DEF Core, SummaryInv, RunningSummary, Summary
    <3>3. /\ StateOf(r) = "absent" /\ StateOf(r)' = "running"
          /\ NewsOf(r)' = NewsOf(r)
      BY <3>1, <3>2 DEF StateOf, NewsOf, Saved, Announced
    <3>4. nw' = nw
      BY <2>1, <3>3 DEF nw
    <3>5. Lifecycle!Accept(r)
      BY <1>3, <2>2, <3>3, <3>4 DEF Lifecycle!Accept
    <3>. QED
      BY <3>5 DEF Lifecycle!Next
  <2>7. CASE AnnounceStart(r)
    <3>1. stage[r] = "saved" /\ stage'[r] = "started" /\ summary' = summary
      BY <2>4, <2>7 DEF AnnounceStart
    <3>2. summary[r].status.kind = "running"
      BY <3>1 DEF Core, SummaryInv, RunningSummary, Summary
    <3>3. /\ StateOf(r) = "running" /\ StateOf(r)' = StateOf(r)
          /\ NewsOf(r) = "none" /\ NewsOf(r)' = "started"
      BY <3>1, <3>2 DEF StateOf, NewsOf, Saved, Announced
    <3>4. st' = st
      BY <2>1, <3>3 DEF st
    <3>5. Lifecycle!AnnounceStart(r)
      BY <1>3, <2>2, <3>3, <3>4 DEF Lifecycle!AnnounceStart
    <3>. QED
      BY <3>5 DEF Lifecycle!Next, Lifecycle!Advance
  <2>8. CASE ReportProgress(r)
    <3>1. stage[r] = "started" /\ stage'[r] = "reported" /\ summary' = summary
      BY <2>4, <2>8 DEF ReportProgress
    <3>. QED
      BY <2>3, <3>1 DEF StateOf, NewsOf, Saved, Announced
  <2>9. CASE Record(r)
    <3>1. stage[r] \in {"started", "reported"} /\ stage'[r] = "recorded"
      BY <2>4, <2>9 DEF Record
    <3>2. summary[r].status.kind = "running"
      BY <3>1 DEF Core, SummaryInv, RunningSummary, Summary
    <3>3. summary'[r].status.kind \in Endings
      BY <3>1 DEF Core, SummaryInv, Over, EndedSummary, Summary, Endings
    <3>4. /\ StateOf(r) = "running" /\ StateOf(r)' \in Endings
          /\ NewsOf(r) = "started" /\ NewsOf(r)' = NewsOf(r)
      BY <3>1, <3>2, <3>3 DEF StateOf, NewsOf, Saved, Announced
    <3>5. nw' = nw
      BY <2>1, <3>4 DEF nw
    <3>6. Lifecycle!Finish(r)
      BY <1>3, <2>2, <3>4, <3>5 DEF Lifecycle!Finish, Lifecycle!Endings, Endings
    <3>. QED
      BY <3>6 DEF Lifecycle!Next, Lifecycle!Advance
  <2>10. CASE AnnounceEnd(r)
    <3>1. stage[r] = "recorded" /\ stage'[r] = "announced" /\ summary' = summary
      BY <2>4, <2>10 DEF AnnounceEnd
    <3>2. summary[r].status.kind \in Endings
      BY <3>1 DEF Core, SummaryInv, Over, EndedSummary, Summary, Endings
    <3>3. /\ StateOf(r) \in Endings /\ StateOf(r)' = StateOf(r)
          /\ NewsOf(r) = "started" /\ NewsOf(r)' = StateOf(r)
      BY <3>1, <3>2 DEF StateOf, NewsOf, Saved, Announced
    <3>4. st' = st
      BY <2>1, <3>3 DEF st
    <3>5. Lifecycle!AnnounceEnd(r)
      BY <1>3, <2>2, <3>3, <3>4 DEF Lifecycle!AnnounceEnd, Lifecycle!Endings, Endings
    <3>. QED
      BY <3>5 DEF Lifecycle!Next, Lifecycle!Advance
  <2>. QED
    BY <1>6, <2>5, <2>6, <2>7, <2>8, <2>9, <2>10 DEF RunStep
<1>7. ASSUME NEW c \in Clients, Listen(c) \/ \E r \in Runs : Ask(c, r)
      PROVE  UNCHANGED <<stage, summary>>
  BY <1>7 DEF Listen, Ask
<1>8. UNCHANGED vars => UNCHANGED <<stage, summary>>
  BY DEF vars
<1>. QED
  BY <1>5, <1>6, <1>7, <1>8 DEF Next

\* Seen through the vector and the event log, every run goes the way RunLifecycle
\* says, for any interleaving of any runs and clients.
THEOREM Refinement == Spec => ImplementsLifecycle
<1>1. Init => Lifecycle!Init
  <2>. SUFFICES ASSUME Init PROVE Lifecycle!Init
    OBVIOUS
  <2>1. Core
    BY InitCore
  <2>2. \A r \in Runs : stage[r] = "idle"
    BY DEF Init
  <2>3. \A r \in Runs : StateOf(r) = "absent" /\ NewsOf(r) = "none"
    BY <2>2 DEF StateOf, NewsOf, Saved, Announced
  <2>4. Lifecycle!vars = <<st, nw>>
    BY <2>1, LifecycleShown
  <2>. QED
    BY <2>3, <2>4 DEF Lifecycle!Init, Lifecycle!vars, st, nw
<1>2. Core /\ Core' /\ [Next]_vars => [Lifecycle!Next]_(Lifecycle!vars)
  BY LifecycleStep
<1>. QED
  BY <1>1, <1>2, CoreInvariance, PTL DEF Spec, ImplementsLifecycle, Lifecycle!Spec

-----------------------------------------------------------------------------
(* The list of recent runs.  The rank by which it is sorted is a           *)
(* permutation of the vector: that is shown of any vector of readings.     *)

\* The rows that come before row i in the list.
Before(i) == {j \in DOMAIN rows : \/ rows[j].started > rows[i].started
                                  \/ rows[j].started = rows[i].started /\ j < i}

\* Where row k of the list comes from.
Order(k) == CHOOSE i \in DOMAIN rows : Repo!Rank(i) = k

Readings ==
  /\ Len(rows) \in Nat /\ DOMAIN rows = 1..Len(rows)
  /\ \A i \in DOMAIN rows : rows[i].started \in Int

\* The repository counts as everyone does.
LEMMA SameCardinality == ASSUME NEW S PROVE Repo!Cardinality(S) = Cardinality(S)
BY DEF Repo!Cardinality, Cardinality

LEMMA RankInRange ==
  ASSUME Readings, NEW i \in DOMAIN rows
  PROVE  /\ IsFiniteSet(Before(i)) /\ Repo!Rank(i) = 1 + Cardinality(Before(i))
         /\ Repo!Rank(i) \in 1..Len(rows)
<1>1. IsFiniteSet(1..Len(rows)) /\ Cardinality(1..Len(rows)) = Len(rows)
  <2>1. Len(rows) \in Nat
    BY DEF Readings
  <2>2. /\ IsFiniteSet(1..Len(rows))
        /\ Cardinality(1..Len(rows)) = IF 1 > Len(rows) THEN 0 ELSE Len(rows) - 1 + 1
    BY <2>1, FS_Interval, 1 \in Int, Len(rows) \in Int
  <2>. QED
    BY <2>1, <2>2
<1>2. /\ IsFiniteSet(1..Len(rows) \ {i})
      /\ Cardinality(1..Len(rows) \ {i}) = Len(rows) - 1
  <2>1. i \in 1..Len(rows)
    BY DEF Readings
  <2>. QED
    BY <1>1, <2>1, FS_RemoveElement
<1>3. Before(i) \in SUBSET (1..Len(rows) \ {i})
  BY DEF Readings, Before
<1>4. /\ IsFiniteSet(Before(i)) /\ Cardinality(Before(i)) \in Nat
      /\ Cardinality(Before(i)) <= Len(rows) - 1
  BY <1>2, <1>3, FS_Subset, FS_CardinalityType
<1>5. Repo!Rank(i) = 1 + Cardinality(Before(i))
  BY SameCardinality DEF Repo!Rank, Before
<1>. QED
  BY <1>4, <1>5 DEF Readings

\* Of two rows one comes before the other, and it has the smaller rank.
LEMMA RankOrders ==
  ASSUME Readings, NEW i \in DOMAIN rows, NEW j \in DOMAIN rows
  PROVE  /\ j \in Before(i) => Repo!Rank(j) < Repo!Rank(i)
         /\ i # j => i \in Before(j) \/ j \in Before(i)
<1>1. ASSUME j \in Before(i) PROVE Repo!Rank(j) < Repo!Rank(i)
  <2>1. Before(j) \in SUBSET Before(i) /\ j \notin Before(j)
    BY <1>1 DEF Before, Readings
  <2>2. Cardinality(Before(j)) <= Cardinality(Before(i)) /\ Cardinality(Before(j)) # Cardinality(Before(i))
    BY <1>1, <2>1, RankInRange, FS_Subset
  <2>. QED
    <3>1. Cardinality(Before(i)) \in Nat /\ Cardinality(Before(j)) \in Nat
      BY RankInRange, FS_CardinalityType
    <3>2. /\ Repo!Rank(i) = 1 + Cardinality(Before(i))
          /\ Repo!Rank(j) = 1 + Cardinality(Before(j))
      BY RankInRange
    <3>. QED
      BY <2>2, <3>1, <3>2
<1>2. i # j => i \in Before(j) \/ j \in Before(i)
  BY DEF Before, Readings
<1>. QED
  BY <1>1, <1>2

\* Every row has its place in the list, and every place its row.
LEMMA OrderIsPermutation ==
  ASSUME Readings
  PROVE  /\ \A k \in 1..Len(rows) : Order(k) \in DOMAIN rows /\ Repo!Rank(Order(k)) = k
         /\ \A i \in DOMAIN rows : Repo!Rank(i) \in 1..Len(rows) /\ Order(Repo!Rank(i)) = i
<1>. DEFINE D == 1..Len(rows)
            f == [i \in D |-> Repo!Rank(i)]
<1>1. D = DOMAIN rows /\ IsFiniteSet(D)
  BY FS_Interval DEF Readings
<1>2. \A i, j \in D : Repo!Rank(i) = Repo!Rank(j) => i = j
  <2>. SUFFICES ASSUME NEW i \in D, NEW j \in D, i # j PROVE Repo!Rank(i) # Repo!Rank(j)
    OBVIOUS
  <2>1. Repo!Rank(i) \in 1..Len(rows) /\ Repo!Rank(j) \in 1..Len(rows)
    BY <1>1, RankInRange
  <2>2. Repo!Rank(i) < Repo!Rank(j) \/ Repo!Rank(j) < Repo!Rank(i)
    BY <1>1, RankOrders
  <2>. QED
    BY <2>1, <2>2 DEF Readings
<1>3. f \in Injection(D, D)
  BY <1>1, <1>2, RankInRange DEF Injection, IsInjective
<1>4. f \in Surjection(D, D)
  BY <1>1, <1>3, FS_Injection
<1>5. \A k \in D : \E i \in D : Repo!Rank(i) = k
  BY <1>4 DEF Surjection
<1>6. \A k \in D : Order(k) \in D /\ Repo!Rank(Order(k)) = k
  BY <1>1, <1>5 DEF Order
<1>7. ASSUME NEW i \in D PROVE Repo!Rank(i) \in D /\ Order(Repo!Rank(i)) = i
  BY <1>1, <1>2, <1>6, RankInRange
<1>. QED
  BY <1>1, <1>6, <1>7

\* Earlier places in the list have later starts.
LEMMA OrderIsDescending ==
  ASSUME Readings, NEW k \in 1..Len(rows), NEW l \in 1..Len(rows), k < l
  PROVE  rows[Order(k)].started >= rows[Order(l)].started
<1>1. /\ Order(k) \in DOMAIN rows /\ Repo!Rank(Order(k)) = k
      /\ Order(l) \in DOMAIN rows /\ Repo!Rank(Order(l)) = l
  BY OrderIsPermutation
<1>2. Order(l) \notin Before(Order(k))
  BY <1>1, RankOrders
<1>. QED
  BY <1>1, <1>2 DEF Before, Readings

\* The vector as the composition fills it.
LEMMA RowsReadings ==
  ASSUME Core
  PROVE  Readings /\ \A r \in Saved : summary[r].started \in 1..MaxClock
<1>1. \A r \in Saved : summary[r].started \in 1..MaxClock
  BY SavedSummary DEF RunningSummary, EndedSummary, Summary
<1>2. \A i \in DOMAIN rows : rows[i].started \in Int
  BY <1>1, RowsAreSummaries
<1>3. Len(rows) \in Nat /\ DOMAIN rows = 1..Len(rows)
  BY DEF Core, RowsInv
<1>. QED
  BY <1>1, <1>2, <1>3 DEF Readings

\* There are as many rows as runs that were saved.
LEMMA OneRowPerRun ==
  ASSUME Core
  PROVE  Cardinality(Saved) = Len(rows)
<1>. DEFINE D == 1..Len(rows)
            f == [i \in D |-> rows[i].id]
<1>1. Len(rows) \in Nat /\ DOMAIN rows = D
  BY RowsReadings DEF Readings
<1>2. IsFiniteSet(D) /\ Cardinality(D) = Len(rows)
  <2>1. IsFiniteSet(D) /\ Cardinality(D) = IF 1 > Len(rows) THEN 0 ELSE Len(rows) - 1 + 1
    BY <1>1, FS_Interval, 1 \in Int, Len(rows) \in Int
  <2>. QED
    BY <1>1, <2>1
<1>3. f \in [D -> Saved]
  BY <1>1, RowsAreSummaries
<1>4. f \in Surjection(D, Saved)
  BY <1>1, <1>3 DEF Surjection, Core, RowsInv
<1>5. f \in Injection(D, Saved)
  BY <1>1, <1>3 DEF Injection, IsInjective, Core, RowsInv
<1>. HIDE DEF f
<1>6. Cardinality(Saved) = Cardinality(D)
  BY <1>2, <1>4, <1>5, FS_Surjection
<1>. QED
  BY <1>2, <1>6

\* A list of m runs with pairwise different ids names m of them.
LEMMA DistinctIds ==
  ASSUME NEW m \in Nat, NEW S, NEW f \in Injection(1..m, S),
         NEW T, T = {f[i] : i \in 1..m}
  PROVE  Cardinality(T) = m
<1>1. IsFiniteSet(1..m) /\ Cardinality(1..m) = m
  <2>1. IsFiniteSet(1..m) /\ Cardinality(1..m) = IF 1 > m THEN 0 ELSE m - 1 + 1
    BY FS_Interval, 1 \in Int, m \in Int
  <2>. QED
    BY <2>1
<1>2. f \in Injection(1..m, T) /\ f \in Surjection(1..m, T)
  BY DEF Injection, Surjection, IsInjective
<1>. QED
  BY <1>1, <1>2, FS_Surjection

LEMMA RecentByInv == Core => RecentIsNewestFirst
<1>. SUFFICES ASSUME Core, NEW longest \in 1..PageMax, NEW limit \in 0..(longest + 1)
              PROVE  LET list == RecentRuns(limit, longest)
                         listed == {list[i].id : i \in DOMAIN list}
                         size == Cardinality({k \in 1..Cardinality(Saved) :
                                                k <= longest /\ (k <= limit \/ k = 1)})
                     IN  /\ Len(list) = size /\ Cardinality(listed) = size
                         /\ \A i \in DOMAIN list :
                              /\ list[i] = RunSummaryObject(summary[list[i].id])
                              /\ \A j \in 1..(i - 1) : list[j].started_at >= list[i].started_at
                              /\ \A r \in Saved \ listed :
                                   summary[r].started <= list[i].started_at
  BY DEF RecentIsNewestFirst
<1>1. Clamped(limit, longest) \in Nat \ {0}
  BY ReadModelsAssumption DEF Clamped
<1>2. Readings
  BY RowsReadings
<1>3. PICK n \in Nat : n = Len(rows)
  BY <1>2 DEF Readings
<1>4. PICK m \in Nat : m = IF Clamped(limit, longest) < n THEN Clamped(limit, longest) ELSE n
  BY <1>1
<1>5. m <= n
  BY <1>1, <1>4
<1>6. DOMAIN rows = 1..n /\ \A k \in 1..n : Order(k) \in 1..n /\ Repo!Rank(Order(k)) = k
  BY <1>2, <1>3, OrderIsPermutation DEF Readings
<1>. DEFINE Id(k) == rows[Order(k)].id
<1>7. \A k \in 1..n : /\ Id(k) \in Saved
                      /\ rows[Order(k)] = summary[Id(k)]
  BY <1>6, RowsAreSummaries
<1>8. \A k, l \in 1..n : Id(k) = Id(l) => k = l
  BY <1>6 DEF Core, RowsInv
<1>9. Repo!ListRecent(Clamped(limit, longest)) = [k \in 1..m |-> rows[Order(k)]]
  <2>1. Repo!Sorted = [k \in 1..n |-> rows[Order(k)]]
    BY <1>6 DEF Repo!Sorted, Order
  <2>2. Repo!ListRecent(Clamped(limit, longest)) = SubSeq(Repo!Sorted, 1, m)
    BY <1>3, <1>4 DEF Repo!ListRecent
  <2>. QED
    BY <1>5, <2>1, <2>2
<1>10. PICK list : list = RecentRuns(limit, longest)
  OBVIOUS
<1>11. list = [k \in 1..m |-> RunSummaryObject(summary[Id(k)])]
  BY <1>5, <1>7, <1>9, <1>10 DEF RecentRuns
<1>12. /\ DOMAIN list = 1..m /\ Len(list) = m
       /\ \A k \in 1..m : /\ list[k].id = Id(k)
                          /\ list[k] = RunSummaryObject(summary[list[k].id])
                          /\ list[k].started_at = rows[Order(k)].started
  <2>1. DOMAIN list = 1..m /\ Len(list) = m
    BY <1>11
  <2>2. ASSUME NEW k \in 1..m
        PROVE  /\ list[k].id = Id(k)
               /\ list[k] = RunSummaryObject(summary[list[k].id])
               /\ list[k].started_at = rows[Order(k)].started
    <3>1. k \in 1..n
      BY <1>5
    <3>2. Id(k) \in Saved /\ rows[Order(k)] = summary[Id(k)]
      BY <1>7, <3>1
    <3>3. summary[Id(k)].id = Id(k)
      BY <3>2, SavedSummary
    <3>. HIDE DEF Id
    <3>4. list[k] = RunSummaryObject(summary[Id(k)])
      BY <1>11
    <3>5. list[k].id = Id(k) /\ list[k].started_at = summary[Id(k)].started
      BY <3>3, <3>4 DEF RunSummaryObject
    <3>. QED
      BY <3>2, <3>4, <3>5
  <2>. QED
    BY <2>1, <2>2
<1>13. PICK listed : listed = {list[i].id : i \in DOMAIN list}
  OBVIOUS
<1>14. Cardinality(listed) = m
  <2>. DEFINE f == [k \in 1..m |-> Id(k)]
  <2>1. f \in Injection(1..m, Saved)
    BY <1>5, <1>7, <1>8 DEF Injection, IsInjective
  <2>2. listed = {f[k] : k \in 1..m}
    BY <1>12, <1>13
  <2>. HIDE DEF f
  <2>. QED
    BY <2>1, <2>2, DistinctIds
<1>15. \A i \in 1..m : \A j \in 1..(i - 1) : list[j].started_at >= list[i].started_at
  BY <1>2, <1>3, <1>5, <1>12, OrderIsDescending
<1>16. ASSUME NEW i \in 1..m, NEW r \in Saved \ listed
       PROVE  summary[r].started <= list[i].started_at
  <2>1. PICK a \in 1..n : rows[a].id = r
    BY <1>6 DEF Core, RowsInv
  <2>2. PICK k \in 1..n : Order(k) = a
    BY <1>2, <1>3, <1>6, <2>1, OrderIsPermutation
  <2>3. Id(k) = r /\ rows[Order(k)].started = summary[r].started
    BY <1>7, <2>1, <2>2
  <2>4. k \notin 1..m
    BY <1>12, <1>13, <2>3
  <2>5. rows[Order(i)].started >= rows[Order(k)].started
    BY <1>2, <1>3, <1>5, <2>4, OrderIsDescending
  <2>6. summary[r].started \in Int /\ rows[Order(i)].started \in Int
    <3>1. Order(i) \in DOMAIN rows /\ Order(k) \in DOMAIN rows
      BY <1>5, <1>6
    <3>. QED
      BY <1>2, <2>3, <3>1 DEF Readings
  <2>. QED
    BY <1>12, <2>3, <2>5, <2>6
<1>17. Cardinality(Saved) = n
  BY <1>3, OneRowPerRun
<1>18. Cardinality({k \in 1..Cardinality(Saved) : k <= longest /\ (k <= limit \/ k = 1)}) = m
  <2>1. {k \in 1..Cardinality(Saved) : k <= longest /\ (k <= limit \/ k = 1)} = 1..m
    BY <1>4, <1>17, ReadModelsAssumption DEF Clamped
  <2>2. Cardinality(1..m) = IF 1 > m THEN 0 ELSE m - 1 + 1
    BY FS_Interval, 1 \in Int, m \in Int
  <2>3. Cardinality(1..m) = m
    BY <2>2
  <2>. QED
    BY <2>1, <2>3
<1>. QED
  BY <1>10, <1>12, <1>13, <1>14, <1>15, <1>16, <1>18

\* Every list of recent runs has each run once, newest first and none older than
\* one left out, in whatever order the runs were saved and however often the clock
\* was set back.
THEOREM RecentNewestFirst == Spec => []RecentIsNewestFirst
BY CoreInvariance, RecentByInv, PTL

=============================================================================
