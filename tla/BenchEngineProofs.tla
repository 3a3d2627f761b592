-------------------------- MODULE BenchEngineProofs --------------------------
(***************************************************************************)
(* Proofs about BenchEngine, for every value of its constants.             *)
(***************************************************************************)
EXTENDS BenchEngineInv, FiniteSetTheorems, TLAPS

-----------------------------------------------------------------------------
(* Types                                                                   *)

LEMMA ConstantTypes ==
  /\ Connections \in Nat /\ Connections >= 1
  /\ Requests \in Nat /\ Requests >= 1
  /\ MaxAttempts \in Nat /\ MaxAttempts >= 1
  BY EngineAssumption DEF MaxAttempts

LEMMA RowType ==
  ASSUME NEW s \in {"absent", "running"} \union Endings,
         NEW f \in FailureReason \union {"none"},
         NEW c \in Nat, NEW n \in Nat, NEW t \in Nat
  PROVE  Row(s, f, c, n, t) \in RunSummary
  BY DEF Row, RunSummary

LEMMA EventType ==
  ASSUME NEW k \in {"started", "progress"} \union Endings, NEW c \in Nat,
         NEW f \in FailureReason \union {"none"}
  PROVE  Event(k, c, f) \in RunEvent
  BY DEF Event, RunEvent

LEMMA TotalNat == Total \in Nat
  BY ConstantTypes DEF Total

LEMMA TypeInit == Init => TypeOK
<1> SUFFICES ASSUME Init PROVE TypeOK
  OBVIOUS
<1>1. NoRow \in RunSummary
  BY RowType DEF NoRow
<1> QED
  BY <1>1, ConstantTypes DEF Init, TypeOK, RunLabel, TaskLabel

LEMMA OutcomeType ==
  ASSUME TypeOK, NEW r \in Runs
  PROVE  Outcome(r) \in RunSummary
<1>1. /\ firstErr[r] \in FailureReason \union {"none"}
      /\ merged[r] \in Nat
      /\ completed[r] \in Nat
  BY DEF TypeOK
<1>2. CASE firstErr[r] # "none"
  BY <1>1, <1>2, RowType DEF Outcome, Endings
<1>3. CASE firstErr[r] = "none" /\ merged[r] = 0
  BY <1>1, <1>3, RowType DEF Outcome, Endings, FailureReason
<1>4. CASE firstErr[r] = "none" /\ merged[r] # 0
  <2>1. Outcome(r) = Row("completed", "none", 0, merged[r], completed[r])
    BY <1>4 DEF Outcome
  <2> QED
    BY <1>1, <2>1, RowType DEF Endings
<1> QED
  BY <1>2, <1>3, <1>4

LEMMA EndEventType ==
  ASSUME NEW o \in RunSummary
  PROVE  EndEvent(o) \in RunEvent
<1>1. Event("completed", o.stats, "none") \in RunEvent
  BY EventType DEF RunSummary, Endings
<1>2. Event("failed", 0, o.reason) \in RunEvent
  BY EventType DEF RunSummary, Endings
<1> QED
  BY <1>1, <1>2 DEF EndEvent

\* What a step of a task can be: the timeout of an attempt is one way for it to
\* fail.
LEMMA WorkerCases ==
  ASSUME NEW r \in Runs, NEW w \in Workers, WorkerAction(r, w)
  PROVE  \/ Connect(r, w) \/ ConnectFails(r, w)
         \/ RoundTrip(r, w) \/ CountRoundTrip(r, w) \/ FailRoundTrip(r, w)
         \/ LoadCompleted(r, w) \/ ReportProgress(r, w) \/ Panic(r, w)
<1>1. AttemptFails(r, w, "timeout") => ConnectFails(r, w)
  BY DEF ConnectFails, ConnectError
<1> QED
  BY <1>1 DEF WorkerAction, WorkerStep, OwnStep, AnswerStep, TimeOut

\* Publishing an event of the right type keeps the feeds well typed.
LEMMA PublishType ==
  ASSUME TypeOK, NEW r \in Runs, NEW e \in RunEvent, Publish(r, e)
  PROVE  feed' \in [Runs -> Seq(RunEvent)]
<1>1. feed \in [Runs -> Seq(RunEvent)]
  BY DEF TypeOK
<1>2. Append(feed[r], e) \in Seq(RunEvent)
  BY <1>1
<1> QED
  BY <1>1, <1>2 DEF Publish

LEMMA AttemptsReset ==
  ASSUME TypeOK, NEW r \in Runs, NEW w \in Workers, LeaveRetry(r, w)
  PROVE  attempts' \in [Runs -> [Workers -> 0..(MaxAttempts - 1)]]
<1>1. 0 \in 0..(MaxAttempts - 1)
  BY ConstantTypes
<1> QED
  BY <1>1 DEF TypeOK, LeaveRetry

LEMMA TypeStep ==
  ASSUME IInv, [Next]_vars
  PROVE  TypeOK'
<1> USE ConstantTypes DEF runVars, workerVars
<1>0. TypeOK /\ \A r \in Runs : RunInv(r)
  BY DEF IInv
<1>1. ASSUME NEW r \in Runs, SaveFails(r) \/ DropRun(r) \/ RecordFails(r)
      PROVE  TypeOK'
  BY <1>0, <1>1 DEF TypeOK, Goto, RunLabel, SaveFails, DropRun, RecordFails
<1>2. ASSUME NEW r \in Runs, Save(r)
      PROVE  TypeOK'
  <2>1. Row("running", "none", 0, 0, 0) \in RunSummary
    BY RowType
  <2> QED
    BY <1>0, <1>2, <2>1 DEF TypeOK, Goto, RunLabel, Save
<1>3. ASSUME NEW r \in Runs, AnnounceStart(r)
      PROVE  TypeOK'
  <2>1. feed' \in [Runs -> Seq(RunEvent)]
    BY <1>0, <1>3, TotalNat, EventType, PublishType DEF AnnounceStart
  <2> QED
    BY <1>0, <1>3, <2>1 DEF TypeOK, Goto, RunLabel, AnnounceStart
<1>9. ASSUME NEW r \in Runs, Start(r)
      PROVE  TypeOK'
  <2>1. wst' \in [Runs -> [Workers -> TaskLabel]]
    BY <1>0, <1>9 DEF Start, TypeOK, TaskLabel
  <2>2. metrics' \in [runs : Nat, completed : Nat, failed : Nat, requests : Nat]
    <3>1. /\ metrics.runs + 1 \in Nat /\ metrics.requests \in Nat
          /\ metrics.completed \in Nat /\ metrics.failed \in Nat
      BY <1>0 DEF TypeOK
    <3>2. metrics' = [metrics EXCEPT !.runs = metrics.runs + 1]
      BY <1>9 DEF Start
    <3> QED
      BY <1>0, <3>1, <3>2 DEF TypeOK
  <2> QED
    BY <1>0, <1>9, <2>1, <2>2 DEF TypeOK, Goto, RunLabel, Start
<1>4. ASSUME NEW r \in Runs, JoinNext(r)
      PROVE  TypeOK'
  <2> DEFINE w == joined[r] + 1
  <2>1. w \in Workers /\ result[r][w] \in FailureReason \union {"pending", "ok"}
    <3>1. joined[r] \in 0..Connections /\ joined[r] < Connections
      BY <1>0, <1>4 DEF JoinNext, RunInv, ControlInv, TypeOK
    <3>2. w \in Workers
      BY <3>1 DEF Workers
    <3> QED
      BY <1>0, <3>2 DEF TypeOK
  <2>2. joined' \in [Runs -> 0..Connections]
    <3>1. w \in 0..Connections
      BY <2>1 DEF Workers
    <3> QED
      BY <1>0, <1>4, <3>1 DEF JoinNext, TypeOK
  <2>3. merged' \in [Runs -> Nat]
    BY <1>0, <1>4, <2>1 DEF JoinNext, TypeOK
  <2>4. firstErr' \in [Runs -> FailureReason \union {"none"}]
    BY <1>0, <1>4, <2>1 DEF JoinNext, TypeOK, FirstError, FailureReason
  <2>5. pc' \in [Runs -> RunLabel]
    BY <1>0, <1>4 DEF JoinNext, TypeOK, Goto, RunLabel
  <2> QED
    BY <1>0, <1>4, <2>2, <2>3, <2>4, <2>5 DEF TypeOK, JoinNext
<1>5. ASSUME NEW r \in Runs, RecordOutcome(r)
      PROVE  TypeOK'
  BY <1>0, <1>5, OutcomeType DEF TypeOK, Goto, RunLabel, RecordOutcome
<1>6. ASSUME NEW r \in Runs, Announce(r)
      PROVE  TypeOK'
  <2>1. row[r] \in RunSummary
    BY <1>0 DEF TypeOK
  <2>2. feed' \in [Runs -> Seq(RunEvent)]
    BY <1>0, <1>6, <2>1, EndEventType, PublishType DEF Announce
  <2> QED
    BY <1>0, <1>6, <2>2 DEF TypeOK, Goto, RunLabel, Announce
<1>10. ASSUME NEW r \in Runs, CountEnding(r)
       PROVE  TypeOK'
  <2>1. metrics' \in [runs : Nat, completed : Nat, failed : Nat, requests : Nat]
    <3>1. /\ metrics.runs \in Nat /\ metrics.requests \in Nat
          /\ metrics.completed \in Nat /\ metrics.completed + 1 \in Nat
          /\ metrics.failed \in Nat /\ metrics.failed + 1 \in Nat
      BY <1>0 DEF TypeOK
    <3> QED
      BY <1>0, <1>10, <3>1 DEF TypeOK, CountEnding
  <2> QED
    BY <1>0, <1>10, <2>1 DEF TypeOK, Goto, RunLabel, CountEnding
<1>7. ASSUME NEW r \in Runs, NEW w \in Workers, WorkerAction(r, w)
      PROVE  TypeOK'
  <2> USE <1>0 DEF Return, Release
  <2>1. CASE Connect(r, w)
    BY <2>1, AttemptsReset DEF TypeOK, TaskLabel, Connect
  <2>2. ASSUME NEW e \in ConnectError, RetryConnect(r, w, e)
        PROVE  TypeOK'
    <3>1. attempts[r][w] + 1 \in 0..(MaxAttempts - 1)
      BY <2>2, ConstantTypes DEF TypeOK, RetryConnect, MayRetry
    <3> QED
      BY <2>2, <3>1 DEF TypeOK, RetryConnect
  <2>3. ASSUME NEW e \in ConnectError, GiveUp(r, w, e)
        PROVE  TypeOK'
    <3>1. attempts' \in [Runs -> [Workers -> 0..(MaxAttempts - 1)]]
      BY <2>3, AttemptsReset DEF TypeOK, GiveUp
    <3>2. ConnectFailure(e) \in FailureReason
      BY DEF ConnectFailure, FailureReason
    <3> QED
      BY <2>3, <3>1, <3>2 DEF TypeOK, TaskLabel, GiveUp
  <2>4. CASE RoundTrip(r, w)
    <3>1. samples[r][w] + 1 \in 0..Requests
      BY <2>4 DEF TypeOK, RoundTrip
    <3>2. metrics' \in [runs : Nat, completed : Nat, failed : Nat, requests : Nat]
      <4>1. metrics.requests + 1 \in Nat
        BY DEF TypeOK
      <4>2. metrics' = [metrics EXCEPT !.requests = metrics.requests + 1]
        BY <2>4 DEF RoundTrip
      <4> QED
        BY <4>1, <4>2 DEF TypeOK
    <3>3. samples' \in [Runs -> [Workers -> 0..Requests]]
      BY <2>4, <3>1 DEF TypeOK, RoundTrip
    <3> QED
      BY <2>4, <3>2, <3>3 DEF TypeOK, TaskLabel, RoundTrip
  <2>9. CASE CountRoundTrip(r, w)
    <3>1. completed[r] + 1 \in Nat
      BY DEF TypeOK
    <3> QED
      BY <2>9, <3>1 DEF TypeOK, TaskLabel, CountRoundTrip
  <2>5. CASE FailRoundTrip(r, w)
    BY <2>5 DEF TypeOK, TaskLabel, FailureReason, FailRoundTrip
  <2>6. CASE LoadCompleted(r, w)
    BY <2>6 DEF TypeOK, TaskLabel, LoadCompleted, ProgressCount
  <2>7. CASE ReportProgress(r, w)
    <3>1. Event("progress", loaded[r][w], "none") \in RunEvent
      BY EventType DEF TypeOK
    <3>2. feed' \in [Runs -> Seq(RunEvent)]
      BY <2>7, <3>1, PublishType DEF ReportProgress
    <3> QED
      BY <2>7, <3>2 DEF TypeOK, TaskLabel, ReportProgress
  <2>8. CASE Panic(r, w)
    BY <2>8, AttemptsReset DEF TypeOK, TaskLabel, FailureReason, Panic
  <2> QED
    BY <1>7, <2>1, <2>2, <2>3, <2>4, <2>5, <2>6, <2>7, <2>8, <2>9, WorkerCases
    DEF ConnectFails, AttemptFails
<1>8. CASE UNCHANGED vars
  BY <1>0, <1>8 DEF TypeOK, vars
<1> QED
  BY <1>1, <1>2, <1>3, <1>4, <1>5, <1>6, <1>7, <1>8, <1>9, <1>10 DEF Next, RunStep, Done

-----------------------------------------------------------------------------
(* Frames: a part of the invariant survives a step that leaves alone what  *)
(* it speaks of.                                                           *)

LEMMA WorkerFrame ==
  ASSUME NEW r \in Runs, NEW w \in Workers, WorkerInv(r, w),
         wst'[r][w] = wst[r][w], attempts'[r][w] = attempts[r][w],
         samples'[r][w] = samples[r][w], result'[r][w] = result[r][w],
         conn'[r][w] = conn[r][w]
  PROVE  WorkerInv(r, w)'
  BY DEF WorkerInv

LEMMA JoinFrame ==
  ASSUME NEW r \in Runs, JoinInv(r),
         joined[r] \in 0..Connections,
         joined'[r] = joined[r], firstErr'[r] = firstErr[r], merged'[r] = merged[r],
         \A w \in 1..joined[r] : result'[r][w] = result[r][w]
  PROVE  JoinInv(r)'
<1> USE DEF JoinInv
<1>1. OkUpTo(r, joined[r])' = OkUpTo(r, joined[r])
  BY DEF OkUpTo
<1>2. /\ \A w \in 1..joined'[r] : result'[r][w] # "pending"
      /\ firstErr'[r] = "none" => \A w \in 1..joined'[r] : result'[r][w] = "ok"
  OBVIOUS
<1>3. ASSUME firstErr'[r] # "none"
      PROVE  \E w \in 1..joined'[r] : /\ result'[r][w] = firstErr'[r]
                                      /\ \A v \in 1..(w - 1) : result'[r][v] = "ok"
  <2>1. PICK w \in 1..joined[r] : /\ result[r][w] = firstErr[r]
                                  /\ \A v \in 1..(w - 1) : result[r][v] = "ok"
    BY <1>3
  <2>2. \A v \in 1..(w - 1) : v \in 1..joined[r]
    OBVIOUS
  <2> QED
    BY <2>1, <2>2
<1> QED
  BY <1>1, <1>2, <1>3

LEMMA FeedFrame ==
  ASSUME NEW r \in Runs, FeedInv(r),
         feed'[r] = feed[r], row'[r] = row[r],
         pc[r] \in {"ending", "returned", "dropped"} =>
           pc'[r] \in {"ending", "returned", "dropped"},
         pc'[r] \in {"ending", "returned"} => pc[r] \in {"ending", "returned"},
         OkUpTo(r, Connections)' = OkUpTo(r, Connections)
  PROVE  FeedInv(r)'
  BY DEF FeedInv, ProgressAt, Ended

LEMMA OutcomeFrame ==
  ASSUME NEW r \in Runs, OutcomeInv(r),
         row'[r] = row[r],
         Ended(r) => /\ firstErr'[r] = firstErr[r]
                     /\ merged'[r] = merged[r]
                     /\ completed'[r] = completed[r]
  PROVE  OutcomeInv(r)'
  BY DEF OutcomeInv, Outcome, Ended

LEMMA CountFrame ==
  ASSUME NEW r \in Runs, CountInv(r),
         completed'[r] = completed[r],
         \A w \in Workers : Counted(r, w)' = Counted(r, w)
  PROVE  CountInv(r)'
<1>1. SampleSlots(r)' = SampleSlots(r)
  BY DEF SampleSlots
<1> QED
  BY <1>1 DEF CountInv

-----------------------------------------------------------------------------
(* A step of one run leaves every other run alone.                         *)

Untouched(q) ==
  /\ pc'[q] = pc[q] /\ row'[q] = row[q] /\ feed'[q] = feed[q]
  /\ completed'[q] = completed[q] /\ joined'[q] = joined[q]
  /\ merged'[q] = merged[q] /\ firstErr'[q] = firstErr[q]
  /\ wst'[q] = wst[q] /\ attempts'[q] = attempts[q]
  /\ samples'[q] = samples[q] /\ loaded'[q] = loaded[q]
  /\ result'[q] = result[q] /\ conn'[q] = conn[q]

LEMMA UntouchedInv ==
  ASSUME NEW q \in Runs, TypeOK, RunInv(q), Untouched(q)
  PROVE  RunInv(q)'
<1> USE DEF RunInv, Untouched
<1>1. ControlInv(q)'
  BY DEF ControlInv, Ended, Spawned
<1>2. \A w \in Workers : WorkerInv(q, w)'
  BY WorkerFrame
<1>3. joined[q] \in 0..Connections
  BY DEF TypeOK
<1>4. JoinInv(q)'
  BY <1>3, JoinFrame
<1>5. OkUpTo(q, Connections)' = OkUpTo(q, Connections)
  BY DEF OkUpTo
<1>6. \A w \in Workers : Counted(q, w)' = Counted(q, w)
  BY DEF Counted
<1>7. FeedInv(q)' /\ OutcomeInv(q)' /\ CountInv(q)'
  BY <1>5, <1>6, FeedFrame, OutcomeFrame, CountFrame
<1> QED
  BY <1>1, <1>2, <1>4, <1>7

RunAction(r) == Save(r) \/ SaveFails(r) \/ RunStep(r) \/ DropRun(r)

LEMMA OthersUntouched ==
  ASSUME TypeOK, NEW r \in Runs, NEW q \in Runs, q # r,
         RunAction(r) \/ \E w \in Workers : WorkerAction(r, w)
  PROVE  Untouched(q)
<1> USE DEF TypeOK, Untouched, runVars, workerVars, Goto, Publish, Return, Release,
            LeaveRetry
<1>1. CASE Save(r) \/ SaveFails(r) \/ DropRun(r)
  BY <1>1 DEF Save, SaveFails, DropRun
<1>2. CASE AnnounceStart(r) \/ Start(r) \/ JoinNext(r)
  BY <1>2 DEF AnnounceStart, Start, JoinNext
<1>3. CASE RecordOutcome(r) \/ RecordFails(r) \/ Announce(r) \/ CountEnding(r)
  BY <1>3 DEF RecordOutcome, RecordFails, Announce, CountEnding
<1>4. ASSUME NEW w \in Workers, WorkerAction(r, w)
      PROVE  Untouched(q)
  <2>1. CASE Connect(r, w) \/ ConnectFails(r, w)
    BY <2>1 DEF Connect, ConnectFails, AttemptFails, RetryConnect, GiveUp
  <2>2. CASE RoundTrip(r, w) \/ CountRoundTrip(r, w) \/ FailRoundTrip(r, w)
    BY <2>2 DEF RoundTrip, CountRoundTrip, FailRoundTrip
  <2>3. CASE LoadCompleted(r, w) \/ ReportProgress(r, w)
    BY <2>3 DEF LoadCompleted, ReportProgress
  <2>4. CASE Panic(r, w)
    BY <2>4 DEF Panic
  <2> QED
    BY <1>4, <2>1, <2>2, <2>3, <2>4, WorkerCases
<1> QED
  BY <1>1, <1>2, <1>3, <1>4 DEF RunAction, RunStep

\* A task that takes a step has been spawned and stays so.
LEMMA StaysSpawned ==
  ASSUME TypeOK, NEW r \in Runs, NEW w \in Workers, WorkerAction(r, w)
  PROVE  wst'[r][w] # "unspawned"
<1> USE DEF TypeOK, Return
<1>1. CASE Connect(r, w) \/ ConnectFails(r, w)
  BY <1>1 DEF Connect, ConnectFails, AttemptFails, RetryConnect, GiveUp
<1>2. CASE RoundTrip(r, w) \/ CountRoundTrip(r, w) \/ FailRoundTrip(r, w)
  BY <1>2 DEF RoundTrip, CountRoundTrip, FailRoundTrip
<1>3. CASE LoadCompleted(r, w) \/ ReportProgress(r, w)
  BY <1>3 DEF LoadCompleted, ReportProgress
<1>4. CASE Panic(r, w)
  BY <1>4 DEF Panic
<1> QED
  BY <1>1, <1>2, <1>3, <1>4, WorkerCases

-----------------------------------------------------------------------------
(* The steps of BenchEngine::run preserve the invariant of their run.      *)

\* Steps that neither publish, spawn nor join: the row may change, the feed may
\* not.
LEMMA QuietStep ==
  ASSUME TypeOK, NEW r \in Runs, RunInv(r),
         \/ Save(r) \/ SaveFails(r) \/ RecordOutcome(r) \/ RecordFails(r)
         \/ CountEnding(r) \/ DropRun(r)
  PROVE  RunInv(r)'
<1> USE DEF Goto, runVars, workerVars
<1>1. /\ feed' = feed /\ completed' = completed /\ joined' = joined
      /\ merged' = merged /\ firstErr' = firstErr /\ UNCHANGED workerVars
  BY DEF Save, SaveFails, RecordOutcome, RecordFails, CountEnding, DropRun
<1>2. \A w \in Workers : WorkerInv(r, w)'
  BY <1>1, WorkerFrame DEF RunInv
<1>3. JoinInv(r)'
  BY <1>1, JoinFrame DEF RunInv, TypeOK
<1>4. CountInv(r)'
  BY <1>1, CountFrame DEF RunInv, Counted
<1>5. OkUpTo(r, Connections)' = OkUpTo(r, Connections)
  BY <1>1 DEF OkUpTo
<1>6. Outcome(r)' = Outcome(r)
  BY <1>1 DEF Outcome
<1>7. CASE CountEnding(r) \/ DropRun(r)
  <2>1. /\ row' = row
        /\ \/ pc[r] = "ending" /\ pc'[r] = "returned"
           \/ /\ pc[r] \in {"accepted", "announced", "joining", "recording",
                            "announcing", "ending"}
              /\ pc'[r] = "dropped"
    BY <1>7, EngineAssumption DEF CountEnding, DropRun, TypeOK
  <2>2. FeedInv(r)'
    BY <1>1, <1>5, <2>1, FeedFrame DEF RunInv
  <2>3. OutcomeInv(r)'
    BY <1>1, <2>1, OutcomeFrame DEF RunInv
  <2>4. ControlInv(r)'
    BY <1>1, <2>1 DEF RunInv, ControlInv, Ended, Endings, Spawned
  <2> QED
    BY <1>2, <1>3, <1>4, <2>2, <2>3, <2>4 DEF RunInv
<1>8. CASE Save(r) \/ SaveFails(r) \/ RecordOutcome(r) \/ RecordFails(r)
  <2>1. /\ pc[r] \in {"idle", "recording"}
        /\ pc'[r] \in {"accepted", "errored", "announcing"}
    BY <1>8 DEF TypeOK, Save, SaveFails, RecordOutcome, RecordFails
  <2>2. \A i \in 1..Len(feed[r]) : feed[r][i].kind \notin Endings
    BY <2>1 DEF RunInv, FeedInv
  <2>3. FeedInv(r)'
    BY <1>1, <1>5, <2>1, <2>2 DEF RunInv, FeedInv, ProgressAt
  <2>4. ControlInv(r)' /\ OutcomeInv(r)'
    <3>1. CASE Save(r)
      BY <1>1, <3>1
      DEF Save, TypeOK, RunInv, ControlInv, OutcomeInv, Ended, Endings, Row, NoRow, Spawned
    <3>2. CASE SaveFails(r)
      BY <1>1, <1>6, <3>2
      DEF SaveFails, TypeOK, RunInv, ControlInv, OutcomeInv, Ended, Endings, Row, NoRow, Spawned
    <3>3. CASE RecordOutcome(r)
      <4>1. Outcome(r).status \in Endings
        BY DEF Outcome, Row, Endings
      <4>2. row'[r] = Outcome(r) /\ pc'[r] = "announcing" /\ pc[r] = "recording"
        BY <3>3 DEF RecordOutcome, TypeOK
      <4> QED
        BY <1>1, <1>6, <4>1, <4>2 DEF RunInv, ControlInv, OutcomeInv, Ended, Endings, Spawned
    <3>4. CASE RecordFails(r)
      BY <1>1, <1>6, <3>4
      DEF RecordFails, TypeOK, RunInv, ControlInv, OutcomeInv, Ended, Endings, Spawned
    <3> QED
      BY <1>8, <3>1, <3>2, <3>3, <3>4
  <2> QED
    BY <1>2, <1>3, <1>4, <2>3, <2>4 DEF RunInv
<1> QED
  BY <1>7, <1>8

LEMMA AnnounceStartStep ==
  ASSUME TypeOK, NEW r \in Runs, RunInv(r), AnnounceStart(r)
  PROVE  RunInv(r)'
<1> USE DEF AnnounceStart, Goto, Publish, workerVars
<1>1. /\ feed[r] = <<>> /\ pc[r] = "accepted" /\ row[r].status = "running"
      /\ joined[r] = 0
      /\ \A w \in Workers : wst[r][w] = "unspawned"
  BY DEF RunInv, ControlInv
<1>2. /\ feed'[r] = <<Event("started", Total, "none")>> /\ pc'[r] = "announced"
      /\ UNCHANGED <<row, completed, joined, merged, firstErr, workerVars>>
  BY <1>1 DEF TypeOK
<1>3. ControlInv(r)'
  BY <1>1, <1>2, ConstantTypes DEF RunInv, ControlInv, Ended, Endings, Spawned
<1>4. \A w \in Workers : WorkerInv(r, w)'
  BY <1>2, WorkerFrame DEF RunInv
<1>5. JoinInv(r)' /\ CountInv(r)' /\ OutcomeInv(r)'
  BY <1>2, JoinFrame, CountFrame, OutcomeFrame DEF RunInv, TypeOK, Counted
<1>6. FeedInv(r)'
  <2>1. Len(feed'[r]) = 1 /\ feed'[r][1].kind = "started"
    <3>1. ASSUME NEW e, NEW f, f = <<e>> PROVE Len(f) = 1 /\ f[1] = e
      BY <3>1
    <3>2. Len(feed'[r]) = 1 /\ feed'[r][1] = Event("started", Total, "none")
      BY <1>2, <3>1, Zenon
    <3>3. Event("started", Total, "none").kind = "started"
      BY DEF Event
    <3> QED
      BY <3>2, <3>3
  <2>2. ProgressAt(r)' = {}
    BY <2>1 DEF ProgressAt
  <2>3. OkUpTo(r, Connections)' = {}
    BY <1>1, <1>2 DEF OkUpTo, Workers, RunInv, WorkerInv
  <2> QED
    BY <1>2, <2>1, <2>2, <2>3 DEF FeedInv, Endings
<1> QED
  BY <1>3, <1>4, <1>5, <1>6 DEF RunInv

LEMMA StartStep ==
  ASSUME TypeOK, NEW r \in Runs, RunInv(r), Start(r)
  PROVE  RunInv(r)'
<1> USE DEF Start, Goto
<1>1. /\ feed[r] # <<>> /\ pc[r] = "announced" /\ row[r].status = "running"
      /\ joined[r] = 0
      /\ \A w \in Workers : wst[r][w] = "unspawned"
  BY DEF RunInv, ControlInv
<1>2. /\ pc'[r] = "joining"
      /\ wst'[r] = [w \in Workers |-> "connecting"]
      /\ UNCHANGED <<row, feed, completed, joined, merged, firstErr,
                     attempts, samples, loaded, result, conn>>
  BY <1>1 DEF TypeOK
<1>3. ControlInv(r)'
  BY <1>1, <1>2, ConstantTypes DEF RunInv, ControlInv, Ended, Endings, Spawned
<1>4. \A w \in Workers : WorkerInv(r, w)'
  BY <1>1, <1>2, ConstantTypes DEF RunInv, WorkerInv
<1>5. \A w \in Workers : Counted(r, w)' = Counted(r, w)
  BY <1>1, <1>2 DEF Counted
<1>6. JoinInv(r)' /\ CountInv(r)' /\ OutcomeInv(r)'
  BY <1>2, <1>5, JoinFrame, CountFrame, OutcomeFrame DEF RunInv, TypeOK
<1>7. OkUpTo(r, Connections)' = OkUpTo(r, Connections)
  BY <1>2 DEF OkUpTo
<1>8. FeedInv(r)'
  BY <1>1, <1>2, <1>7, FeedFrame DEF RunInv
<1> QED
  BY <1>3, <1>4, <1>6, <1>8 DEF RunInv

\* Joining one more task whose connection did its share adds it to OkUpTo.
LEMMA OkUpToNext ==
  ASSUME TypeOK, NEW r \in Runs, NEW n \in Nat, n + 1 \in Workers
  PROVE  /\ IsFiniteSet(OkUpTo(r, n))
         /\ Cardinality(OkUpTo(r, n)) \in Nat
         /\ Cardinality(OkUpTo(r, n + 1)) =
              IF result[r][n + 1] = "ok" THEN Cardinality(OkUpTo(r, n)) + 1
                                         ELSE Cardinality(OkUpTo(r, n))
<1>1. IsFiniteSet(OkUpTo(r, n))
  <2>1. IsFiniteSet(1..n)
    BY FS_Interval
  <2>2. OkUpTo(r, n) \in SUBSET (1..n)
    BY DEF OkUpTo
  <2> QED
    BY <2>1, <2>2, FS_Subset
<1>2. Cardinality(OkUpTo(r, n)) \in Nat
  BY <1>1, FS_CardinalityType
<1>3. CASE result[r][n + 1] = "ok"
  <2>1. OkUpTo(r, n + 1) = OkUpTo(r, n) \union {n + 1}
    BY <1>3 DEF OkUpTo
  <2>2. (n + 1) \notin OkUpTo(r, n)
    BY DEF OkUpTo
  <2> QED
    BY <1>1, <1>2, <1>3, <2>1, <2>2, FS_AddElement
<1>4. CASE result[r][n + 1] # "ok"
  <2>1. OkUpTo(r, n + 1) = OkUpTo(r, n)
    BY <1>4 DEF OkUpTo
  <2> QED
    BY <1>1, <1>2, <1>4, <2>1
<1> QED
  BY <1>3, <1>4

LEMMA JoinStep ==
  ASSUME TypeOK, NEW r \in Runs, RunInv(r), JoinNext(r)
  PROVE  RunInv(r)'
<1> USE DEF Goto, workerVars
<1>0. joined[r] \in Nat
  BY DEF TypeOK
<1> PICK w \in Nat : w = joined[r] + 1
  BY <1>0
<1>1. /\ pc[r] = "joining" /\ joined[r] \in Nat /\ joined[r] < Connections
      /\ result[r][w] # "pending"
  BY <1>0 DEF JoinNext, RunInv, ControlInv
<1>2. w \in Workers
  BY <1>1, ConstantTypes DEF Workers
<1>3. /\ joined'[r] = w
      /\ merged'[r] = IF result[r][w] = "ok" THEN merged[r] + samples[r][w] ELSE merged[r]
      /\ firstErr'[r] = FirstError(firstErr[r], result[r][w])
      /\ pc'[r] = IF w = Connections THEN "recording" ELSE "joining"
      /\ UNCHANGED <<row, feed, completed, workerVars>>
  BY DEF JoinNext, TypeOK, AllJoined
<1>4. ControlInv(r)'
  <2>1. /\ row[r].status = "running" /\ feed[r] # <<>>
        /\ Spawned(r)
    BY <1>1 DEF RunInv, ControlInv
  <2>2. /\ row'[r] = row[r] /\ feed'[r] = feed[r] /\ wst'[r] = wst[r]
    BY <1>3
  <2>3. /\ pc'[r] \in {"joining", "recording"}
        /\ pc'[r] = "joining" => w < Connections
        /\ pc'[r] = "recording" => w = Connections
    BY <1>1, <1>2, <1>3, ConstantTypes DEF Workers
  <2> QED
    BY <1>3, <2>1, <2>2, <2>3 DEF ControlInv, Ended, Endings, Spawned
<1>5. \A v \in Workers : WorkerInv(r, v)'
  BY <1>3, WorkerFrame DEF RunInv
<1>6. JoinInv(r)'
  <2>1. \A v \in 1..w : v \in 1..joined[r] \/ v = w
    BY <1>1
  <2>2. \A v \in 1..w : result'[r][v] # "pending"
    BY <1>1, <1>3, <2>1 DEF RunInv, JoinInv
  <2>3. firstErr'[r] = "none" => \A v \in 1..w : result'[r][v] = "ok"
    <3> SUFFICES ASSUME firstErr'[r] = "none" PROVE \A v \in 1..w : result[r][v] = "ok"
      BY <1>3
    <3>1. firstErr[r] = "none" /\ result[r][w] = "ok"
      <4>1. result[r][w] # "none"
        <5>1. result[r][w] \in FailureReason \union {"pending", "ok"}
          BY <1>2 DEF TypeOK
        <5> QED
          BY <5>1 DEF FailureReason
      <4> QED
        BY <1>3, <4>1 DEF FirstError
    <3> QED
      BY <2>1, <3>1 DEF RunInv, JoinInv
  <2>4. ASSUME firstErr'[r] # "none"
        PROVE  \E v \in 1..w : /\ result'[r][v] = firstErr'[r]
                               /\ \A u \in 1..(v - 1) : result'[r][u] = "ok"
    <3>1. CASE firstErr[r] # "none"
      <4>1. PICK v \in 1..joined[r] : /\ result[r][v] = firstErr[r]
                                      /\ \A u \in 1..(v - 1) : result[r][u] = "ok"
        BY <3>1 DEF RunInv, JoinInv
      <4>2. v \in 1..w /\ firstErr'[r] = firstErr[r]
        BY <1>1, <1>3, <3>1 DEF FirstError
      <4> QED
        BY <1>3, <4>1, <4>2
    <3>2. CASE firstErr[r] = "none"
      <4>1. \A u \in 1..joined[r] : result[r][u] = "ok"
        BY <3>2 DEF RunInv, JoinInv
      <4>2. firstErr'[r] = result[r][w]
        BY <1>3, <2>4, <3>2 DEF FirstError
      <4>3. w \in 1..w /\ w - 1 = joined[r]
        BY <1>1
      <4> QED
        BY <1>3, <4>1, <4>2, <4>3
    <3> QED
      BY <3>1, <3>2
  <2>5. merged'[r] = Requests * Cardinality(OkUpTo(r, w)')
    <3> DEFINE c == Cardinality(OkUpTo(r, joined[r]))
    <3>1. OkUpTo(r, w)' = OkUpTo(r, w)
      BY <1>3 DEF OkUpTo
    <3>2. /\ c \in Nat
          /\ Cardinality(OkUpTo(r, w)) = IF result[r][w] = "ok" THEN c + 1 ELSE c
      BY <1>1, <1>2, OkUpToNext
    <3>3. merged[r] = Requests * c
      BY DEF RunInv, JoinInv
    <3>4. result[r][w] = "ok" => samples[r][w] = Requests
      BY <1>2 DEF RunInv, WorkerInv
    <3>5. Requests * (c + 1) = Requests * c + Requests
      BY <3>2, ConstantTypes
    <3> HIDE DEF c
    <3> QED
      BY <1>3, <3>1, <3>2, <3>3, <3>4, <3>5
  <2> QED
    BY <1>3, <2>2, <2>3, <2>4, <2>5 DEF JoinInv, OkUpTo
<1>7. OkUpTo(r, Connections)' = OkUpTo(r, Connections)
  BY <1>3 DEF OkUpTo
<1>8. FeedInv(r)' /\ OutcomeInv(r)' /\ CountInv(r)'
  <2>1. ~Ended(r)
    BY <1>1 DEF RunInv, ControlInv
  <2> QED
    BY <1>1, <1>3, <1>7, <2>1, FeedFrame, OutcomeFrame, CountFrame DEF RunInv, Counted
<1> QED
  BY <1>4, <1>5, <1>6, <1>8 DEF RunInv

\* What appending one event does to a feed.
LEMMA AppendFacts ==
  ASSUME TypeOK, NEW r \in Runs, NEW e, Publish(r, e)
  PROVE  /\ Len(feed[r]) \in Nat
         /\ Len(feed'[r]) = Len(feed[r]) + 1
         /\ \A i \in 1..Len(feed[r]) : feed'[r][i] = feed[r][i]
         /\ feed'[r][Len(feed[r]) + 1] = e
         /\ feed'[r] # <<>>
<1>1. feed[r] \in Seq(RunEvent) /\ feed'[r] = Append(feed[r], e)
  BY DEF TypeOK, Publish
<1> QED
  BY <1>1

LEMMA AnnounceStep ==
  ASSUME TypeOK, NEW r \in Runs, RunInv(r), Announce(r)
  PROVE  RunInv(r)'
<1> USE DEF Goto, workerVars
<1>1. /\ pc[r] = "announcing" /\ pc'[r] = "ending"
      /\ joined[r] = Connections /\ feed[r] # <<>>
      /\ row[r].status \in Endings
      /\ row'[r] = row[r]
      /\ UNCHANGED <<row, completed, joined, merged, firstErr, workerVars>>
  BY DEF Announce, TypeOK, RunInv, ControlInv, Ended
<1>2. row[r].status = "completed" => row[r].reason = "none"
  BY <1>1 DEF RunInv, OutcomeInv, Outcome, Row, Ended
<1>3. PICK e : /\ Publish(r, e)
               /\ e.kind = row[r].status /\ e.reason = row[r].reason
               /\ e.kind = "completed" => e.count = row[r].stats
  BY <1>1, <1>2 DEF Announce, EndEvent, Event, Endings
<1>4. /\ Len(feed[r]) \in Nat
      /\ Len(feed'[r]) = Len(feed[r]) + 1
      /\ \A i \in 1..Len(feed[r]) : feed'[r][i] = feed[r][i]
      /\ feed'[r][Len(feed[r]) + 1] = e
      /\ feed'[r] # <<>>
  BY <1>3, AppendFacts
<1>5. ControlInv(r)'
  BY <1>1, <1>4 DEF RunInv, ControlInv, Ended, Spawned
<1>6. \A w \in Workers : WorkerInv(r, w)'
  BY <1>1, WorkerFrame DEF RunInv
<1>7. JoinInv(r)' /\ CountInv(r)' /\ OutcomeInv(r)'
  BY <1>1, JoinFrame, CountFrame, OutcomeFrame DEF RunInv, TypeOK, Counted
<1>8. FeedInv(r)'
  <2>1. OkUpTo(r, Connections)' = OkUpTo(r, Connections)
    BY <1>1 DEF OkUpTo
  <2>2. Len(feed[r]) >= 1
    <3>1. feed[r] \in Seq(RunEvent)
      BY DEF TypeOK
    <3> QED
      BY <1>1, <3>1
  <2>3. \A i \in 1..Len(feed'[r]) : i \in 1..Len(feed[r]) \/ i = Len(feed[r]) + 1
    BY <1>4
  <2>4. e.kind \notin {"progress", "started"}
    BY <1>1, <1>3 DEF Endings
  <2>5. ProgressAt(r)' = ProgressAt(r)
    <3>1. \A i \in 1..Len(feed[r]) : i \in 1..Len(feed'[r])
      BY <1>4
    <3> QED
      BY <1>4, <2>3, <2>4, <3>1 DEF ProgressAt
  <2>6. \A i \in 1..Len(feed[r]) : feed[r][i].kind \notin Endings
    BY <1>1 DEF RunInv, FeedInv
  <2>7. \A i \in 1..Len(feed'[r]) :
          /\ feed'[r][i].kind = "started" <=> i = 1
          /\ feed'[r][i].kind \in Endings =>
               /\ i = Len(feed'[r])
               /\ feed'[r][i].kind = row'[r].status
               /\ feed'[r][i].reason = row'[r].reason
               /\ feed'[r][i].kind = "completed" => feed'[r][i].count = row'[r].stats
    <3> SUFFICES ASSUME NEW i \in 1..Len(feed'[r])
                 PROVE  /\ feed'[r][i].kind = "started" <=> i = 1
                        /\ feed'[r][i].kind \in Endings =>
                             /\ i = Len(feed'[r])
                             /\ feed'[r][i].kind = row'[r].status
                             /\ feed'[r][i].reason = row'[r].reason
                             /\ feed'[r][i].kind = "completed" =>
                                  feed'[r][i].count = row'[r].stats
      OBVIOUS
    <3>1. CASE i \in 1..Len(feed[r])
      <4>1. feed'[r][i] = feed[r][i] /\ (feed[r][i].kind = "started" <=> i = 1)
        BY <1>4, <3>1 DEF RunInv, FeedInv
      <4> QED
        BY <2>6, <3>1, <4>1
    <3>2. CASE i = Len(feed[r]) + 1
      BY <1>1, <1>3, <1>4, <2>2, <2>4, <3>2
    <3> QED
      BY <2>3, <3>1, <3>2
  <2>8. Cardinality(ProgressAt(r)) = Cardinality(OkUpTo(r, Connections))
    BY DEF RunInv, FeedInv
  <2>9. feed'[r][Len(feed'[r])].kind = row'[r].status
    BY <1>1, <1>3, <1>4
  <2> QED
    BY <1>1, <2>1, <2>5, <2>7, <2>8, <2>9 DEF FeedInv, Ended
<1> QED
  BY <1>5, <1>6, <1>7, <1>8 DEF RunInv

-----------------------------------------------------------------------------
(* The steps of run_connection preserve the invariant of their run.        *)

Live(r, w) == wst[r][w] \in {"connecting", "sending", "counting", "reporting"}

\* While a task lives its handle has not been joined, so its run is not over.
LEMMA LiveTask ==
  ASSUME TypeOK, NEW r \in Runs, NEW w \in Workers, RunInv(r), Live(r, w)
  PROVE  /\ w \notin 1..joined[r]
         /\ ~Ended(r)
         /\ Spawned(r)
         /\ pc[r] \in {"joining", "errored", "dropped"}
         /\ feed[r] # <<>>
<1>1. result[r][w] = "pending" /\ wst[r][w] # "unspawned"
  BY DEF Live, RunInv, WorkerInv
<1>2. w \notin 1..joined[r]
  BY <1>1 DEF RunInv, JoinInv
<1>3. joined[r] # Connections
  BY <1>2 DEF Workers
<1> QED
  BY <1>1, <1>2, <1>3 DEF RunInv, ControlInv, Ended, TypeOK, RunLabel

\* Steps of a task that touch nothing its run shares.
LEMMA PrivateStep ==
  ASSUME TypeOK, NEW r \in Runs, NEW w \in Workers, RunInv(r),
         \/ Connect(r, w) \/ ConnectFails(r, w)
         \/ FailRoundTrip(r, w) \/ LoadCompleted(r, w) \/ Panic(r, w)
  PROVE  RunInv(r)'
<1> USE DEF Return, Release, LeaveRetry, ConnectFails, AttemptFails
<1>1. Live(r, w) /\ UNCHANGED <<runVars, samples>>
  BY DEF Live, Connect, RetryConnect, GiveUp, FailRoundTrip, LoadCompleted, Panic
<1>2. /\ w \notin 1..joined[r]
      /\ ~Ended(r)
      /\ Spawned(r)
      /\ pc[r] \in {"joining", "errored", "dropped"}
      /\ feed[r] # <<>>
  BY <1>1, LiveTask
<1>3. \A v \in Workers \ {w} :
        /\ wst'[r][v] = wst[r][v] /\ attempts'[r][v] = attempts[r][v]
        /\ result'[r][v] = result[r][v] /\ conn'[r][v] = conn[r][v]
  BY DEF TypeOK, Connect, RetryConnect, GiveUp, FailRoundTrip, LoadCompleted, Panic
<1>4. wst'[r][w] # "unspawned" /\ result[r][w] # "ok" /\ result'[r][w] # "ok"
  <2>1. result[r][w] = "pending"
    BY <1>1 DEF Live, RunInv, WorkerInv
  <2>2. \A e \in ConnectError : ConnectFailure(e) # "ok"
    BY DEF ConnectFailure
  <2> QED
    BY <2>1, <2>2
    DEF TypeOK, Connect, RetryConnect, GiveUp, FailRoundTrip, LoadCompleted, Panic
<1>5. WorkerInv(r, w)'
  <2>1. WorkerInv(r, w)
    BY DEF RunInv
  <2>2. CASE Connect(r, w)
    BY <2>1, <2>2 DEF TypeOK, Connect, WorkerInv
  <2>3. ASSUME NEW e \in ConnectError, RetryConnect(r, w, e)
        PROVE  WorkerInv(r, w)'
    BY <2>1, <2>3 DEF TypeOK, RetryConnect, MayRetry, WorkerInv
  <2>4. ASSUME NEW e \in ConnectError, GiveUp(r, w, e)
        PROVE  WorkerInv(r, w)'
    <3>1. ConnectFailure(e) \notin {"ok", "pending"}
      BY DEF ConnectFailure
    <3>2. /\ wst'[r][w] = "finished" /\ result'[r][w] \notin {"ok", "pending"}
          /\ conn'[r][w] = conn[r][w] /\ samples'[r][w] = samples[r][w]
          /\ wst[r][w] = "connecting" /\ attempts'[r][w] = 0
      BY <2>4, <3>1 DEF TypeOK, GiveUp
    <3> QED
      BY <2>1, <3>2 DEF WorkerInv
  <2>5. CASE FailRoundTrip(r, w)
    BY <2>1, <2>5 DEF TypeOK, FailRoundTrip, WorkerInv
  <2>6. CASE LoadCompleted(r, w)
    BY <2>1, <2>6 DEF TypeOK, LoadCompleted, WorkerInv
  <2>7. CASE Panic(r, w)
    BY <2>1, <2>7 DEF TypeOK, Panic, WorkerInv
  <2> QED
    BY <2>2, <2>3, <2>4, <2>5, <2>6, <2>7
<1>6. \A v \in Workers : WorkerInv(r, v)'
  BY <1>1, <1>3, <1>5, WorkerFrame DEF RunInv, runVars
<1>7. ControlInv(r)'
  BY <1>1, <1>2, <1>3, <1>4 DEF RunInv, ControlInv, Ended, Spawned, runVars
<1>8. JoinInv(r)'
  <2>1. \A v \in 1..joined[r] : v \in Workers \ {w}
    <3>1. joined[r] \in 0..Connections
      BY DEF TypeOK
    <3> QED
      BY <1>2, <3>1, ConstantTypes DEF Workers
  <2> QED
    BY <1>1, <1>3, <2>1, JoinFrame DEF RunInv, TypeOK, runVars
<1>9. OkUpTo(r, Connections)' = OkUpTo(r, Connections)
  BY <1>3, <1>4 DEF OkUpTo, Workers
<1>10. \A v \in Workers : Counted(r, v)' = Counted(r, v)
  <2>1. wst[r][w] # "counting" /\ wst'[r][w] # "counting"
    BY DEF TypeOK, Connect, RetryConnect, GiveUp, FailRoundTrip, LoadCompleted, Panic
  <2> QED
    BY <1>1, <1>3, <2>1 DEF Counted
<1>11. FeedInv(r)' /\ OutcomeInv(r)' /\ CountInv(r)'
  BY <1>1, <1>9, <1>10, FeedFrame, OutcomeFrame, CountFrame DEF RunInv, runVars
<1> QED
  BY <1>6, <1>7, <1>8, <1>11 DEF RunInv

\* The round-trips a run has counted are finitely many.
LEMMA SlotsFinite ==
  ASSUME NEW r \in Runs
  PROVE  IsFiniteSet(SampleSlots(r))
<1>1. IsFiniteSet(Workers) /\ IsFiniteSet(1..Requests)
  BY ConstantTypes, FS_Interval DEF Workers
<1>2. IsFiniteSet(Workers \X (1..Requests))
  BY <1>1, FS_Product
<1>3. SampleSlots(r) \in SUBSET (Workers \X (1..Requests))
  BY DEF SampleSlots
<1> QED
  BY <1>2, <1>3, FS_Subset

LEMMA RoundTripStep ==
  ASSUME TypeOK, NEW r \in Runs, NEW w \in Workers, RunInv(r), RoundTrip(r, w)
  PROVE  RunInv(r)'
<1>1. /\ Live(r, w) /\ wst[r][w] = "sending" /\ wst'[r][w] = "counting"
      /\ samples[r][w] \in Nat /\ samples'[r][w] = samples[r][w] + 1
      /\ UNCHANGED <<runVars, attempts, result, conn>>
  BY DEF Live, RoundTrip, TypeOK
<1>2. \A v \in Workers \ {w} : wst'[r][v] = wst[r][v] /\ samples'[r][v] = samples[r][v]
  BY DEF RoundTrip, TypeOK
<1>3. ~Ended(r) /\ result[r][w] = "pending" /\ Spawned(r)
  BY <1>1, LiveTask DEF Live, RunInv, WorkerInv
<1>4. ControlInv(r)'
  <2>1. Spawned(r)'
    BY <1>1, <1>2, <1>3 DEF Spawned
  <2> QED
    BY <1>1, <1>3, <2>1 DEF RunInv, ControlInv, Ended, Spawned, runVars
<1>5. \A v \in Workers : WorkerInv(r, v)'
  <2>1. WorkerInv(r, w)'
    BY <1>1, <1>3 DEF RunInv, WorkerInv
  <2> QED
    BY <1>1, <1>2, <2>1, WorkerFrame DEF RunInv
<1>6. JoinInv(r)' /\ OutcomeInv(r)'
  BY <1>1, <1>3, JoinFrame, OutcomeFrame DEF RunInv, TypeOK, runVars
<1>7. OkUpTo(r, Connections)' = OkUpTo(r, Connections)
  BY <1>1 DEF OkUpTo
<1>8. \A v \in Workers : Counted(r, v)' = Counted(r, v)
  BY <1>1, <1>2 DEF Counted
<1>9. FeedInv(r)' /\ CountInv(r)'
  BY <1>1, <1>7, <1>8, FeedFrame, CountFrame DEF RunInv, runVars
<1> QED
  BY <1>4, <1>5, <1>6, <1>9 DEF RunInv

LEMMA CountStep ==
  ASSUME TypeOK, NEW r \in Runs, NEW w \in Workers, RunInv(r), CountRoundTrip(r, w)
  PROVE  RunInv(r)'
<1>1. /\ Live(r, w) /\ wst[r][w] = "counting" /\ wst'[r][w] = "sending"
      /\ UNCHANGED <<pc, row, feed, joined, merged, firstErr, attempts, samples, result, conn>>
  BY DEF Live, CountRoundTrip, TypeOK
<1>2. /\ \A v \in Workers \ {w} : wst'[r][v] = wst[r][v]
      /\ completed'[r] = completed[r] + 1
      /\ completed[r] \in Nat
      /\ samples[r][w] \in 1..Requests
  BY <1>1 DEF CountRoundTrip, TypeOK, RunInv, WorkerInv
<1>3. ~Ended(r) /\ result[r][w] = "pending" /\ Spawned(r)
  BY <1>1, LiveTask DEF Live, RunInv, WorkerInv
<1>4. ControlInv(r)'
  <2>1. Spawned(r)'
    BY <1>1, <1>2, <1>3 DEF Spawned
  <2> QED
    BY <1>1, <1>3, <2>1 DEF RunInv, ControlInv, Ended, Spawned
<1>5. \A v \in Workers : WorkerInv(r, v)'
  <2>1. WorkerInv(r, w)'
    BY <1>1, <1>3 DEF RunInv, WorkerInv
  <2> QED
    BY <1>1, <1>2, <2>1, WorkerFrame DEF RunInv
<1>6. JoinInv(r)' /\ OutcomeInv(r)'
  BY <1>1, <1>3, JoinFrame, OutcomeFrame DEF RunInv, TypeOK
<1>7. OkUpTo(r, Connections)' = OkUpTo(r, Connections)
  BY <1>1 DEF OkUpTo
<1>8. FeedInv(r)'
  BY <1>1, <1>7, FeedFrame DEF RunInv
<1>9. CountInv(r)'
  <2> DEFINE new == <<w, samples[r][w]>>
  <2>1. new \in Workers \X (1..Requests)
    BY <1>2
  <2>2. new \notin SampleSlots(r)
    BY <1>1, <1>2 DEF SampleSlots, Counted
  <2>3. SampleSlots(r)' = SampleSlots(r) \union {new}
    <3>1. ASSUME NEW v \in Workers, NEW k \in 1..Requests
          PROVE  k <= Counted(r, v)' <=> k <= Counted(r, v) \/ <<v, k>> = new
      BY <1>1, <1>2 DEF Counted
    <3> HIDE DEF new
    <3> QED
      BY <2>1, <3>1 DEF SampleSlots
  <2>4. Cardinality(SampleSlots(r) \union {new}) = Cardinality(SampleSlots(r)) + 1
    BY <2>2, SlotsFinite, FS_AddElement
  <2> QED
    BY <1>2, <2>3, <2>4 DEF RunInv, CountInv
<1> QED
  BY <1>4, <1>5, <1>6, <1>8, <1>9 DEF RunInv

\* The one step by which a task becomes visible: one more Progress in the feed,
\* one more task whose connection did its share.
LEMMA ReportStep ==
  ASSUME TypeOK, NEW r \in Runs, NEW w \in Workers, RunInv(r), ReportProgress(r, w)
  PROVE  RunInv(r)'
<1> USE DEF Return, Release
<1>1. /\ Live(r, w)
      /\ UNCHANGED <<pc, row, completed, joined, merged, firstErr, attempts, samples>>
  BY DEF Live, ReportProgress
<1>2. /\ w \notin 1..joined[r]
      /\ ~Ended(r)
      /\ Spawned(r)
      /\ pc[r] \in {"joining", "errored", "dropped"}
      /\ feed[r] # <<>>
  BY <1>1, LiveTask
<1>3. \A v \in Workers \ {w} :
        /\ wst'[r][v] = wst[r][v]
        /\ result'[r][v] = result[r][v] /\ conn'[r][v] = conn[r][v]
  BY DEF TypeOK, ReportProgress
<1>4. /\ wst'[r][w] = "finished" /\ result'[r][w] = "ok" /\ result[r][w] = "pending"
      /\ conn'[r][w] # "open" /\ samples[r][w] = Requests /\ attempts'[r][w] = 0
  <2>1. result[r][w] = "pending" /\ samples[r][w] = Requests /\ attempts[r][w] = 0
    BY DEF ReportProgress, RunInv, WorkerInv
  <2> QED
    BY <2>1 DEF TypeOK, ReportProgress
<1>5. PICK e : Publish(r, e) /\ e.kind = "progress"
  BY DEF ReportProgress, Event
<1>6. /\ Len(feed[r]) \in Nat
      /\ Len(feed'[r]) = Len(feed[r]) + 1
      /\ \A i \in 1..Len(feed[r]) : feed'[r][i] = feed[r][i]
      /\ feed'[r][Len(feed[r]) + 1] = e
      /\ feed'[r] # <<>>
  BY <1>5, AppendFacts
<1>7. \A v \in Workers : WorkerInv(r, v)'
  <2>1. WorkerInv(r, w)'
    BY <1>1, <1>4 DEF WorkerInv
  <2> QED
    BY <1>1, <1>3, <2>1, WorkerFrame DEF RunInv
<1>8. ControlInv(r)'
  BY <1>1, <1>2, <1>3, <1>4, <1>6 DEF RunInv, ControlInv, Ended, Spawned
<1>9. JoinInv(r)'
  <2>1. \A v \in 1..joined[r] : v \in Workers \ {w}
    <3>1. joined[r] \in 0..Connections
      BY DEF TypeOK
    <3> QED
      BY <1>2, <3>1, ConstantTypes DEF Workers
  <2> QED
    BY <1>1, <1>3, <2>1, JoinFrame DEF RunInv, TypeOK
<1>10. OutcomeInv(r)' /\ CountInv(r)'
  <2>1. wst[r][w] = "reporting"
    BY DEF ReportProgress
  <2>2. \A v \in Workers : Counted(r, v)' = Counted(r, v)
    BY <1>1, <1>3, <1>4, <2>1 DEF Counted
  <2> QED
    BY <1>1, <2>2, OutcomeFrame, CountFrame DEF RunInv
<1>11. FeedInv(r)'
  <2>1. Len(feed[r]) >= 1
    <3>1. feed[r] \in Seq(RunEvent)
      BY DEF TypeOK
    <3> QED
      BY <1>2, <3>1
  <2>2. \A i \in 1..Len(feed'[r]) : i \in 1..Len(feed[r]) \/ i = Len(feed[r]) + 1
    BY <1>6
  <2>3. \A i \in 1..Len(feed[r]) : /\ feed[r][i].kind = "started" <=> i = 1
                                   /\ feed[r][i].kind \notin Endings
    BY <1>2 DEF RunInv, FeedInv
  <2>4. \A i \in 1..Len(feed'[r]) : /\ feed'[r][i].kind = "started" <=> i = 1
                                    /\ feed'[r][i].kind \notin Endings
    BY <1>5, <1>6, <2>1, <2>2, <2>3 DEF Endings
  <2>5. Cardinality(ProgressAt(r)') = Cardinality(ProgressAt(r)) + 1
    <3>1. ProgressAt(r)' = ProgressAt(r) \union {Len(feed[r]) + 1}
      <4>1. \A i \in 1..Len(feed[r]) : i \in 1..Len(feed'[r])
        BY <1>6
      <4> QED
        BY <1>5, <1>6, <2>2, <4>1 DEF ProgressAt
    <3>2. Len(feed[r]) + 1 \notin ProgressAt(r)
      BY <1>6 DEF ProgressAt
    <3>3. IsFiniteSet(ProgressAt(r))
      <4>1. IsFiniteSet(1..Len(feed[r]))
        <5>1. \A n \in Nat : IsFiniteSet(1..n)
          BY FS_Interval
        <5> QED
          BY <1>6, <5>1
      <4>2. ProgressAt(r) \in SUBSET (1..Len(feed[r]))
        BY DEF ProgressAt
      <4> QED
        BY <4>1, <4>2, FS_Subset
    <3> QED
      BY <3>1, <3>2, <3>3, FS_AddElement
  <2>6. Cardinality(OkUpTo(r, Connections)') = Cardinality(OkUpTo(r, Connections)) + 1
    <3>1. OkUpTo(r, Connections)' = OkUpTo(r, Connections) \union {w}
      BY <1>3, <1>4 DEF OkUpTo, Workers
    <3>2. w \notin OkUpTo(r, Connections)
      BY <1>4 DEF OkUpTo
    <3>3. IsFiniteSet(OkUpTo(r, Connections))
      <4>1. IsFiniteSet(1..Connections)
        BY ConstantTypes, FS_Interval
      <4>2. OkUpTo(r, Connections) \in SUBSET (1..Connections)
        BY DEF OkUpTo
      <4> QED
        BY <4>1, <4>2, FS_Subset
    <3> QED
      BY <3>1, <3>2, <3>3, FS_AddElement
  <2>7. Cardinality(ProgressAt(r)) = Cardinality(OkUpTo(r, Connections))
    BY DEF RunInv, FeedInv
  <2> QED
    BY <1>1, <1>2, <2>4, <2>5, <2>6, <2>7 DEF FeedInv
<1> QED
  BY <1>7, <1>8, <1>9, <1>10, <1>11 DEF RunInv

-----------------------------------------------------------------------------
(* The invariant                                                           *)

LEMMA InvInit == Init => IInv
<1> SUFFICES ASSUME Init PROVE IInv
  OBVIOUS
<1> SUFFICES ASSUME NEW r \in Runs PROVE RunInv(r)
  BY TypeInit DEF IInv
<1>1. /\ pc[r] = "idle" /\ row[r] = NoRow /\ feed[r] = <<>> /\ completed[r] = 0
      /\ joined[r] = 0 /\ merged[r] = 0 /\ firstErr[r] = "none"
      /\ \A w \in Workers : /\ wst[r][w] = "unspawned" /\ attempts[r][w] = 0
                            /\ samples[r][w] = 0 /\ result[r][w] = "pending"
                            /\ conn[r][w] = "none"
  BY DEF Init
<1>2. NoRow.status = "absent"
  BY DEF NoRow, Row
<1>3. ControlInv(r) /\ OutcomeInv(r)
  BY <1>1, <1>2, ConstantTypes DEF ControlInv, OutcomeInv, Ended, Endings, Spawned, Workers
<1>4. \A w \in Workers : WorkerInv(r, w)
  BY <1>1 DEF WorkerInv
<1>5. JoinInv(r)
  <2>1. OkUpTo(r, 0) = {}
    BY DEF OkUpTo
  <2>2. Requests * 0 = 0
    BY ConstantTypes
  <2>3. \A w \in 1..joined[r] : FALSE
    BY <1>1
  <2>4. merged[r] = Requests * Cardinality(OkUpTo(r, joined[r]))
    BY <1>1, <2>1, <2>2, FS_EmptySet
  <2> QED
    BY <1>1, <2>3, <2>4 DEF JoinInv
<1>6. FeedInv(r)
  <2>1. OkUpTo(r, Connections) = {}
    BY <1>1 DEF OkUpTo, Workers
  <2>2. Len(feed[r]) = 0 /\ ProgressAt(r) = {}
    BY <1>1 DEF ProgressAt
  <2> QED
    BY <1>1, <2>1, <2>2 DEF FeedInv
<1>7. CountInv(r)
  <2>1. SampleSlots(r) = {}
    BY <1>1, ConstantTypes DEF SampleSlots, Counted
  <2> QED
    BY <1>1, <2>1, FS_EmptySet DEF CountInv
<1> QED
  BY <1>3, <1>4, <1>5, <1>6, <1>7 DEF RunInv

LEMMA InvStep ==
  ASSUME IInv, [Next]_vars
  PROVE  IInv'
<1>1. TypeOK /\ \A r \in Runs : RunInv(r)
  BY DEF IInv
<1>2. TypeOK'
  BY TypeStep
<1>3. ASSUME NEW r \in Runs,
             RunAction(r) \/ \E w \in Workers : WorkerAction(r, w)
      PROVE  \A q \in Runs : RunInv(q)'
  <2>1. RunInv(r)'
    <3>1. ASSUME RunAction(r) PROVE RunInv(r)'
      BY <1>1, <3>1, QuietStep, AnnounceStartStep, StartStep, JoinStep, AnnounceStep
      DEF RunAction, RunStep
    <3>2. ASSUME NEW w \in Workers, WorkerAction(r, w) PROVE RunInv(r)'
      BY <1>1, <3>2, PrivateStep, RoundTripStep, CountStep, ReportStep, WorkerCases
    <3> QED
      BY <1>3, <3>1, <3>2
  <2>2. \A q \in Runs \ {r} : RunInv(q)'
    BY <1>1, <1>3, OthersUntouched, UntouchedInv
  <2> QED
    BY <2>1, <2>2
<1>4. ASSUME UNCHANGED vars
      PROVE  \A q \in Runs : RunInv(q)'
  <2>1. \A q \in Runs : Untouched(q)
    BY <1>4 DEF Untouched, vars, runVars, workerVars
  <2> QED
    BY <1>1, <2>1, UntouchedInv
<1> QED
  BY <1>2, <1>3, <1>4 DEF Next, Done, RunAction, IInv

\* The inductive invariant holds in every reachable state of the engine.
THEOREM Invariance == Spec => []IInv
  BY InvInit, InvStep, PTL DEF Spec

\* Every variable of the engine always holds a value of its type; among others
\* no connection is attempted more often than max(connect_retries, 1) times.
THEOREM TypeCorrect == Spec => []TypeOK
<1>1. IInv => TypeOK
  BY DEF IInv
<1> QED
  BY <1>1, Invariance, PTL

-----------------------------------------------------------------------------
(* What follows from the invariant                                         *)

\* Once its outcome is visible every task of a run was joined.
LEMMA EndedJoined ==
  ASSUME IInv, NEW r \in Runs, Ended(r)
  PROVE  /\ joined[r] = Connections
         /\ \A w \in Workers : result[r][w] # "pending" /\ wst[r][w] = "finished"
         /\ row[r] = Outcome(r)
         /\ pc[r] \in {"announcing", "ending", "returned", "dropped"}
<1>1. RunInv(r)
  BY DEF IInv
<1>2. joined[r] = Connections /\ row[r] = Outcome(r)
  BY <1>1 DEF RunInv, ControlInv, OutcomeInv
<1>3. \A w \in Workers : result[r][w] # "pending"
  BY <1>1, <1>2 DEF RunInv, JoinInv, Workers
<1>4. \A w \in Workers : wst[r][w] = "finished"
  BY <1>1, <1>3 DEF RunInv, WorkerInv
<1>5. pc[r] \in {"announcing", "ending", "returned", "dropped"}
  BY <1>1 DEF RunInv, ControlInv, IInv, TypeOK, RunLabel, Ended, Endings
<1> QED
  BY <1>2, <1>3, <1>4, <1>5

\* Once the outcome of a run is visible, all its tasks have returned and no
\* connection of theirs is open.
THEOREM NothingOutlives == Spec => []NothingOutlivesItsOutcome
<1>1. IInv => NothingOutlivesItsOutcome
  <2> SUFFICES ASSUME IInv, NEW r \in Runs, Ended(r), NEW w \in Workers
               PROVE  wst[r][w] = "finished" /\ conn[r][w] # "open"
    BY DEF NothingOutlivesItsOutcome
  <2>1. wst[r][w] = "finished"
    BY EndedJoined
  <2> QED
    BY <2>1 DEF IInv, RunInv, WorkerInv
<1> QED
  BY <1>1, Invariance, PTL

\* The events of a run are one lifecycle: Started first, one Progress for each
\* connection that did its share, at most one terminal event and that last.
THEOREM FeedShape == Spec => []FeedIsOneLifecycle
<1>1. IInv => FeedIsOneLifecycle
  BY DEF IInv, RunInv, FeedInv, ProgressAt, OkUpTo, Workers, FeedIsOneLifecycle
<1> QED
  BY <1>1, Invariance, PTL

\* No event is ahead of the row: who learns of a run or of its end from the
\* stream finds it in the repository, with the outcome the event told.
THEOREM EventsFollow == Spec => []EventsFollowTheRow
<1>1. IInv => EventsFollowTheRow
  <2> SUFFICES ASSUME IInv, NEW r \in Runs, NEW i \in 1..Len(feed[r])
               PROVE  LET e == feed[r][i] IN
                        /\ row[r].status # "absent"
                        /\ e.kind \in Endings => /\ row[r].status = e.kind
                                                 /\ row[r].reason = e.reason
                        /\ e.kind = "completed" => row[r].stats = e.count
    BY DEF EventsFollowTheRow
  <2>1. feed[r] # <<>>
    OBVIOUS
  <2>2. row[r].status # "absent"
    BY <2>1 DEF IInv, RunInv, ControlInv
  <2> QED
    BY <2>2 DEF IInv, RunInv, FeedInv, Endings
<1> QED
  BY <1>1, Invariance, PTL

\* If every connection did its share, the run's counter and its histogram both
\* hold exactly the round-trips asked for.
LEMMA AllOkExact ==
  ASSUME IInv, NEW r \in Runs, joined[r] = Connections,
         \A w \in Workers : result[r][w] = "ok"
  PROVE  merged[r] = Total /\ completed[r] = Total
<1>1. RunInv(r)
  BY DEF IInv
<1>2. \A w \in Workers : samples[r][w] = Requests
  BY <1>1 DEF RunInv, WorkerInv
<1>7. \A w \in Workers : wst[r][w] = "finished"
  BY <1>1 DEF RunInv, WorkerInv
<1>3. Cardinality(Workers) = Connections /\ IsFiniteSet(Workers)
  BY ConstantTypes, FS_Interval DEF Workers
<1>4. Cardinality(1..Requests) = Requests /\ IsFiniteSet(1..Requests)
  BY ConstantTypes, FS_Interval
<1>5. merged[r] = Total
  <2>1. OkUpTo(r, joined[r]) = Workers
    BY DEF OkUpTo, Workers
  <2>2. Requests * Connections = Connections * Requests
    BY ConstantTypes
  <2> QED
    BY <1>1, <1>3, <2>1, <2>2 DEF RunInv, JoinInv, Total
<1>6. completed[r] = Total
  <2>1. SampleSlots(r) = Workers \X (1..Requests)
    BY <1>2, <1>7, ConstantTypes DEF SampleSlots, Counted
  <2>2. Cardinality(Workers \X (1..Requests)) = Connections * Requests
    BY <1>3, <1>4, FS_Product
  <2> QED
    BY <1>1, <2>1, <2>2 DEF RunInv, CountInv, Total
<1> QED
  BY <1>5, <1>6

LEMMA JoinedOk ==
  ASSUME IInv, NEW r \in Runs, joined[r] = Connections, firstErr[r] = "none"
  PROVE  \A w \in Workers : result[r][w] = "ok"
  BY DEF IInv, RunInv, JoinInv, Workers

\* A completed run did exactly connections * requests round-trips, by its
\* histogram and by its counter, and no connection of it failed.
THEOREM CompletedExact == Spec => []CompletedRunIsExact
<1>1. IInv => CompletedRunIsExact
  <2> SUFFICES ASSUME IInv, NEW r \in Runs, row[r].status = "completed"
               PROVE  /\ row[r].stats = Total
                      /\ row[r].throughput = Total
                      /\ \A w \in Workers : result[r][w] = "ok"
    BY DEF CompletedRunIsExact
  <2>1. joined[r] = Connections /\ row[r] = Outcome(r)
    BY EndedJoined DEF Ended, Endings
  <2>2. /\ firstErr[r] = "none"
        /\ row[r].stats = merged[r] /\ row[r].throughput = completed[r]
    BY <2>1 DEF Outcome, Row
  <2> QED
    BY <2>1, <2>2, JoinedOk, AllOkExact
<1> QED
  BY <1>1, Invariance, PTL

\* A failed run blames the lowest-numbered connection that failed, in whatever
\* order the tasks ended, and keeps the samples of those that did not.
THEOREM FailureReasonCorrect == Spec => []FailureIsTheFirstInOrder
<1>1. IInv => FailureIsTheFirstInOrder
  <2> SUFFICES ASSUME IInv, NEW r \in Runs, row[r].status = "failed"
               PROVE  /\ \E w \in Workers : /\ result[r][w] = row[r].reason
                                            /\ \A v \in 1..(w - 1) : result[r][v] = "ok"
                      /\ row[r].stats = Requests *
                           Cardinality({w \in Workers : result[r][w] = "ok"})
    BY DEF FailureIsTheFirstInOrder
  <2>1. joined[r] = Connections /\ row[r] = Outcome(r)
    BY EndedJoined DEF Ended, Endings
  <2>2. firstErr[r] # "none"
    <3> SUFFICES ASSUME firstErr[r] = "none" PROVE FALSE
      OBVIOUS
    <3>1. merged[r] = Total
      BY <2>1, JoinedOk, AllOkExact
    <3>2. Total # 0
      BY ConstantTypes DEF Total
    <3> QED
      BY <2>1, <3>1, <3>2 DEF Outcome, Row
  <2>3. row[r].reason = firstErr[r] /\ row[r].stats = merged[r]
    BY <2>1, <2>2 DEF Outcome, Row
  <2> QED
    BY <2>1, <2>2, <2>3 DEF IInv, RunInv, JoinInv, OkUpTo, Workers
<1> QED
  BY <1>1, Invariance, PTL

\* What run answers its caller is what the repository and the stream say: Ok
\* for an outcome recorded and announced, Err for a run whose row has no outcome
\* and of which no subscriber ever saw an end, Completed or Failed.
THEOREM AnswersMatch == Spec => []AnswersMatchTheRecord
<1>1. IInv => AnswersMatchTheRecord
  <2> SUFFICES ASSUME IInv, NEW r \in Runs
               PROVE  /\ pc[r] = "returned" =>
                           /\ Ended(r)
                           /\ \E i \in 1..Len(feed[r]) : feed[r][i].kind = row[r].status
                      /\ pc[r] = "errored" =>
                           /\ ~Ended(r)
                           /\ \A i \in 1..Len(feed[r]) : feed[r][i].kind \notin Endings
    BY DEF AnswersMatchTheRecord
  <2>1. feed[r] \in Seq(RunEvent)
    BY DEF IInv, TypeOK
  <2>2. CASE pc[r] = "returned"
    <3>1. feed[r] # <<>> /\ Ended(r) /\ feed[r][Len(feed[r])].kind = row[r].status
      BY <2>2 DEF IInv, RunInv, ControlInv, FeedInv
    <3>2. Len(feed[r]) \in 1..Len(feed[r])
      BY <2>1, <3>1
    <3> QED
      BY <2>2, <3>1, <3>2
  <2>3. CASE pc[r] = "errored"
    <3>1. row[r].status \in {"absent", "running"}
      BY <2>3 DEF IInv, RunInv, ControlInv
    <3>2. \A i \in 1..Len(feed[r]) : feed[r][i].kind \notin Endings
      BY <2>3 DEF IInv, RunInv, FeedInv
    <3> QED
      BY <2>3, <3>1, <3>2 DEF Ended, Endings
  <2> QED
    BY <2>2, <2>3
<1> QED
  BY <1>1, Invariance, PTL

\* A terminal row is final, and so is everything it was computed from; what may
\* still be published is its announcement.
THEOREM EndFinal == Spec => TheEndIsFinal
<1> DEFINE Final(r) ==
      /\ row'[r] = row[r]
      /\ completed'[r] = completed[r]
      /\ samples'[r] = samples[r]
      /\ result'[r] = result[r]
      /\ Len(feed'[r]) > Len(feed[r]) =>
           feed'[r] = Append(feed[r], Event(row[r].status, feed'[r][Len(feed'[r])].count,
                                            row[r].reason))
<1>1. ASSUME IInv, [Next]_vars, NEW r \in Runs, Ended(r)
      PROVE  Final(r)
  <2>1. ASSUME Untouched(r) PROVE Final(r)
    <3>1. feed[r] \in Seq(RunEvent)
      BY <1>1 DEF IInv, TypeOK
    <3> QED
      BY <2>1, <3>1 DEF Untouched
  <2>2. /\ joined[r] = Connections /\ row[r] = Outcome(r)
        /\ \A w \in Workers : wst[r][w] = "finished"
        /\ pc[r] \in {"announcing", "ending", "returned", "dropped"}
    BY <1>1, EndedJoined
  <2>3. CASE UNCHANGED vars
    BY <2>1, <2>3 DEF Untouched, vars, runVars, workerVars
  <2>4. ASSUME NEW q \in Runs, q # r, RunAction(q) \/ \E w \in Workers : WorkerAction(q, w)
        PROVE  Final(r)
    BY <1>1, <2>1, <2>4, OthersUntouched DEF IInv
  <2>5. ASSUME NEW w \in Workers, WorkerAction(r, w)
        PROVE  Final(r)
    BY <2>2, <2>5, WorkerCases
    DEF Connect, ConnectFails, AttemptFails, RetryConnect, GiveUp, RoundTrip,
        CountRoundTrip, FailRoundTrip, LoadCompleted, ReportProgress, Panic
  <2>6. ASSUME RunAction(r), ~Announce(r)
        PROVE  Final(r)
    <3>1. UNCHANGED <<row, feed, completed, samples, result>>
      BY <2>2, <2>6 DEF RunAction, RunStep, Save, SaveFails, AnnounceStart, Start, JoinNext,
                        RecordOutcome, RecordFails, CountEnding, DropRun, workerVars
    <3>2. feed[r] \in Seq(RunEvent)
      BY <1>1 DEF IInv, TypeOK
    <3> QED
      BY <3>1, <3>2
  <2>7. CASE Announce(r)
    <3>1. UNCHANGED <<row, completed, samples, result>>
      BY <2>7 DEF Announce, workerVars
    <3>2. row[r].status = "completed" => row[r].reason = "none"
      BY <2>2 DEF Outcome, Row
    <3>3. row[r].status # "completed" => row[r].status = "failed"
      BY <1>1 DEF Ended, Endings
    <3>4. PICK e : /\ Publish(r, e)
                   /\ e = Event(row[r].status, e.count, row[r].reason)
      BY <2>7, <3>2, <3>3 DEF Announce, EndEvent, Event
    <3>5. TypeOK
      BY <1>1 DEF IInv
    <3>6. feed'[r] = Append(feed[r], e) /\ feed'[r][Len(feed'[r])] = e
      <4>1. feed'[r] = Append(feed[r], e)
        BY <3>4, <3>5 DEF TypeOK, Publish
      <4>2. Len(feed'[r]) = Len(feed[r]) + 1 /\ feed'[r][Len(feed[r]) + 1] = e
        BY <3>4, <3>5, AppendFacts
      <4> QED
        BY <4>1, <4>2
    <3> QED
      BY <3>1, <3>4, <3>6
  <2> QED
    BY <1>1, <2>3, <2>4, <2>5, <2>6, <2>7 DEF Next, Done, RunAction
<1>2. IInv /\ [Next]_vars => [\A r \in Runs : Ended(r) => Final(r)]_vars
  BY <1>1
<1> QED
  BY <1>2, Invariance, PTL DEF Spec, TheEndIsFinal

-----------------------------------------------------------------------------
(* The engine implements RunLifecycle                                      *)

\* The news of a run, read off the invariant: that it started, as long as its
\* row has not ended or its caller is still to announce the end, and then that.
LEMMA NewsInv ==
  IInv => \A r \in Runs :
            /\ feed[r] = <<>> => LastNews(r) = "none"
            /\ feed[r] # <<>> /\ (~Ended(r) \/ pc[r] \notin {"ending", "returned", "dropped"})
                 => LastNews(r) = "started"
            /\ pc[r] = "ending" => LastNews(r) = row[r].status
<1> SUFFICES ASSUME IInv, NEW r \in Runs
             PROVE  /\ feed[r] = <<>> => LastNews(r) = "none"
                    /\ feed[r] # <<>> /\ (~Ended(r) \/ pc[r] \notin {"ending", "returned", "dropped"})
                         => LastNews(r) = "started"
                    /\ pc[r] = "ending" => LastNews(r) = row[r].status
  OBVIOUS
<1>1. feed[r] = <<>> => LastNews(r) = "none"
  BY DEF LastNews
<1>2. ASSUME feed[r] # <<>>
      PROVE  /\ ~Ended(r) \/ pc[r] \notin {"ending", "returned", "dropped"}
                   => LastNews(r) = "started"
             /\ pc[r] = "ending" => LastNews(r) = row[r].status
  <2>1. feed[r] \in Seq(RunEvent)
    BY DEF IInv, TypeOK
  <2>2. Len(feed[r]) \in 1..Len(feed[r])
    BY <1>2, <2>1
  <2> QED
    BY <1>2, <2>2 DEF LastNews, IInv, RunInv, FeedInv, ControlInv, Ended
<1>3. pc[r] = "ending" => feed[r] # <<>>
  BY DEF IInv, RunInv, ControlInv
<1> QED
  BY <1>1, <1>2, <1>3

st == [r \in Runs |-> row[r].status]
nw == [r \in Runs |-> LastNews(r)]

\* A step that leaves rows and news alone is a stutter of the lifecycle.
LEMMA LifecycleStutter ==
  ASSUME \A q \in Runs : row'[q].status = row[q].status,
         \A q \in Runs : LastNews(q)' = LastNews(q)
  PROVE  st' = st /\ nw' = nw
  BY DEF st, nw

LEMMA LifecycleStep ==
  ASSUME IInv, IInv', [Next]_vars
  PROVE  [Lifecycle!Next]_(Lifecycle!vars)
<1>1. \A r \in Runs :
        /\ feed[r] = <<>> => LastNews(r) = "none"
        /\ feed[r] # <<>> /\ (~Ended(r) \/ pc[r] \notin {"ending", "returned", "dropped"})
             => LastNews(r) = "started"
  BY NewsInv
<1>2. \A r \in Runs :
        /\ feed'[r] # <<>> /\ (~Ended(r)' \/ pc'[r] \notin {"ending", "returned", "dropped"})
             => LastNews(r)' = "started"
        /\ pc'[r] = "ending" => LastNews(r)' = row'[r].status
  <2>1. (IInv => \A r \in Runs :
            /\ feed[r] = <<>> => LastNews(r) = "none"
            /\ feed[r] # <<>> /\ (~Ended(r) \/ pc[r] \notin {"ending", "returned", "dropped"})
                 => LastNews(r) = "started"
            /\ pc[r] = "ending" => LastNews(r) = row[r].status)'
    BY NewsInv, PTL
  <2> QED
    BY <2>1
<1>3. TypeOK /\ TypeOK' /\ \A r \in Runs : RunInv(r) /\ RunInv(r)'
  BY DEF IInv
<1>4. Lifecycle!vars = <<st, nw>>
  BY DEF Lifecycle!vars, st, nw
<1>5. ASSUME UNCHANGED vars
      PROVE  UNCHANGED (Lifecycle!vars)
  <2>1. st' = st /\ nw' = nw
    BY <1>5 DEF st, nw, LastNews, vars, runVars
  <2> QED
    BY <2>1 DEF Lifecycle!vars, st, nw
<1>6. ASSUME NEW r \in Runs, RunAction(r) \/ \E w \in Workers : WorkerAction(r, w)
      PROVE  [Lifecycle!Next]_(Lifecycle!vars)
  <2> USE DEF Goto, runVars, workerVars
  <2>1. \A q \in Runs \ {r} : row'[q] = row[q] /\ LastNews(q)' = LastNews(q)
    BY <1>3, <1>6, OthersUntouched DEF Untouched, LastNews
  <2>2. ASSUME row'[r].status = row[r].status, LastNews(r)' = LastNews(r)
        PROVE  [Lifecycle!Next]_(Lifecycle!vars)
    <3>1. st' = st /\ nw' = nw
      BY <2>1, <2>2 DEF st, nw
    <3> QED
      BY <3>1 DEF Lifecycle!vars, st, nw
  <2>3. \A q \in Runs : st[q] = row[q].status /\ nw[q] = LastNews(q)
    BY DEF st, nw
  <2>4. /\ st' = [st EXCEPT ![r] = row'[r].status]
        /\ nw' = [nw EXCEPT ![r] = LastNews(r)']
    BY <2>1 DEF st, nw
  <2>5. CASE Save(r)
    <3>1. /\ row[r].status = "absent" /\ row'[r].status = "running"
          /\ LastNews(r)' = LastNews(r)
      BY <1>3, <2>5 DEF Save, TypeOK, RunInv, ControlInv, NoRow, Row, LastNews
    <3>2. nw' = nw
      BY <2>1, <3>1 DEF nw
    <3>3. Lifecycle!Accept(r)
      BY <2>3, <2>4, <3>1, <3>2 DEF Lifecycle!Accept, st, nw
    <3> QED
      BY <3>3 DEF Lifecycle!Next
  <2>6. CASE AnnounceStart(r)
    <3>1. /\ row'[r] = row[r] /\ row[r].status = "running"
          /\ LastNews(r) = "none" /\ LastNews(r)' = "started"
      BY <1>1, <1>2, <1>3, <2>6 DEF AnnounceStart, TypeOK, RunInv, ControlInv
    <3>2. st' = st
      BY <2>1, <3>1 DEF st
    <3>3. Lifecycle!AnnounceStart(r)
      BY <2>3, <2>4, <3>1, <3>2 DEF Lifecycle!AnnounceStart, st, nw
    <3> QED
      BY <3>3 DEF Lifecycle!Next, Lifecycle!Advance
  <2>7. CASE RecordOutcome(r)
    <3>1. /\ row[r].status = "running" /\ row'[r].status \in Endings
          /\ LastNews(r) = "started" /\ LastNews(r)' = LastNews(r)
      <4>1. pc[r] = "recording" /\ pc'[r] = "announcing" /\ feed' = feed
        BY <1>3, <2>7 DEF RecordOutcome, TypeOK
      <4>2. feed[r] # <<>> /\ row[r].status = "running" /\ row'[r].status \in Endings
        BY <1>3, <4>1 DEF RunInv, ControlInv, Ended
      <4> QED
        BY <1>1, <4>1, <4>2 DEF LastNews
    <3>2. nw' = nw
      BY <2>1, <3>1 DEF nw
    <3>3. Lifecycle!Finish(r)
      BY <2>3, <2>4, <3>1, <3>2 DEF Lifecycle!Finish, Lifecycle!Endings, Endings, st, nw
    <3> QED
      BY <3>3 DEF Lifecycle!Next, Lifecycle!Advance
  <2>8. CASE Announce(r)
    <3>1. /\ row'[r] = row[r] /\ row[r].status \in Endings
          /\ LastNews(r) = "started" /\ LastNews(r)' = row[r].status
      <4>1. pc[r] = "announcing" /\ pc'[r] = "ending" /\ row' = row
        BY <1>3, <2>8 DEF Announce, TypeOK
      <4>2. feed[r] # <<>> /\ row[r].status \in Endings
        BY <1>3, <4>1 DEF RunInv, ControlInv, Ended
      <4> QED
        BY <1>1, <1>2, <4>1, <4>2
    <3>2. st' = st
      BY <2>1, <3>1 DEF st
    <3>3. Lifecycle!AnnounceEnd(r)
      BY <2>3, <2>4, <3>1, <3>2 DEF Lifecycle!AnnounceEnd, Lifecycle!Endings, Endings, st, nw
    <3> QED
      BY <3>3 DEF Lifecycle!Next, Lifecycle!Advance
  <2>9. CASE \/ SaveFails(r) \/ Start(r) \/ JoinNext(r) \/ RecordFails(r)
             \/ CountEnding(r) \/ DropRun(r)
    <3>1. row' = row /\ feed' = feed
      BY <2>9 DEF SaveFails, Start, JoinNext, RecordFails, CountEnding, DropRun
    <3> QED
      BY <2>2, <3>1 DEF LastNews
  <2>10. ASSUME NEW w \in Workers, WorkerAction(r, w)
         PROVE  [Lifecycle!Next]_(Lifecycle!vars)
    <3>1. Live(r, w) /\ row' = row /\ pc' = pc
      BY <2>10, WorkerCases
      DEF Live, Connect, ConnectFails, AttemptFails, RetryConnect, GiveUp, RoundTrip,
          CountRoundTrip, FailRoundTrip, LoadCompleted, ReportProgress, Panic
    <3>2. ~Ended(r) /\ ~Ended(r)' /\ feed[r] # <<>>
      BY <1>3, <3>1, LiveTask DEF Ended
    <3>3. feed'[r] # <<>>
      <4>1. wst'[r][w] # "unspawned"
        BY <1>3, <2>10, StaysSpawned
      <4> QED
        BY <1>3, <4>1 DEF RunInv, ControlInv
    <3> QED
      BY <1>1, <1>2, <2>2, <3>1, <3>2, <3>3
  <2> QED
    BY <1>6, <2>5, <2>6, <2>7, <2>8, <2>9, <2>10 DEF RunAction, RunStep
<1> QED
  BY <1>5, <1>6 DEF Next, Done, RunAction

\* Seen through the repository and the event stream the engine behaves as
\* RunLifecycle says, whatever its connections, its ports and its callers do.
THEOREM Refinement == Spec => ImplementsLifecycle
<1>1. Init => Lifecycle!Init
  BY DEF Init, Lifecycle!Init, LastNews, NoRow, Row
<1>2. IInv /\ IInv' /\ [Next]_vars => [Lifecycle!Next]_(Lifecycle!vars)
  BY LifecycleStep
<1> QED
  BY <1>1, <1>2, Invariance, PTL DEF Spec, ImplementsLifecycle, Lifecycle!Spec
=============================================================================
