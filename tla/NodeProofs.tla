----------------------------- MODULE NodeProofs -----------------------------
(***************************************************************************)
(* Proofs about Node: the server is that of Serve, and the benchmark the   *)
(* command line asks for is one of the engine's, whose proofs are taken    *)
(* over by instantiation.  For any clients and signals, command lines,     *)
(* numbers of connections and requests, timeouts, latencies and histograms.*)
(***************************************************************************)
EXTENDS Node, HistogramProofs, Sequences

-----------------------------------------------------------------------------
(* The server.                                                             *)

Pending(c) == IF http[c] \in {"reading", "executing"} THEN 1 ELSE 0

\* While nothing has cut it short every request that began is answered,
\* abandoned or pending; and no connection is open in a process that ended.
ServeInv ==
  /\ ServeTypeOK
  /\ phase = "exited" <=> exit # "none"
  /\ phase = "exited" => \A c \in Clients : http[c] \in {"none", "closed"}
  /\ exit \in {"none", "ok"} =>
       \A c \in Clients : began[c] = answered[c] + abandoned[c] + Pending(c)

LEMMA InitInv == ServeInit => ServeInv
  BY SMT DEF ServeInit, ServeInv, ServeTypeOK, Pending, Place

\* A process that ends well was waiting for no request.
LEMMA ProcessInv == ServeInv /\ ProcessStep => ServeInv'
<1> SUFFICES ASSUME ServeInv, ProcessStep PROVE ServeInv'
  OBVIOUS
<1> USE DEF ServeInv, ServeTypeOK, Pending, Place, requestVars
<1>1. CASE Bind
  BY <1>1, SMT DEF Bind
<1>2. CASE StartupFails
  BY <1>2, SMT DEF StartupFails, End
<1>3. CASE InstallHandlers
  BY <1>3, SMT DEF InstallHandlers
<1>4. CASE ShutDown
  BY <1>4, SMT DEF ShutDown
<1>5. CASE Exit
  BY <1>5, SMT DEF Exit, End, Busy
<1> QED
  BY <1>1, <1>2, <1>3, <1>4, <1>5 DEF ProcessStep

LEMMA SignalInv ==
  ASSUME ServeInv, NEW s \in Signals, SignalCaught(s) \/ SignalKills(s)
  PROVE  ServeInv'
<1> USE DEF ServeInv, ServeTypeOK, Pending, Place, requestVars
<1>1. CASE SignalCaught(s)
  BY <1>1, SMT DEF SignalCaught
<1>2. CASE SignalKills(s)
  BY <1>2, SMT DEF SignalKills, End
<1> QED
  BY <1>1, <1>2

\* A connection takes its request from begun over pending to answered or
\* abandoned.
LEMMA ConnectionInv ==
  ASSUME ServeInv, NEW c \in Clients,
         Accept(c) \/ BeginRequest(c) \/ Disconnect(c) \/ HandlerStep(c) \/ ReadStep(c)
  PROVE  ServeInv'
<1> USE DEF ServeInv, ServeTypeOK, Pending, Place, shutdownVars, requestVars, Go, Count
<1>1. CASE Accept(c)
  BY <1>1, SMT DEF Accept
<1>2. CASE BeginRequest(c)
  BY <1>2, SMT DEF BeginRequest
<1>3. CASE Disconnect(c)
  <2>1. http' = [http EXCEPT ![c] = "closed"] /\ http[c] # "none"
    BY <1>3, SMT DEF Disconnect
  <2>2. CASE http[c] \in {"reading", "executing"}
    BY <1>3, <2>1, <2>2, SMT DEF Disconnect
  <2>3. CASE http[c] \notin {"reading", "executing"}
    BY <1>3, <2>1, <2>3, SMT DEF Disconnect
  <2> QED
    BY <2>2, <2>3
<1>4. CASE Respond(c)
  BY <1>4, SMT DEF Respond
<1>5. CASE CloseIdle(c)
  BY <1>5, SMT DEF CloseIdle
<1>6. CASE CallHandler(c)
  BY <1>6, SMT DEF CallHandler
<1>7. CASE Upgrade(c)
  BY <1>7, SMT DEF Upgrade
<1> QED
  BY <1>1, <1>2, <1>3, <1>4, <1>5, <1>6, <1>7 DEF HandlerStep, ReadStep

\* The invariant of the server, whatever clients and signals do.
THEOREM ServeInvariance == ServeSpec => []ServeInv
<1>1. ServeInv /\ [ServeNext]_serveVars => ServeInv'
  <2> SUFFICES ASSUME ServeInv, [ServeNext]_serveVars PROVE ServeInv'
    OBVIOUS
  <2>1. CASE ProcessStep
    BY <2>1, ProcessInv
  <2>2. CASE \E s \in Signals : SignalCaught(s) \/ SignalKills(s)
    BY <2>2, SignalInv
  <2>3. CASE \E c \in Clients : \/ Accept(c) \/ BeginRequest(c) \/ Disconnect(c)
                                \/ HandlerStep(c) \/ ReadStep(c)
    BY <2>3, ConnectionInv
  <2>4. CASE UNCHANGED serveVars
    BY <2>4, SMT DEF serveVars, shutdownVars, requestVars, ServeInv, ServeTypeOK, Pending
  <2> QED
    BY <2>1, <2>2, <2>3, <2>4 DEF ServeNext
<1> QED
  BY <1>1, InitInv, PTL DEF ServeSpec

\* A graceful exit cuts no request.
THEOREM GracefulExit == ServeSpec => []EveryRequestIsAnswered
<1>1. ServeInv => EveryRequestIsAnswered
  BY SMT DEF ServeInv, ServeTypeOK, EveryRequestIsAnswered, Pending
<1> QED
  BY <1>1, ServeInvariance, PTL

-----------------------------------------------------------------------------
(* The engine of the command.                                              *)

EngineProofs == INSTANCE BenchProgressProofs WITH
  Runs <- {Run}, Panics <- FALSE, RepoFaults <- FALSE, DropPoints <- {}

LEMMA EngineAssumptionHolds == EngineProofs!EngineAssumption
<1>1. EngineProofs!IsFiniteSet({Run})
  <2>1. <<Run>> \in Seq({Run}) /\ \A r \in {Run} : \E n \in 1..Len(<<Run>>) : <<Run>>[n] = r
    OBVIOUS
  <2>. QED
    BY <2>1 DEF EngineProofs!IsFiniteSet
<1>. QED
  BY <1>1, BenchAssumption DEF EngineProofs!EngineAssumption

SafeBench == BenchInit /\ [][BenchNext]_benchVars

LEMMA InitIsEngines == BenchInit => EngineProofs!Init
BY DEF BenchInit, Engine!Init, Engine!NoRow, Engine!Row, Engine!Workers,
       EngineProofs!Init, EngineProofs!NoRow, EngineProofs!Row, EngineProofs!Workers

\* The two instances of the engine have the same steps.
LEMMA RunStepIsEngines ==
  ASSUME Engine!Save(Run) \/ Engine!AnnounceStart(Run) \/ Engine!Start(Run)
         \/ Engine!JoinNext(Run) \/ Engine!RecordOutcome(Run) \/ Engine!Announce(Run)
         \/ Engine!CountEnding(Run)
  PROVE  EngineProofs!Next
<1>. USE DEF Engine!Goto, Engine!Publish, Engine!Row, Engine!Event, Engine!Workers,
             EngineProofs!Goto, EngineProofs!Publish, EngineProofs!Row,
             EngineProofs!Event, EngineProofs!Workers,
             Engine!workerVars, EngineProofs!workerVars
<1>0. EngineProofs!RunStep(Run) => EngineProofs!Next
  BY DEF EngineProofs!Next
<1>1. CASE Engine!Save(Run)
  BY <1>1 DEF Engine!Save, EngineProofs!Save, EngineProofs!Next
<1>2. CASE Engine!AnnounceStart(Run)
  <2>1. EngineProofs!AnnounceStart(Run)
    BY <1>2 DEF Engine!AnnounceStart, EngineProofs!AnnounceStart, Engine!Total,
                EngineProofs!Total
  <2>. QED
    BY <1>0, <2>1 DEF EngineProofs!RunStep
<1>3. CASE Engine!Start(Run)
  <2>1. EngineProofs!Start(Run)
    BY <1>3 DEF Engine!Start, EngineProofs!Start
  <2>. QED
    BY <1>0, <2>1 DEF EngineProofs!RunStep
<1>4. CASE Engine!JoinNext(Run)
  <2>1. EngineProofs!JoinNext(Run)
    BY <1>4 DEF Engine!JoinNext, EngineProofs!JoinNext, Engine!FirstError,
                EngineProofs!FirstError, Engine!AllJoined, EngineProofs!AllJoined
  <2>. QED
    BY <1>0, <2>1 DEF EngineProofs!RunStep
<1>5. CASE Engine!RecordOutcome(Run)
  <2>1. EngineProofs!RecordOutcome(Run)
    BY <1>5 DEF Engine!RecordOutcome, EngineProofs!RecordOutcome, Engine!Outcome,
                EngineProofs!Outcome
  <2>. QED
    BY <1>0, <2>1 DEF EngineProofs!RunStep
<1>6. CASE Engine!Announce(Run)
  <2>1. EngineProofs!Announce(Run)
    BY <1>6 DEF Engine!Announce, EngineProofs!Announce, Engine!EndEvent,
                EngineProofs!EndEvent
  <2>. QED
    BY <1>0, <2>1 DEF EngineProofs!RunStep
<1>7. CASE Engine!CountEnding(Run)
  <2>1. EngineProofs!CountEnding(Run)
    BY <1>7 DEF Engine!CountEnding, EngineProofs!CountEnding
  <2>. QED
    BY <1>0, <2>1 DEF EngineProofs!RunStep
<1>. QED
  BY <1>1, <1>2, <1>3, <1>4, <1>5, <1>6, <1>7

LEMMA WorkerStepIsEngines ==
  ASSUME NEW w \in Engine!Workers,
         \/ Engine!Connect(Run, w) \/ Engine!ConnectFails(Run, w)
         \/ Engine!RoundTrip(Run, w) \/ Engine!CountRoundTrip(Run, w)
         \/ Engine!FailRoundTrip(Run, w)
         \/ Engine!LoadCompleted(Run, w) \/ Engine!ReportProgress(Run, w)
  PROVE  EngineProofs!Next
<1>0. w \in EngineProofs!Workers
  BY DEF Engine!Workers, EngineProofs!Workers
<1>1. EngineProofs!OwnStep(Run, w) \/ EngineProofs!AnswerStep(Run, w) => EngineProofs!Next
  BY <1>0 DEF EngineProofs!WorkerStep, EngineProofs!WorkerAction, EngineProofs!Next
<1>. USE DEF Engine!runVars, EngineProofs!runVars, Engine!Return, EngineProofs!Return,
             Engine!Release, EngineProofs!Release, Engine!LeaveRetry, EngineProofs!LeaveRetry
<1>2. CASE Engine!Connect(Run, w)
  <2>1. EngineProofs!Connect(Run, w)
    BY <1>2 DEF Engine!Connect, EngineProofs!Connect
  <2>. QED
    BY <1>1, <2>1 DEF EngineProofs!AnswerStep
<1>3. CASE Engine!ConnectFails(Run, w)
  <2>. USE DEF Engine!MayRetry, EngineProofs!MayRetry, Engine!MaxAttempts,
               EngineProofs!MaxAttempts, Engine!IsRetryable, EngineProofs!IsRetryable
  <2>1. PICK e \in EngineProofs!ConnectError : Engine!AttemptFails(Run, w, e)
    BY <1>3 DEF Engine!ConnectFails, Engine!ConnectError, EngineProofs!ConnectError
  <2>2. Engine!RetryConnect(Run, w, e) => EngineProofs!AttemptFails(Run, w, e)
    BY DEF Engine!RetryConnect, EngineProofs!RetryConnect, EngineProofs!AttemptFails
  <2>3. Engine!GiveUp(Run, w, e) => EngineProofs!AttemptFails(Run, w, e)
    BY DEF Engine!GiveUp, EngineProofs!GiveUp, Engine!ConnectFailure,
                EngineProofs!ConnectFailure, EngineProofs!AttemptFails
  <2>4. EngineProofs!ConnectFails(Run, w)
    <3>1. EngineProofs!AttemptFails(Run, w, e)
      BY <2>1, <2>2, <2>3 DEF Engine!AttemptFails
    <3>. QED
      BY <3>1 DEF EngineProofs!ConnectFails
  <2>. QED
    BY <1>1, <2>4 DEF EngineProofs!AnswerStep
<1>4. CASE Engine!RoundTrip(Run, w)
  <2>1. EngineProofs!RoundTrip(Run, w)
    BY <1>4 DEF Engine!RoundTrip, EngineProofs!RoundTrip
  <2>. QED
    BY <1>1, <2>1 DEF EngineProofs!AnswerStep
<1>5. CASE Engine!CountRoundTrip(Run, w)
  <2>1. EngineProofs!CountRoundTrip(Run, w)
    BY <1>5 DEF Engine!CountRoundTrip, EngineProofs!CountRoundTrip
  <2>. QED
    BY <1>1, <2>1 DEF EngineProofs!OwnStep
<1>6. CASE Engine!FailRoundTrip(Run, w)
  <2>1. EngineProofs!FailRoundTrip(Run, w)
    BY <1>6 DEF Engine!FailRoundTrip, EngineProofs!FailRoundTrip
  <2>. QED
    BY <1>1, <2>1 DEF EngineProofs!AnswerStep
<1>7. CASE Engine!LoadCompleted(Run, w)
  <2>1. EngineProofs!LoadCompleted(Run, w)
    BY <1>7 DEF Engine!LoadCompleted, EngineProofs!LoadCompleted, Engine!ProgressCount,
                EngineProofs!ProgressCount
  <2>. QED
    BY <1>1, <2>1 DEF EngineProofs!OwnStep
<1>8. CASE Engine!ReportProgress(Run, w)
  <2>1. EngineProofs!ReportProgress(Run, w)
    BY <1>8 DEF Engine!ReportProgress, EngineProofs!ReportProgress, Engine!Publish,
                EngineProofs!Publish, Engine!Event, EngineProofs!Event
  <2>. QED
    BY <1>1, <2>1 DEF EngineProofs!OwnStep
<1>. QED
  BY <1>2, <1>3, <1>4, <1>5, <1>6, <1>7, <1>8

LEMMA BenchStepsEngine == [BenchNext]_benchVars => [EngineProofs!Next]_(EngineProofs!vars)
<1>. SUFFICES ASSUME [BenchNext]_benchVars
              PROVE  EngineProofs!Next \/ UNCHANGED engineVars
  BY DEF EngineProofs!vars, EngineProofs!runVars, EngineProofs!workerVars, engineVars
<1>1. CASE UNCHANGED benchVars
  BY <1>1 DEF benchVars
<1>2. CASE Refuse \/ Prepare \/ PrintReport
  BY <1>2 DEF Refuse, Prepare, PrintReport
<1>3. CASE Drive
  BY <1>3, RunStepIsEngines, WorkerStepIsEngines
     DEF Drive, EngineStep, JoinAndMerge, TimedRoundTrip
<1>. QED
  BY <1>1, <1>2, <1>3 DEF BenchNext

\* The run of the command is a run of the engine, whatever the connector: all that
\* is proved of the engine is true of it.
THEOREM CommandDrivesEngine == SafeBench => EngineProofs!Spec
BY InitIsEngines, BenchStepsEngine, PTL DEF SafeBench, EngineProofs!Spec

-----------------------------------------------------------------------------
(* What the command relies on.                                             *)

Reasons == {"connect_timeout", "connection_lost", "io", "internal"}

EngineFacts ==
  /\ result[Run] \in [1..Connections -> Reasons \union {"pending", "ok"}]
  /\ result = [r \in {Run} |-> result[r]] /\ samples = [r \in {Run} |-> samples[r]]
  /\ joined = [r \in {Run} |-> joined[r]] /\ merged = [r \in {Run} |-> merged[r]]
  /\ merged[Run] \in Nat
  /\ samples[Run] \in [1..Connections -> 0..Requests]
  /\ joined[Run] \in 0..Connections
  /\ pc[Run] = "returned" => row[Run].status \in {"completed", "failed"}
  /\ row[Run].status \in {"completed", "failed"} => joined[Run] = Connections
  /\ row[Run].status = "completed" => \A w \in 1..Connections : result[Run][w] = "ok"
  /\ row[Run].status = "failed" =>
       /\ row[Run].reason \in Reasons
       /\ \E w \in 1..Connections : result[Run][w] = row[Run].reason
  /\ \A w \in 1..Connections :
       /\ result[Run][w] = "ok" => samples[Run][w] = Requests
       /\ wst[Run][w] # "finished" => result[Run][w] = "pending"
       /\ w <= joined[Run] => result[Run][w] # "pending"

LEMMA EngineFactsHold == SafeBench => []EngineFacts
<1>1. EngineProofs!Spec => []EngineProofs!IInv
  BY EngineProofs!Invariance, EngineAssumptionHolds
<1>2. EngineProofs!Spec => []EngineProofs!CompletedRunIsExact
  BY EngineProofs!CompletedExact, EngineAssumptionHolds
<1>3. EngineProofs!Spec => []EngineProofs!FailureIsTheFirstInOrder
  BY EngineProofs!FailureReasonCorrect, EngineAssumptionHolds
<1>4. EngineProofs!IInv /\ EngineProofs!CompletedRunIsExact
        /\ EngineProofs!FailureIsTheFirstInOrder => EngineFacts
  <2>. SUFFICES ASSUME EngineProofs!IInv, EngineProofs!CompletedRunIsExact,
                       EngineProofs!FailureIsTheFirstInOrder
                PROVE  EngineFacts
    OBVIOUS
  <2>. USE DEF EngineProofs!Workers
  <2>1. /\ result \in [{Run} -> [1..Connections -> Reasons \union {"pending", "ok"}]]
        /\ samples \in [{Run} -> [1..Connections -> 0..Requests]]
        /\ joined \in [{Run} -> 0..Connections] /\ merged \in [{Run} -> Nat]
        /\ row[Run].reason \in Reasons \union {"none"}
    BY DEF EngineProofs!IInv, EngineProofs!TypeOK, EngineProofs!FailureReason,
           EngineProofs!RunSummary, Reasons
  <2>2. EngineProofs!RunInv(Run)
    BY DEF EngineProofs!IInv
  <2>3. /\ pc[Run] = "returned" => row[Run].status \in {"completed", "failed"}
        /\ row[Run].status \in {"completed", "failed"} => joined[Run] = Connections
    BY <2>2 DEF EngineProofs!RunInv, EngineProofs!ControlInv, EngineProofs!Ended,
                EngineProofs!Endings
  <2>4. row[Run].status = "completed" => \A w \in 1..Connections : result[Run][w] = "ok"
    BY DEF EngineProofs!CompletedRunIsExact
  <2>5. row[Run].status = "failed" =>
          \E w \in 1..Connections : result[Run][w] = row[Run].reason
    BY DEF EngineProofs!FailureIsTheFirstInOrder
  <2>6. row[Run].status = "failed" => row[Run].reason \in Reasons
    BY <2>1, <2>5
  <2>7. ASSUME NEW w \in 1..Connections
        PROVE  /\ result[Run][w] = "ok" => samples[Run][w] = Requests
               /\ wst[Run][w] # "finished" => result[Run][w] = "pending"
    BY <2>2 DEF EngineProofs!RunInv, EngineProofs!WorkerInv
  <2>8. \A w \in 1..joined[Run] : result[Run][w] # "pending"
    BY <2>2 DEF EngineProofs!RunInv, EngineProofs!JoinInv
  <2>9. \A w \in 1..Connections : w <= joined[Run] => result[Run][w] # "pending"
    BY <2>1, <2>8
  <2>. QED
    BY <2>1, <2>3, <2>4, <2>5, <2>6, <2>7, <2>9 DEF EngineFacts
<1>. QED
  BY <1>1, <1>2, <1>3, <1>4, CommandDrivesEngine, PTL

-----------------------------------------------------------------------------
(* The invariant of the command.                                           *)

Chosen == connector \in BuildConnector(args.transport, args.sim_delay)
            /\ connector.kind # "error"

\* What happens over the simulator, by its delay.
SimulatedInv ==
  args.transport = "loopback" =>
    \A w \in 1..Connections :
      /\ result[Run][w] \in {"pending", "ok", "io"}
      /\ InTime => result[Run][w] # "io"
      /\ TooLate => samples[Run][w] = 0

\* One slot for each round-trip asked for: those done, those of one task, and those
\* whose histograms have been merged.
Slots  == (1..Connections) \X (1..Requests)
Taken  == {s \in Slots : s[2] <= samples[Run][s[1]]}
Own(w) == {s \in Taken : s[1] = w}
Joined == {s \in Taken : s[1] <= joined[Run] /\ result[Run][s[1]] = "ok"}

InBucket(lat) == [s \in Slots |-> Bucket(Clipped(lat[s]))]

\* The histograms count the latencies of their slots, each in its bucket.
Measures(lat) ==
  /\ IsTally(raw, Taken, lat)
  /\ \A w \in 1..Connections : IsTally(hist[w], Own(w), InBucket(lat))
  /\ IsTally(mergedHist, Joined, InBucket(lat))
  /\ args.transport = "loopback" => \A s \in Taken : args.sim_delay <= lat[s]

HistInv ==
  /\ hist = [w \in 1..Connections |-> hist[w]]
  /\ Cardinality(Joined) = merged[Run]
  /\ \E lat \in [Slots -> Latencies \union {0}] : Measures(lat)

CommandInv ==
  /\ args \in Invocations
  /\ connector.kind \in {"none", "loopback", "quinn"}
  /\ at \in {"starting", "running", "done"}
  /\ at # "done" => printed = "nothing"
  /\ at = "running" => Chosen /\ Valid
  /\ at = "done" => \/ printed = "error"
                    \/ pc[Run] = "returned" /\ printed = Report(row[Run]) /\ Valid

BenchInv == CommandInv /\ SimulatedInv /\ HistInv

LEMMA ArgsTyped == ASSUME args \in Invocations PROVE args.sim_delay \in Nat
BY BenchAssumption DEF BenchArgs

LEMMA SlotsFinite ==
  /\ IsFiniteSet(Slots) /\ Cardinality(Slots) = Connections * Requests
  /\ \A S : S \subseteq Slots => IsFiniteSet(S)
<1>1. 1 \in Int /\ Connections \in Int /\ Requests \in Int /\ ~(1 > Connections) /\ ~(1 > Requests)
  BY BenchAssumption
<1>2. IsFiniteSet(1..Connections)
      /\ Cardinality(1..Connections) = IF 1 > Connections THEN 0 ELSE Connections - 1 + 1
  BY <1>1, FS_Interval
<1>3. IsFiniteSet(1..Requests)
      /\ Cardinality(1..Requests) = IF 1 > Requests THEN 0 ELSE Requests - 1 + 1
  BY <1>1, FS_Interval
<1>4. Cardinality(1..Connections) = Connections /\ Cardinality(1..Requests) = Requests
  BY <1>1, <1>2, <1>3
<1>5. IsFiniteSet(Slots) /\ Cardinality(Slots) = Connections * Requests
  <2>. DEFINE C == 1..Connections
              R == 1..Requests
  <2>1. IsFiniteSet(C) /\ IsFiniteSet(R)
    BY <1>2, <1>3
  <2>2. Slots = C \X R /\ Cardinality(C) = Connections /\ Cardinality(R) = Requests
    BY <1>4 DEF Slots
  <2>. HIDE DEF C, R
  <2>3. IsFiniteSet(C \X R) /\ Cardinality(C \X R) = Cardinality(C) * Cardinality(R)
    BY <2>1, FS_Product
  <2>. QED
    BY <2>2, <2>3
<1>6. \A S : S \subseteq Slots => IsFiniteSet(S)
  BY <1>5, FS_Subset
<1>. QED
  BY <1>5, <1>6

\* A task has as many slots as samples.
LEMMA OwnCount ==
  ASSUME EngineFacts, NEW w \in 1..Connections
  PROVE  IsFiniteSet(Own(w)) /\ Cardinality(Own(w)) = samples[Run][w]
<1>. DEFINE n == samples[Run][w]
<1>1. n \in Int /\ n >= 0 /\ n <= Requests /\ Requests \in Int
  BY BenchAssumption DEF EngineFacts
<1>2. Own(w) = {w} \X (1..n)
  BY <1>1 DEF Own, Taken, Slots
<1>. HIDE DEF n
<1>3. 1 \in Int
  OBVIOUS
<1>4. IsFiniteSet(1..n) /\ Cardinality(1..n) = IF 1 > n THEN 0 ELSE n - 1 + 1
  BY <1>1, <1>3, FS_Interval
<1>5. Cardinality(1..n) = n
  BY <1>1, <1>4
<1>6. IsFiniteSet({w}) /\ Cardinality({w}) = 1
  BY FS_Singleton
<1>7. IsFiniteSet({w} \X (1..n)) /\ Cardinality({w} \X (1..n)) = 1 * n
  <2>. DEFINE A == {w}
              B == 1..n
  <2>1. IsFiniteSet(A) /\ IsFiniteSet(B) /\ Cardinality(A) = 1 /\ Cardinality(B) = n
    BY <1>4, <1>5, <1>6
  <2>. HIDE DEF A, B
  <2>2. IsFiniteSet(A \X B) /\ Cardinality(A \X B) = Cardinality(A) * Cardinality(B)
    BY <2>1, FS_Product
  <2>3. IsFiniteSet(A \X B) /\ Cardinality(A \X B) = 1 * n
    BY <2>1, <2>2
  <2>. QED
    BY <2>3 DEF A, B
<1>8. 1 * n = n
  BY <1>1
<1>. QED
  BY <1>2, <1>7, <1>8 DEF n

LEMMA LatenciesTyped ==
  ASSUME NEW lat \in [Slots -> Latencies \union {0}]
  PROVE  \A s \in Slots : /\ lat[s] \in Nat
                          /\ InBucket(lat)[s] = Bucket(Clipped(lat[s]))
                          /\ InBucket(lat)[s] \in Nat
<1>0. Latencies \union {0} \subseteq Nat
  BY BenchAssumption
<1>1. ASSUME NEW s \in Slots PROVE /\ lat[s] \in Nat
                                   /\ InBucket(lat)[s] = Bucket(Clipped(lat[s]))
  <2>1. lat[s] \in Latencies \union {0}
    OBVIOUS
  <2>2. InBucket(lat)[s] = Bucket(Clipped(lat[s]))
    BY DEF InBucket
  <2>. QED
    BY <1>0, <2>1, <2>2
<1>2. ASSUME NEW s \in Slots PROVE Bucket(Clipped(lat[s])) \in Nat
  BY <1>1, ClippedRange, BucketRange
<1>. QED
  BY <1>1, <1>2

LEMMA InitBenchInv == BenchInit => BenchInv
<1>. SUFFICES ASSUME BenchInit PROVE BenchInv
  OBVIOUS
<1>. USE DEF BenchInit, Engine!Init, Engine!Workers
<1>1. CommandInv
  BY DEF CommandInv
<1>2. SimulatedInv
  BY DEF SimulatedInv
<1>3. HistInv
  <2>1. /\ hist = [w \in 1..Connections |-> EmptyBag] /\ mergedHist = EmptyBag
        /\ raw = EmptyBag
    BY DEF NewHistogram
  <2>2. Taken = {}
    BY DEF Taken, Slots
  <2>3. Joined = {} /\ \A w : Own(w) = {}
    BY <2>2 DEF Joined, Own
  <2>. DEFINE lat == [s \in Slots |-> 0]
  <2>4. lat \in [Slots -> Latencies \union {0}]
    OBVIOUS
  <2>. HIDE DEF lat
  <2>5. IsTally(EmptyBag, {}, lat) /\ IsTally(EmptyBag, {}, InBucket(lat))
    BY TallyOfNone
  <2>6. Measures(lat)
    BY <2>1, <2>2, <2>3, <2>5 DEF Measures
  <2>7. Cardinality(Joined) = merged[Run]
    BY <2>3, FS_EmptySet
  <2>. QED
    BY <2>1, <2>4, <2>6, <2>7 DEF HistInv
<1>. QED
  BY <1>1, <1>2, <1>3 DEF BenchInv

-----------------------------------------------------------------------------
(* One lemma per kind of step.                                             *)

\* The histograms still measure what they did, if no slot was taken or merged.
LEMMA HistUntouched ==
  ASSUME HistInv, UNCHANGED <<samples, merged, histVars, args>>, Joined' = Joined
  PROVE  HistInv'
<1>1. hist' = hist /\ mergedHist' = mergedHist /\ raw' = raw /\ args' = args
  BY DEF histVars
<1>2. Taken' = Taken /\ \A w : Own(w)' = Own(w)
  BY DEF Taken, Own
<1>3. PICK lat \in [Slots -> Latencies \union {0}] : Measures(lat)
  BY DEF HistInv
<1>4. Measures(lat)'
  BY <1>1, <1>2, <1>3 DEF Measures
<1>. QED
  BY <1>1, <1>4 DEF HistInv

\* Steps of the command that leave the run alone.
LEMMA RunUntouched ==
  ASSUME SimulatedInv, HistInv, UNCHANGED <<result, samples, joined, merged, histVars, args>>
  PROVE  SimulatedInv' /\ HistInv'
<1>1. SimulatedInv'
  BY DEF SimulatedInv, InTime, TooLate
<1>2. Joined' = Joined
  BY DEF Joined, Taken
<1>3. HistInv'
  BY <1>2, HistUntouched
<1>. QED
  BY <1>1, <1>3

LEMMA CommandStep ==
  ASSUME BenchInv, Refuse \/ Prepare \/ PrintReport
  PROVE  BenchInv'
<1>1. SimulatedInv' /\ HistInv'
  BY RunUntouched DEF BenchInv, Refuse, Prepare, PrintReport, engineVars
<1>2. CommandInv'
  <2>1. CASE Refuse
    <3>1. at' = "done" /\ printed' = "error" /\ args' = args /\ connector' = connector
      BY <2>1 DEF Refuse
    <3>2. args' \in Invocations /\ connector'.kind \in {"none", "loopback", "quinn"}
      BY <3>1 DEF BenchInv, CommandInv
    <3>. QED
      BY <3>1, <3>2 DEF CommandInv
  <2>2. CASE Prepare
    <3>1. /\ at' = "running" /\ args' = args /\ printed' = printed /\ Valid /\ at = "starting"
          /\ connector' \in BuildConnector(args.transport, args.sim_delay)
          /\ connector'.kind # "error"
      BY <2>2 DEF Prepare
    <3>2. connector'.kind \in {"loopback", "quinn"}
      BY <3>1 DEF BuildConnector, LoopbackConnector, QuinnConnector
    <3>3. Chosen' /\ Valid'
      BY <3>1 DEF Chosen, Valid
    <3>. QED
      BY <3>1, <3>2, <3>3 DEF BenchInv, CommandInv
  <2>3. CASE PrintReport
    <3>1. /\ pc' = pc /\ row' = row /\ mergedHist' = mergedHist /\ args' = args
          /\ connector' = connector /\ at = "running"
          /\ pc[Run] = "returned" /\ printed' = Report(row[Run]) /\ at' = "done"
      BY <2>3 DEF PrintReport, engineVars, histVars
    <3>2. Report(row[Run])' = Report(row[Run])
      BY <3>1 DEF Report
    <3>3. Valid /\ Valid' = Valid
      BY <3>1 DEF BenchInv, CommandInv, Valid
    <3>. QED
      BY <3>1, <3>2, <3>3 DEF BenchInv, CommandInv
  <2>. QED
    BY <2>1, <2>2, <2>3
<1>. QED
  BY <1>1, <1>2 DEF BenchInv

LEMMA DriveCommand ==
  ASSUME CommandInv, at = "running", UNCHANGED commandVars
  PROVE  CommandInv'
BY DEF CommandInv, Chosen, Valid, commandVars

\* A task fails or succeeds; it had not been joined.
LEMMA TaskEnds ==
  ASSUME EngineFacts, SimulatedInv, HistInv,
         UNCHANGED <<samples, joined, merged, histVars, args>>,
         NEW w \in 1..Connections, NEW res \in Reasons \union {"ok"},
         wst[Run][w] # "finished", result' = [result EXCEPT ![Run][w] = res],
         args.transport = "loopback" =>
           /\ res \in {"ok", "io"}
           /\ InTime => res # "io"
  PROVE  SimulatedInv' /\ HistInv'
<1>1. /\ result'[Run][w] = res
      /\ \A v \in (1..Connections) \ {w} : result'[Run][v] = result[Run][v]
      /\ w > joined[Run] /\ joined[Run] \in 0..Connections
  BY DEF EngineFacts
<1>2. SimulatedInv'
  BY <1>1 DEF SimulatedInv, InTime, TooLate
<1>3. \A v \in 1..Connections : v <= joined[Run] => result'[Run][v] = result[Run][v]
  BY <1>1
<1>4. Joined' = Joined
  BY <1>3 DEF Joined, Taken, Slots
<1>5. HistInv'
  BY <1>4, HistUntouched
<1>. QED
  BY <1>2, <1>5

LEMMA EngineStepKeeps ==
  ASSUME EngineFacts, BenchInv, at = "running", EngineStep, UNCHANGED <<histVars, commandVars>>
  PROVE  SimulatedInv' /\ HistInv'
<1>0. SimulatedInv /\ HistInv /\ Chosen /\ args' = args
  BY DEF BenchInv, CommandInv, commandVars
<1>1. CASE Engine!Save(Run) \/ Engine!AnnounceStart(Run) \/ Engine!Start(Run)
             \/ Engine!RecordOutcome(Run) \/ Engine!Announce(Run) \/ Engine!CountEnding(Run)
  <2>1. UNCHANGED <<result, samples, joined, merged>>
    BY <1>1 DEF Engine!Save, Engine!AnnounceStart, Engine!Start, Engine!RecordOutcome,
                Engine!Announce, Engine!CountEnding, Engine!workerVars, Engine!runVars
  <2>. QED
    BY <1>0, <2>1, RunUntouched
<1>2. ASSUME NEW w \in 1..Connections,
             Engine!Connect(Run, w) \/ Engine!CountRoundTrip(Run, w) \/ Engine!LoadCompleted(Run, w)
      PROVE  SimulatedInv' /\ HistInv'
  <2>1. UNCHANGED <<result, samples, joined, merged>>
    BY <1>2 DEF Engine!Connect, Engine!CountRoundTrip, Engine!LoadCompleted, Engine!runVars
  <2>. QED
    BY <1>0, <2>1, RunUntouched
<1>3. ASSUME NEW w \in 1..Connections, MayFailToConnect(connector), Engine!ConnectFails(Run, w)
      PROVE  SimulatedInv' /\ HistInv'
  <2>1. args.transport # "loopback"
    BY <1>0, <1>3 DEF Chosen, MayFailToConnect, BuildConnector, LoopbackConnector
  <2>2. PICK e : Engine!RetryConnect(Run, w, e) \/ Engine!GiveUp(Run, w, e)
    BY <1>3 DEF Engine!ConnectFails, Engine!AttemptFails
  <2>3. CASE Engine!RetryConnect(Run, w, e)
    <3>1. UNCHANGED <<result, samples, joined, merged>>
      BY <2>3 DEF Engine!RetryConnect, Engine!runVars
    <3>. QED
      BY <1>0, <3>1, RunUntouched
  <2>4. CASE Engine!GiveUp(Run, w, e)
    <3>1. PICK res \in Reasons : result' = [result EXCEPT ![Run][w] = res]
      BY <2>4 DEF Engine!GiveUp, Engine!Return, Engine!ConnectFailure, Reasons
    <3>2. wst[Run][w] # "finished" /\ UNCHANGED <<samples, joined, merged>>
      BY <2>4 DEF Engine!GiveUp, Engine!runVars
    <3>. QED
      BY <1>0, <2>1, <3>1, <3>2, TaskEnds
  <2>. QED
    BY <2>2, <2>3, <2>4
<1>4. ASSUME NEW w \in 1..Connections, MayFail(connector, RequestTimeout),
             Engine!FailRoundTrip(Run, w)
      PROVE  SimulatedInv' /\ HistInv'
  <2>1. args.transport = "loopback" => ~InTime
    BY <1>0, <1>4, ArgsTyped, BenchAssumption, ConnectorsAssumption
       DEF Chosen, MayFail, BuildConnector, LoopbackConnector, BenchInv, CommandInv, InTime
  <2>2. /\ result' = [result EXCEPT ![Run][w] = "io"] /\ "io" \in Reasons
        /\ wst[Run][w] # "finished" /\ UNCHANGED <<samples, joined, merged>>
    BY <1>4 DEF Engine!FailRoundTrip, Engine!Return, Engine!runVars, Reasons
  <2>. QED
    BY <1>0, <2>1, <2>2, TaskEnds
<1>5. ASSUME NEW w \in 1..Connections, Engine!ReportProgress(Run, w)
      PROVE  SimulatedInv' /\ HistInv'
  <2>1. /\ result' = [result EXCEPT ![Run][w] = "ok"]
        /\ wst[Run][w] # "finished" /\ UNCHANGED <<samples, joined, merged>>
    BY <1>5 DEF Engine!ReportProgress, Engine!Return
  <2>. QED
    BY <1>0, <2>1, TaskEnds
<1>. QED
  BY <1>1, <1>2, <1>3, <1>4, <1>5 DEF EngineStep, Engine!Workers

\* A task is joined: if it succeeded its slots are merged now.
LEMMA JoinKeeps ==
  ASSUME EngineFacts, EngineFacts', BenchInv, JoinAndMerge, UNCHANGED commandVars
  PROVE  SimulatedInv' /\ HistInv'
<1>. DEFINE w == joined[Run] + 1
<1>1. /\ UNCHANGED <<result, samples, hist, raw, args>>
      /\ joined' = [joined EXCEPT ![Run] = w]
      /\ merged' = [merged EXCEPT ![Run] = IF result[Run][w] = "ok"
                                           THEN merged[Run] + samples[Run][w]
                                           ELSE merged[Run]]
      /\ mergedHist' = IF result[Run][w] = "ok" THEN Merge(mergedHist, hist[w]) ELSE mergedHist
  BY DEF JoinAndMerge, Engine!JoinNext, Engine!workerVars, commandVars
<1>2. SimulatedInv'
  BY <1>1 DEF BenchInv, SimulatedInv, InTime, TooLate
<1>3. joined'[Run] = w /\ joined[Run] \in Nat /\ w \in 1..Connections
  <2>1. joined'[Run] \in 0..Connections /\ joined[Run] \in Nat
    BY DEF EngineFacts
  <2>2. joined'[Run] = w
    BY <1>1 DEF EngineFacts
  <2>. QED
    BY <2>1, <2>2
<1>4. merged'[Run] = IF result[Run][w] = "ok" THEN merged[Run] + samples[Run][w] ELSE merged[Run]
  BY <1>1 DEF EngineFacts
<1>. HIDE DEF w
<1>5. Taken' = Taken /\ \A v : Own(v)' = Own(v)
  BY <1>1 DEF Taken, Own
<1>6. PICK lat \in [Slots -> Latencies \union {0}] : Measures(lat)
  BY DEF BenchInv, HistInv
<1>7. Cardinality(Joined) = merged[Run]
  BY DEF BenchInv, HistInv
<1>8. \A v \in 1..Connections : v <= w <=> (v <= joined[Run] \/ v = w)
  BY <1>3 DEF w
<1>9. CASE result[Run][w] = "ok"
  <2>1. Joined' = Joined \union Own(w)
    <3>1. Joined' = {s \in Taken : s[1] <= w /\ result[Run][s[1]] = "ok"}
      BY <1>1, <1>3, <1>5 DEF Joined
    <3>. QED
      BY <1>8, <1>9, <3>1 DEF Joined, Own, Taken, Slots
  <2>2. Joined \cap Own(w) = {}
    BY <1>3 DEF Joined, Own, w
  <2>3. IsFiniteSet(Joined) /\ IsFiniteSet(Own(w)) /\ Cardinality(Own(w)) = samples[Run][w]
    BY <1>3, SlotsFinite, OwnCount DEF Joined, Taken
  <2>4. IsTally(mergedHist, Joined, InBucket(lat)) /\ IsTally(hist[w], Own(w), InBucket(lat))
    BY <1>3, <1>6 DEF Measures
  <2>5. IsTally(mergedHist (+) hist[w], Joined \union Own(w), InBucket(lat))
    BY <2>2, <2>3, <2>4, TallyMerge
  <2>6. IsTally(mergedHist', Joined', InBucket(lat))
    BY <1>1, <1>9, <2>1, <2>5 DEF Merge
  <2>7. Cardinality(Joined') = merged'[Run]
    BY <1>4, <1>7, <1>9, <2>1, <2>2, <2>3, DisjointUnion
  <2>8. Measures(lat)'
    BY <1>1, <1>5, <1>6, <2>6 DEF Measures
  <2>9. HistInv'
    BY <1>1, <2>7, <2>8 DEF BenchInv, HistInv
  <2>. QED
    BY <1>2, <2>9
<1>10. CASE result[Run][w] # "ok"
  <2>1. Joined' = Joined
    <3>1. Joined' = {s \in Taken : s[1] <= w /\ result[Run][s[1]] = "ok"}
      BY <1>1, <1>3, <1>5 DEF Joined
    <3>. QED
      BY <1>8, <1>10, <3>1 DEF Joined, Taken, Slots
  <2>2. merged'[Run] = merged[Run] /\ mergedHist' = mergedHist
    BY <1>1, <1>4, <1>10
  <2>3. Measures(lat)'
    BY <1>1, <1>5, <1>6, <2>1, <2>2 DEF Measures
  <2>4. HistInv'
    BY <1>1, <1>7, <2>1, <2>2, <2>3 DEF BenchInv, HistInv
  <2>. QED
    BY <1>2, <2>4
<1>. QED
  BY <1>9, <1>10

\* A task takes its next slot, with the time measured.
LEMMA RoundTripKeeps ==
  ASSUME EngineFacts, BenchInv, at = "running", NEW w \in 1..Connections, TimedRoundTrip(w),
         UNCHANGED commandVars
  PROVE  SimulatedInv' /\ HistInv'
<1>. DEFINE n == samples[Run][w]
            e == <<w, n + 1>>
<1>1. /\ UNCHANGED <<result, joined, merged, mergedHist, args>>
      /\ samples' = [samples EXCEPT ![Run][w] = n + 1]
      /\ wst[Run][w] = "sending" /\ n < Requests
  BY DEF TimedRoundTrip, Engine!RoundTrip, Engine!runVars, commandVars
<1>2. PICK ns \in Latencies : /\ MayTake(connector, RequestTimeout, ns)
                              /\ hist' = [hist EXCEPT ![w] = Record(@, ns)]
                              /\ raw' = raw (+) SetToBag({ns})
  BY DEF TimedRoundTrip
<1>3. /\ samples'[Run][w] = n + 1 /\ n \in Nat
      /\ \A v \in (1..Connections) \ {w} : samples'[Run][v] = samples[Run][v]
  BY <1>1 DEF EngineFacts
<1>4. args.transport = "loopback" => ~TooLate /\ args.sim_delay <= ns
  BY <1>2, ArgsTyped, BenchAssumption, ConnectorsAssumption
     DEF Chosen, MayTake, BuildConnector, LoopbackConnector, BenchInv, CommandInv, TooLate
<1>5. SimulatedInv'
  BY <1>1, <1>4 DEF BenchInv, SimulatedInv, InTime, TooLate
<1>6. e \in Slots /\ e[1] = w /\ e[2] = n + 1
  BY <1>1, <1>3, BenchAssumption DEF Slots
<1>7. result[Run][w] # "ok"
  BY <1>1 DEF EngineFacts
<1>8. Taken' = Taken \union {e} /\ e \notin Taken
  <2>1. e \notin Taken
    BY <1>3, <1>6 DEF Taken
  <2>2. ASSUME NEW s \in Slots PROVE s[2] <= samples'[Run][s[1]] <=> s \in Taken \/ s = e
    <3>1. s = <<s[1], s[2]>> /\ s[1] \in 1..Connections /\ s[2] \in Nat
      BY BenchAssumption DEF Slots
    <3>2. CASE s[1] = w
      BY <1>3, <3>1, <3>2 DEF Taken
    <3>3. CASE s[1] # w
      <4>1. samples'[Run][s[1]] = samples[Run][s[1]] /\ s # e
        BY <1>3, <1>6, <3>1, <3>3
      <4>. QED
        BY <4>1 DEF Taken
    <3>. QED
      BY <3>2, <3>3
  <2>3. Taken' = {s \in Slots : s[2] <= samples'[Run][s[1]]}
    BY DEF Taken, Slots
  <2>4. Taken \subseteq Slots
    BY DEF Taken
  <2>. HIDE DEF e
  <2>. QED
    BY <1>6, <2>1, <2>2, <2>3, <2>4
<1>. HIDE DEF e, n
<1>9. /\ Own(w)' = Own(w) \union {e} /\ e \notin Own(w)
      /\ \A v \in (1..Connections) \ {w} : Own(v)' = Own(v)
  <2>1. \A v : Own(v)' = {s \in Taken \union {e} : s[1] = v}
    BY <1>8 DEF Own
  <2>. QED
    BY <1>6, <1>8, <2>1 DEF Own
<1>10. Joined' = Joined /\ e \notin Joined
  <2>1. Joined' = {s \in Taken \union {e} : s[1] <= joined[Run] /\ result[Run][s[1]] = "ok"}
    BY <1>1, <1>8 DEF Joined
  <2>. QED
    BY <1>6, <1>7, <1>8, <2>1 DEF Joined
<1>11. PICK lat \in [Slots -> Latencies \union {0}] : Measures(lat)
  BY DEF BenchInv, HistInv
<1>12. PICK new \in [Slots -> Latencies \union {0}] :
         new[e] = ns /\ \A s \in Slots \ {e} : new[s] = lat[s]
  <2>. DEFINE timed == [lat EXCEPT ![e] = ns]
  <2>1. /\ timed \in [Slots -> Latencies \union {0}]
        /\ timed[e] = ns /\ \A s \in Slots \ {e} : timed[s] = lat[s]
    BY <1>6
  <2>. HIDE DEF timed
  <2>. QED
    BY <2>1
<1>13. /\ InBucket(new)[e] = Bucket(Clipped(ns))
       /\ \A s \in Slots \ {e} : InBucket(new)[s] = InBucket(lat)[s]
  BY <1>6, <1>12 DEF InBucket
<1>14. /\ Taken \subseteq Slots \ {e} /\ Joined \subseteq Slots \ {e}
       /\ \A v : Own(v) \subseteq Slots \ {e}
  BY <1>8 DEF Taken, Own, Joined
<1>15. IsFiniteSet(Taken) /\ \A v : IsFiniteSet(Own(v))
  BY <1>14, SlotsFinite
<1>16. IsTally(raw', Taken', new)
  <2>1. IsTally(raw, Taken, lat) /\ \A s \in Taken : new[s] = lat[s]
    BY <1>11, <1>12, <1>14 DEF Measures
  <2>2. IsTally(raw (+) SetToBag({new[e]}), Taken \union {e}, new)
    BY <1>8, <1>15, <2>1, TallyAdd
  <2>. QED
    BY <1>2, <1>8, <1>12, <2>2
<1>17. ASSUME NEW v \in 1..Connections PROVE IsTally(hist'[v], Own(v)', InBucket(new))
  <2>1. IsTally(hist[v], Own(v), InBucket(lat)) /\ hist = [u \in 1..Connections |-> hist[u]]
    BY <1>11 DEF Measures, BenchInv, HistInv
  <2>2. \A s \in Own(v) : InBucket(new)[s] = InBucket(lat)[s]
    BY <1>13, <1>14
  <2>3. CASE v = w
    <3>1. hist'[v] = hist[v] (+) SetToBag({InBucket(new)[e]})
      BY <1>2, <1>13, <2>1, <2>3 DEF Record
    <3>2. e \notin Own(v) /\ IsFiniteSet(Own(v)) /\ Own(v)' = Own(v) \union {e}
      BY <1>9, <1>15, <2>3
    <3>3. IsTally(hist[v] (+) SetToBag({InBucket(new)[e]}), Own(v) \union {e}, InBucket(new))
      BY <2>1, <2>2, <3>2, TallyAdd
    <3>. QED
      BY <3>1, <3>2, <3>3
  <2>4. CASE v # w
    <3>1. hist'[v] = hist[v] /\ Own(v)' = Own(v)
      BY <1>2, <1>9, <2>1, <2>4
    <3>2. IsTally(hist[v], Own(v), InBucket(new))
      BY <2>1, <2>2, TallyAgrees
    <3>. QED
      BY <3>1, <3>2
  <2>. QED
    BY <2>3, <2>4
<1>18. IsTally(mergedHist', Joined', InBucket(new))
  <2>1. IsTally(mergedHist, Joined, InBucket(lat))
    BY <1>11 DEF Measures
  <2>2. \A s \in Joined : InBucket(new)[s] = InBucket(lat)[s]
    BY <1>13, <1>14
  <2>3. IsTally(mergedHist, Joined, InBucket(new))
    BY <2>1, <2>2, TallyAgrees
  <2>. QED
    BY <1>1, <1>10, <2>3
<1>19. args'.transport = "loopback" => \A s \in Taken' : args'.sim_delay <= new[s]
  BY <1>1, <1>4, <1>8, <1>11, <1>12, <1>14 DEF Measures
<1>20. Measures(new)'
  BY <1>16, <1>17, <1>18, <1>19 DEF Measures
<1>21. hist' = [v \in 1..Connections |-> hist'[v]]
  BY <1>2 DEF BenchInv, HistInv
<1>22. Cardinality(Joined') = merged'[Run]
  BY <1>1, <1>10 DEF BenchInv, HistInv
<1>23. HistInv'
  BY <1>12, <1>20, <1>21, <1>22 DEF HistInv
<1>. QED
  BY <1>5, <1>23

LEMMA BenchInvStep == BenchInv /\ EngineFacts /\ EngineFacts' /\ [BenchNext]_benchVars => BenchInv'
<1>. SUFFICES ASSUME BenchInv, EngineFacts, EngineFacts', [BenchNext]_benchVars PROVE BenchInv'
  OBVIOUS
<1>1. CASE Refuse \/ Prepare \/ PrintReport
  BY <1>1, CommandStep
<1>2. CASE Drive
  <2>1. at = "running" /\ UNCHANGED commandVars
    BY <1>2 DEF Drive
  <2>2. CommandInv'
    BY <2>1, DriveCommand DEF BenchInv
  <2>3. SimulatedInv' /\ HistInv'
    BY <1>2, <2>1, EngineStepKeeps, JoinKeeps, RoundTripKeeps DEF Drive, Engine!Workers
  <2>. QED
    BY <2>2, <2>3 DEF BenchInv
<1>3. CASE UNCHANGED benchVars
  <2>1. UNCHANGED <<result, samples, joined, merged, histVars, args, at, printed, connector, pc,
                    row, mergedHist>>
    BY <1>3 DEF benchVars, engineVars, commandVars, histVars
  <2>2. Report(row[Run])' = Report(row[Run])
    BY <2>1 DEF Report
  <2>3. CommandInv'
    BY <2>1, <2>2 DEF BenchInv, CommandInv, Chosen, Valid
  <2>. QED
    BY <2>1, <2>3, RunUntouched DEF BenchInv
<1>. QED
  BY <1>1, <1>2, <1>3 DEF BenchNext

LEMMA BenchInvariance == SafeBench => [](BenchInv /\ EngineFacts)
BY InitBenchInv, BenchInvStep, EngineFactsHold, PTL DEF SafeBench

-----------------------------------------------------------------------------
(* What is printed.                                                        *)

\* A run that completed took all the slots and merged them.
LEMMA MergedIsAll ==
  ASSUME EngineFacts, row[Run].status = "completed"
  PROVE  Taken = Slots /\ Joined = Slots
<1>1. /\ joined[Run] = Connections
      /\ \A w \in 1..Connections : result[Run][w] = "ok" /\ samples[Run][w] = Requests
  BY DEF EngineFacts
<1>2. ASSUME NEW s \in Slots
      PROVE  /\ s[2] <= samples[Run][s[1]]
             /\ s[1] <= joined[Run] /\ result[Run][s[1]] = "ok"
  <2>1. s[1] \in 1..Connections /\ s[2] \in 1..Requests
    BY DEF Slots
  <2>. QED
    BY <1>1, <2>1
<1>3. Taken = Slots
  BY <1>2 DEF Taken
<1>. QED
  BY <1>2, <1>3 DEF Joined

LEMMA SlotsExist == Slots # {} /\ <<1, 1>> \in Slots
BY BenchAssumption DEF Slots

\* A run that returned is reported by its ending: a completed one has samples.
LEMMA ReportByEnding ==
  ASSUME BenchInv, EngineFacts, pc[Run] = "returned"
  PROVE  \/ row[Run].status = "completed" /\ Report(row[Run]) = "report"
         \/ row[Run].status = "failed" /\ Report(row[Run]) = "failed"
<1>1. CASE row[Run].status = "failed"
  BY <1>1 DEF Report
<1>2. CASE row[Run].status = "completed"
  <2>1. joined[Run] = Connections /\ 1 \in 1..Connections /\ result[Run][1] = "ok"
    BY <1>2, BenchAssumption DEF EngineFacts
  <2>2. DOMAIN mergedHist # {}
    <3>1. PICK lat \in [Slots -> Latencies \union {0}] : Measures(lat)
      BY DEF BenchInv, HistInv
    <3>2. IsTally(mergedHist, Slots, InBucket(lat))
      BY <1>2, <3>1, MergedIsAll DEF Measures
    <3>3. IsFiniteSet(Slots) /\ Slots # {} /\ \A s \in Slots : InBucket(lat)[s] \in Nat
      BY SlotsFinite, SlotsExist, LatenciesTyped
    <3>. HIDE DEF Slots
    <3>. QED
      BY <3>2, <3>3, EndsOfTally
  <2>3. StatsFromHistogram(mergedHist) # {}
    BY <2>2, StatsAre
  <2>. QED
    BY <1>2, <2>3 DEF Report
<1>. QED
  BY <1>1, <1>2 DEF EngineFacts

LEMMA InvIsOfARun == BenchInv /\ EngineFacts => ReportIsOfARun
<1>. SUFFICES ASSUME BenchInv, EngineFacts PROVE ReportIsOfARun
  OBVIOUS
<1>1. printed \in {"nothing", "error"} \/ (pc[Run] = "returned" /\ printed = Report(row[Run]))
  BY DEF BenchInv, CommandInv
<1>. QED
  BY <1>1, ReportByEnding DEF ReportIsOfARun

LEMMA InvLoopback == BenchInv /\ EngineFacts => LoopbackIsAsSlowAsAsked
<1>. SUFFICES ASSUME BenchInv, EngineFacts,
                     args.transport = "loopback", at = "done", printed # "error"
              PROVE  /\ InTime => printed = "report"
                     /\ TooLate => printed = "failed"
                     /\ printed = "failed" => row[Run].reason = "io"
  BY DEF LoopbackIsAsSlowAsAsked
<1>1. pc[Run] = "returned" /\ printed = Report(row[Run])
  BY DEF BenchInv, CommandInv
<1>2. \A w \in 1..Connections :
        /\ result[Run][w] \in {"pending", "ok", "io"}
        /\ InTime => result[Run][w] # "io"
        /\ TooLate => samples[Run][w] = 0
  BY DEF BenchInv, SimulatedInv
<1>3. CASE row[Run].status = "completed"
  <2>1. 1 \in 1..Connections /\ samples[Run][1] > 0
    <3>1. 1 \in 1..Connections /\ Requests > 0
      BY BenchAssumption
    <3>2. samples[Run][1] = Requests
      BY <1>3, <3>1 DEF EngineFacts
    <3>. QED
      BY <3>1, <3>2
  <2>2. printed = "report"
    BY <1>1, <1>3, ReportByEnding
  <2>. QED
    BY <1>2, <2>1, <2>2
<1>4. CASE row[Run].status = "failed"
  <2>1. row[Run].reason = "io" /\ ~InTime
    <3>1. PICK w \in 1..Connections : result[Run][w] = row[Run].reason
      BY <1>4 DEF EngineFacts
    <3>2. row[Run].reason \in Reasons
      BY <1>4 DEF EngineFacts
    <3>. QED
      BY <1>2, <3>1, <3>2 DEF Reasons
  <2>2. printed = "failed"
    BY <1>1, <1>4, ReportByEnding
  <2>. QED
    BY <2>1, <2>2
<1>. QED
  BY <1>1, <1>3, <1>4, ReportByEnding

\* The histograms hold what the engine counts.
LEMMA InvTyped == BenchInv /\ EngineFacts => BenchTypeOK
<1>. SUFFICES ASSUME BenchInv, EngineFacts PROVE BenchTypeOK
  OBVIOUS
<1>1. PICK lat \in [Slots -> Latencies \union {0}] : Measures(lat)
  BY DEF BenchInv, HistInv
<1>2. ASSUME NEW w \in 1..Connections PROVE Recorded(hist[w]) = samples[Run][w]
  <2>1. IsTally(hist[w], Own(w), InBucket(lat))
    BY <1>1 DEF Measures
  <2>. QED
    BY <2>1, OwnCount, TallyRecorded
<1>3. IsTally(mergedHist, Joined, InBucket(lat)) /\ IsFiniteSet(Joined) /\ Joined \subseteq Slots
  <2>1. Joined \subseteq Slots
    BY DEF Joined, Taken
  <2>. QED
    BY <1>1, <2>1, SlotsFinite DEF Measures
<1>4. Recorded(mergedHist) = merged[Run]
  BY <1>3, TallyRecorded DEF BenchInv, HistInv
<1>5. StatsFromHistogram(mergedHist) \subseteq LatencyStats
  <2>1. \A s \in Joined : InBucket(lat)[s] \in Nat
    BY <1>3, LatenciesTyped
  <2>. QED
    BY <1>3, <2>1, FiguresTyped
<1>6. printed \in {"nothing", "error", "report", "failed", "unexpected state", "no samples"}
  <2>1. \/ printed \in {"nothing", "error"}
        \/ pc[Run] = "returned" /\ printed = Report(row[Run])
    BY DEF BenchInv, CommandInv
  <2>. QED
    BY <2>1, ReportByEnding
<1>7. args \in Invocations /\ connector.kind \in {"none", "loopback", "quinn"}
        /\ at \in {"starting", "running", "done"}
  BY DEF BenchInv, CommandInv
<1>. QED
  BY <1>2, <1>4, <1>5, <1>6, <1>7 DEF BenchTypeOK, Engine!Workers

\* The k-th of the latencies, in order, is there for the k-th of the slots.
LEMMA InOrderIs ==
  ASSUME NEW lat, IsTally(raw, Slots, lat), \A s \in Slots : lat[s] \in Nat,
         NEW k \in 1..Cardinality(Slots)
  PROVE  IsOrder(raw, k, InOrder(k))
<1>. DEFINE P(v) == UpTo(raw, v) >= k /\ UpTo(raw, v - 1) < k
<1>1. \E v \in Nat : IsOrder(raw, k, v)
  BY SlotsFinite, OrderExists
<1>2. \E v \in DOMAIN raw : P(v)
  BY <1>1 DEF IsOrder
<1>3. InOrder(k) = CHOOSE v \in DOMAIN raw : P(v)
  BY DEF InOrder
<1>4. InOrder(k) \in DOMAIN raw /\ P(InOrder(k))
  <2>. HIDE DEF P
  <2>. QED
    BY <1>2, <1>3
<1>. QED
  BY <1>4 DEF IsOrder

\* The product of the arguments, unless it wraps.
LEMMA TotalIs ==
  ASSUME NEW p \in Nat, p < CountWidth
  PROVE  p % CountWidth = p
<1>1. CountWidth \in Nat \ {0}
  BY ApiAssumption
<1>2. p \div CountWidth \in Nat /\ p % CountWidth \in Nat /\ p % CountWidth < CountWidth
      /\ p = CountWidth * (p \div CountWidth) + (p % CountWidth)
  BY <1>1, Division
<1>. DEFINE q == p \div CountWidth
            r == p % CountWidth
<1>3. q \in Int /\ r \in Nat /\ r < CountWidth /\ CountWidth * q + r = CountWidth * 0 + p
  BY <1>1, <1>2
<1>. HIDE DEF q, r
<1>4. r = p
  BY <1>1, <1>3, DivisionIsUnique
<1>. QED
  BY <1>4 DEF r

\* A report is of a completed run, with the arguments it was valid with.
LEMMA ReportIsOfACompletedRun ==
  ASSUME BenchInv, EngineFacts, printed = "report"
  PROVE  /\ row[Run].status = "completed"
         /\ args.connections = Connections /\ args.requests = Requests /\ args.sim_delay \in Nat
<1>1. pc[Run] = "returned" /\ printed = Report(row[Run]) /\ Valid /\ args \in Invocations
  BY DEF BenchInv, CommandInv
<1>2. row[Run].status = "completed"
  BY <1>1, ReportByEnding
<1>3. args.connections # 0 /\ args.requests # 0
  BY <1>1 DEF Valid, ConnectionCount, RequestCount
<1>4. args.connections \in {0, Connections} /\ args.requests \in {0, Requests}
  BY <1>1, BenchAssumption
<1>. QED
  BY <1>1, <1>2, <1>3, <1>4, ArgsTyped

LEMMA InvReport ==
  ASSUME Connections * Requests < CountWidth, BenchInv, EngineFacts
  PROVE  ReportIsOfAllSamples
<1>. DEFINE n == TotalRequests(args)
            exact(quantile) == Shown(InOrder((quantile * n + 999) \div 1000))
<1>. SUFFICES ASSUME printed = "report"
              PROVE  \E stats \in StatsFromHistogram(mergedHist) :
                       /\ stats.samples = n /\ Recorded(raw) = n
                       /\ stats.p50 = exact(500) /\ stats.p90 = exact(900)
                       /\ stats.p99 = exact(990) /\ stats.p999 = exact(999)
                       /\ stats.max = exact(1000)
                       /\ stats.min <= stats.mean /\ stats.mean <= stats.max
                       /\ stats.min <= InOrder(1) /\ stats.min <= stats.p50
                       /\ args.transport = "loopback" => stats.p50 >= Clipped(args.sim_delay)
  BY InvIsOfARun DEF ReportIsOfAllSamples
<1>1. /\ row[Run].status = "completed"
      /\ args.connections = Connections /\ args.requests = Requests /\ args.sim_delay \in Nat
  BY ReportIsOfACompletedRun
<1>2. IsFiniteSet(Slots) /\ Slots # {} /\ Cardinality(Slots) = Connections * Requests
  BY SlotsFinite, SlotsExist
<1>3. n = Cardinality(Slots) /\ n \in Nat \ {0}
  <2>1. Connections * Requests \in Nat
    BY BenchAssumption
  <2>2. (Connections * Requests) % CountWidth = Connections * Requests
    BY <2>1, TotalIs
  <2>3. n = Cardinality(Slots)
    BY <1>1, <1>2, <2>2 DEF TotalRequests
  <2>4. Cardinality(Slots) # 0
    BY <1>2, FS_EmptySet
  <2>. QED
    BY <1>2, <2>1, <2>3, <2>4
<1>. HIDE DEF n
<1>4. PICK lat \in [Slots -> Latencies \union {0}] : Measures(lat)
  BY DEF BenchInv, HistInv
<1>5. /\ IsTally(raw, Slots, lat) /\ IsTally(mergedHist, Slots, InBucket(lat))
      /\ args.transport = "loopback" => \A s \in Slots : args.sim_delay <= lat[s]
  BY <1>1, <1>4, MergedIsAll DEF Measures
<1>6. \A s \in Slots : lat[s] \in Nat /\ InBucket(lat)[s] = Bucket(Clipped(lat[s]))
  BY LatenciesTyped
<1>7. PICK stats \in StatsFromHistogram(mergedHist) :
        LET m == Cardinality(Slots)
            shown(k, figure) ==
              \A v : IsOrder(raw, k, v) => figure = EndOf(Bucket(Clipped(v)))
        IN  /\ stats.samples = m
            /\ shown(Position(m, 500), stats.p50) /\ shown(Position(m, 900), stats.p90)
            /\ shown(Position(m, 990), stats.p99) /\ shown(Position(m, 999), stats.p999)
            /\ shown(m, stats.max)
            /\ stats.min <= stats.mean /\ stats.mean <= stats.max
            /\ \A v : IsOrder(raw, 1, v) => stats.min <= v
            /\ stats.min <= stats.p50
            /\ \A lo \in Nat : lo <= Highest /\ (\A e \in Slots : lo <= lat[e])
                                  => stats.p50 >= lo
  BY <1>2, <1>5, <1>6, FiguresAreExact
<1>8. ASSUME NEW q \in {500, 900, 990, 999, 1000}, NEW figure,
             \A v : IsOrder(raw, Position(n, q), v) => figure = EndOf(Bucket(Clipped(v)))
      PROVE  figure = exact(q)
  <2>1. Position(n, q) \in 1..Cardinality(Slots)
    BY <1>3, PositionRange
  <2>2. IsOrder(raw, Position(n, q), InOrder(Position(n, q)))
    BY <1>5, <1>6, <2>1, InOrderIs
  <2>3. figure = Shown(InOrder(Position(n, q)))
    BY <1>8, <2>2 DEF Shown
  <2>. QED
    BY <2>3 DEF Position
<1>9. /\ stats.p50 = exact(500) /\ stats.p90 = exact(900)
      /\ stats.p99 = exact(990) /\ stats.p999 = exact(999)
  <2>. HIDE DEF exact
  <2>. QED
    BY <1>3, <1>7, <1>8
<1>10. stats.max = exact(1000)
  <2>1. Position(n, 1000) = n
    BY <1>3, PositionRange
  <2>. HIDE DEF exact
  <2>. QED
    BY <1>3, <1>7, <1>8, <2>1
<1>11. Recorded(raw) = n
  BY <1>2, <1>3, <1>5, TallyRecorded
<1>12. stats.min <= InOrder(1)
  <2>1. 1 \in 1..Cardinality(Slots)
    BY <1>3
  <2>2. IsOrder(raw, 1, InOrder(1))
    BY <1>5, <1>6, <2>1, InOrderIs
  <2>. QED
    BY <1>7, <2>2
<1>13. args.transport = "loopback" => stats.p50 >= Clipped(args.sim_delay)
  <2>1. /\ Clipped(args.sim_delay) \in Nat /\ Clipped(args.sim_delay) <= Highest
        /\ Clipped(args.sim_delay) <= args.sim_delay
    BY <1>1, HistogramAssumption DEF Clipped
  <2>2. args.transport = "loopback" => \A s \in Slots : Clipped(args.sim_delay) <= lat[s]
    BY <1>1, <1>5, <1>6, <2>1
  <2>. QED
    BY <1>7, <2>1, <2>2
<1>. HIDE DEF exact
<1>. QED
  BY <1>3, <1>7, <1>9, <1>10, <1>11, <1>12, <1>13

-----------------------------------------------------------------------------
(* The process: one of the two commands, the other one never starts.       *)

LEMMA NodeBenches == FairSpec => SafeBench
<1>1. Init => BenchInit
  BY DEF Init
<1>2. [Next]_vars => [BenchNext]_benchVars
  BY DEF Next, vars
<1>. QED
  BY <1>1, <1>2, PTL DEF FairSpec, SafeBench

LEMMA NodeServes == FairSpec => ServeSpec
<1>1. Init => ServeInit
  BY DEF Init
<1>2. [Next]_vars => [ServeNext]_serveVars
  BY DEF Next, vars
<1>. QED
  BY <1>1, <1>2, PTL DEF FairSpec, ServeSpec

\* The benchmark a node is asked for is a run of the engine (startup.rs hands it the
\* in-memory repository and a connector of its own), which therefore begins only with a
\* row, ends at most once and with exactly its samples: all that is proved of BenchEngine.
THEOREM NodeDrivesEngine == FairSpec => EngineProofs!Spec
BY NodeBenches, CommandDrivesEngine, PTL

\* The report is never the one for a run without samples or without an end: whatever
\* the connector did, a run that returned is reported as it ended, and one that
\* completed has figures to show (bench.rs print_report).
THEOREM ReportedRun == FairSpec => []ReportIsOfARun
BY NodeBenches, BenchInvariance, InvIsOfARun, PTL

\* Over the simulator the command ends as its delay says: with a report if it is below
\* the timeout of a request by more than a timer may be late, or is zero, with a failure
\* if it is above it by as much, and the failure is an io one; for any delay, timeout,
\* lateness, number of connections and of requests.
THEOREM LoopbackOutcome == FairSpec => []LoopbackIsAsSlowAsAsked
BY NodeBenches, BenchInvariance, InvLoopback, PTL

\* A node that exits gracefully cut no request of its clients short.
THEOREM NodeExitsGracefully == FairSpec => []EveryRequestIsAnswered
BY NodeServes, GracefulExit, PTL

\* Every variable of both commands keeps its type; and the histograms of the benchmark
\* hold what the engine counts: that of a task its samples, that of the run those merged.
\* So what is proved of the engine's numbers is true of the figures (engine.rs:225, 95).
THEOREM NodeTyped == FairSpec => []TypeOK
<1>1. ServeInv /\ BenchInv /\ EngineFacts => TypeOK
  BY InvTyped DEF TypeOK, ServeInv
<1>. QED
  BY <1>1, NodeServes, ServeInvariance, NodeBenches, BenchInvariance, PTL

\* A report is of all the latencies of all the connections: their number is the one asked
\* for, each percentile the one of all of them taken together, to within a bucket, the
\* mean between the least and the greatest.  For any numbers, latencies and buckets, as
\* long as the number asked for does not wrap (params.rs:126 multiplies two u64).
THEOREM ReportedFigures ==
  ASSUME Connections * Requests < CountWidth
  PROVE  FairSpec => []ReportIsOfAllSamples
<1>1. BenchInv /\ EngineFacts => ReportIsOfAllSamples
  BY InvReport
<1>. QED
  BY <1>1, NodeBenches, BenchInvariance, PTL
=============================================================================
