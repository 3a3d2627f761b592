------------------------- MODULE BenchProgressProofs -------------------------
(***************************************************************************)
(* Proofs about what BenchEngine reports while it runs: the counts in the  *)
(* Progress events and the counters of the process.  They rest on the      *)
(* invariant proved in BenchEngineProofs.                                  *)
(***************************************************************************)
EXTENDS BenchEngineProofs

-----------------------------------------------------------------------------
(* The shared counter against the shares of the tasks.                     *)

\* Tasks that did their share are in the counter with all of it.
LEMMA SharesAreCounted ==
  ASSUME NEW r \in Runs, CountInv(r), NEW A \in SUBSET Workers,
         \A w \in A : samples[r][w] = Requests /\ wst[r][w] # "counting"
  PROVE  /\ IsFiniteSet(A) /\ Cardinality(A) \in Nat
         /\ Cardinality(A) * Requests <= completed[r]
<1>1. IsFiniteSet(A) /\ Cardinality(A) \in Nat
  <2>1. IsFiniteSet(Workers)
    BY ConstantTypes, FS_Interval DEF Workers
  <2> QED
    BY <2>1, FS_Subset, FS_CardinalityType
<1>2. IsFiniteSet(1..Requests) /\ Cardinality(1..Requests) = Requests
  BY ConstantTypes, FS_Interval
<1>3. Cardinality(A \X (1..Requests)) = Cardinality(A) * Requests
  BY <1>1, <1>2, FS_Product
<1>4. (A \X (1..Requests)) \in SUBSET SampleSlots(r)
  BY ConstantTypes DEF SampleSlots, Counted
<1>5. Cardinality(A \X (1..Requests)) <= Cardinality(SampleSlots(r))
  BY <1>4, SlotsFinite, FS_Subset
<1> QED
  BY <1>1, <1>3, <1>5 DEF CountInv

\* No run does more round-trips than it was asked for.
LEMMA AtMostTotal == IInv => \A q \in Runs : completed[q] <= Total
<1> SUFFICES ASSUME NEW r \in Runs, CountInv(r) PROVE completed[r] <= Total
  BY DEF IInv, RunInv
<1>1. IsFiniteSet(Workers) /\ Cardinality(Workers) = Connections
  BY ConstantTypes, FS_Interval DEF Workers
<1>2. IsFiniteSet(1..Requests) /\ Cardinality(1..Requests) = Requests
  BY ConstantTypes, FS_Interval
<1>3. /\ IsFiniteSet(Workers \X (1..Requests))
      /\ Cardinality(Workers \X (1..Requests)) = Total
  BY <1>1, <1>2, FS_Product DEF Total
<1>4. SampleSlots(r) \in SUBSET (Workers \X (1..Requests))
  BY DEF SampleSlots
<1> QED
  BY <1>3, <1>4, FS_Subset DEF CountInv

-----------------------------------------------------------------------------
(* The sets ProgressInv counts.                                            *)

LEMMA ProgressFinite ==
  ASSUME TypeOK, NEW r \in Runs
  PROVE  IsFiniteSet(ProgressAt(r)) /\ Cardinality(ProgressAt(r)) \in Nat
<1>1. Len(feed[r]) \in Nat
  BY DEF TypeOK
<1>2. IsFiniteSet(1..Len(feed[r]))
  <2>1. \A n \in Nat : IsFiniteSet(1..n)
    BY FS_Interval
  <2> QED
    BY <1>1, <2>1
<1>3. ProgressAt(r) \in SUBSET (1..Len(feed[r]))
  BY DEF ProgressAt
<1> QED
  BY <1>2, <1>3, FS_Subset, FS_CardinalityType

LEMMA LateFinite ==
  ASSUME TypeOK, NEW r \in Runs, NEW n \in Nat
  PROVE  /\ IsFiniteSet(LateEvents(r, n)) /\ Cardinality(LateEvents(r, n)) \in Nat
         /\ Cardinality(LateEvents(r, n)) <= Cardinality(ProgressAt(r))
         /\ IsFiniteSet(Behind(r, n)) /\ Cardinality(Behind(r, n)) \in Nat
<1>1. LateEvents(r, n) \in SUBSET ProgressAt(r)
  BY DEF LateEvents
<1>2. IsFiniteSet(Workers)
  BY ConstantTypes, FS_Interval DEF Workers
<1>3. Behind(r, n) \in SUBSET Workers
  BY DEF Behind
<1> QED
  BY <1>1, <1>2, <1>3, ProgressFinite, FS_Subset, FS_CardinalityType

LEMMA ShareNat ==
  ASSUME NEW k \in Workers
  PROVE  k \in Nat /\ k >= 1 /\ k * Requests \in Nat
  BY ConstantTypes DEF Workers

-----------------------------------------------------------------------------
(* Steps that publish no count and read none.                              *)

LEMMA ProgressFrame ==
  ASSUME TypeOK, NEW r \in Runs, ProgressInv(r),
         completed'[r] \in Nat, completed[r] <= completed'[r],
         ProgressAt(r)' = ProgressAt(r),
         \A i \in ProgressAt(r) : feed'[r][i] = feed[r][i],
         \A w \in Workers : wst'[r][w] = "reporting" =>
                              wst[r][w] = "reporting" /\ loaded'[r][w] = loaded[r][w]
  PROVE  ProgressInv(r)'
<1>0. completed[r] \in Nat
  BY DEF TypeOK
<1>1. \A w \in Workers : wst'[r][w] = "reporting" => loaded'[r][w] \in Requests..completed'[r]
  BY <1>0, ConstantTypes DEF ProgressInv
<1>2. \A i \in ProgressAt(r) : feed'[r][i].count \in Requests..completed'[r]
  BY <1>0, ConstantTypes DEF ProgressInv
<1>3. ASSUME NEW k \in Workers
      PROVE  Cardinality(LateEvents(r, k * Requests)')
               + Cardinality(Behind(r, k * Requests)') < k
  <2> DEFINE n == k * Requests
  <2>1. n \in Nat /\ k \in Nat
    BY ShareNat
  <2> HIDE DEF n
  <2>2. LateEvents(r, n)' = LateEvents(r, n)
    BY DEF LateEvents
  <2>3. Behind(r, n)' \in SUBSET Behind(r, n)
    BY DEF Behind
  <2>4. /\ Cardinality(Behind(r, n)') \in Nat
        /\ Cardinality(Behind(r, n)') <= Cardinality(Behind(r, n))
    BY <2>1, <2>3, LateFinite, FS_Subset, FS_CardinalityType
  <2>5. Cardinality(LateEvents(r, n)) + Cardinality(Behind(r, n)) < k
    BY DEF ProgressInv, n
  <2>6. Cardinality(LateEvents(r, n)) \in Nat /\ Cardinality(Behind(r, n)) \in Nat
    BY <2>1, LateFinite
  <2>7. Cardinality(LateEvents(r, n)') + Cardinality(Behind(r, n)') < k
    BY <2>1, <2>2, <2>4, <2>5, <2>6
  <2> QED
    BY <2>7 DEF n
<1> QED
  BY <1>1, <1>2, <1>3 DEF ProgressInv

\* An event of another kind leaves the Progress events where they are.
LEMMA PublishOther ==
  ASSUME TypeOK, NEW r \in Runs, NEW e, Publish(r, e), e.kind # "progress"
  PROVE  /\ ProgressAt(r)' = ProgressAt(r)
         /\ \A i \in ProgressAt(r) : feed'[r][i] = feed[r][i]
<1>1. /\ Len(feed[r]) \in Nat
      /\ Len(feed'[r]) = Len(feed[r]) + 1
      /\ \A i \in 1..Len(feed[r]) : feed'[r][i] = feed[r][i]
      /\ feed'[r][Len(feed[r]) + 1] = e
  BY AppendFacts
<1>2. 1..Len(feed'[r]) = (1..Len(feed[r])) \union {Len(feed[r]) + 1}
  BY <1>1
<1> QED
  BY <1>1, <1>2 DEF ProgressAt

LEMMA ProgressOfRun ==
  ASSUME TypeOK, TypeOK', NEW r \in Runs, RunInv(r), ProgressInv(r), RunAction(r)
  PROVE  ProgressInv(r)'
<1> USE DEF workerVars
<1>1. completed' = completed /\ completed[r] \in Nat
  BY DEF RunAction, RunStep, Save, SaveFails, AnnounceStart, Start, JoinNext, RecordOutcome,
         RecordFails, Announce, CountEnding, DropRun, TypeOK
<1>2. CASE AnnounceStart(r) \/ Announce(r)
  <2>1. PICK e : Publish(r, e) /\ e.kind # "progress"
    BY <1>2 DEF AnnounceStart, Announce, EndEvent, Event
  <2>2. wst' = wst /\ loaded' = loaded
    BY <1>2 DEF AnnounceStart, Announce
  <2> QED
    BY <1>1, <2>1, <2>2, PublishOther, ProgressFrame
<1>3. CASE ~AnnounceStart(r) /\ ~Announce(r)
  <2>1. feed' = feed /\ loaded' = loaded
    BY <1>3 DEF RunAction, RunStep, Save, SaveFails, Start, JoinNext, RecordOutcome, RecordFails,
                CountEnding, DropRun
  <2>2. \A w \in Workers : wst'[r][w] = "reporting" => wst[r][w] = "reporting"
    <3>1. CASE Start(r)
      BY <3>1 DEF Start, TypeOK
    <3>2. CASE ~Start(r)
      BY <1>3, <3>2 DEF RunAction, RunStep, Save, SaveFails, JoinNext, RecordOutcome,
                        RecordFails, CountEnding, DropRun
    <3> QED
      BY <3>1, <3>2
  <2>3. ProgressAt(r)' = ProgressAt(r)
    BY <2>1 DEF ProgressAt
  <2> QED
    BY <1>1, <2>1, <2>2, <2>3, ProgressFrame
<1> QED
  BY <1>2, <1>3

LEMMA ProgressOfTask ==
  ASSUME TypeOK, TypeOK', NEW r \in Runs, NEW w \in Workers, RunInv(r), ProgressInv(r),
         WorkerAction(r, w), ~LoadCompleted(r, w), ~ReportProgress(r, w)
  PROVE  ProgressInv(r)'
<1> USE WorkerCases DEF runVars, Return, Connect, ConnectFails, AttemptFails, RetryConnect,
                        GiveUp, RoundTrip, CountRoundTrip, FailRoundTrip, Panic
<1>1. feed' = feed /\ loaded' = loaded
  OBVIOUS
<1>2. completed'[r] \in Nat /\ completed[r] \in Nat /\ completed[r] <= completed'[r]
  <2>1. completed' = completed \/ completed' = [completed EXCEPT ![r] = completed[r] + 1]
    OBVIOUS
  <2>2. completed \in [Runs -> Nat]
    BY DEF TypeOK
  <2> QED
    BY <2>1, <2>2
<1>3. \A v \in Workers : wst'[r][v] = "reporting" => wst[r][v] = "reporting"
  <2>1. wst \in [Runs -> [Workers -> TaskLabel]]
    BY DEF TypeOK
  <2>2. \/ wst' = wst
        \/ \E label \in {"sending", "counting", "finished"} :
             wst' = [wst EXCEPT ![r][w] = label]
    OBVIOUS
  <2> QED
    BY <2>1, <2>2
<1>4. ProgressAt(r)' = ProgressAt(r)
  BY <1>1 DEF ProgressAt
<1> QED
  BY <1>1, <1>2, <1>3, <1>4, ProgressFrame

-----------------------------------------------------------------------------
(* The two steps of a Progress event.                                      *)

\* The tasks whose count is published or about to be.
Readers(r) == {w \in Workers : wst[r][w] = "reporting" \/ result[r][w] = "ok"}

\* A task that reads the counter finds in it its own share and the shares of all
\* the tasks that have read it before.
LEMMA ReaderSeesShares ==
  ASSUME TypeOK, NEW r \in Runs, RunInv(r), NEW w \in Workers, LoadCompleted(r, w)
  PROVE  /\ Requests <= completed[r]
         /\ \A n \in Nat :
              (Cardinality(LateEvents(r, n)) + Cardinality(Behind(r, n)) + 1) * Requests
                <= completed[r]
<1>1. wst[r][w] = "sending" /\ samples[r][w] = Requests
  BY DEF LoadCompleted
<1>2. result[r][w] = "pending"
  BY <1>1 DEF RunInv, WorkerInv
<1>3. /\ IsFiniteSet(Readers(r) \union {w})
      /\ Cardinality(Readers(r) \union {w}) \in Nat
      /\ Cardinality(Readers(r) \union {w}) * Requests <= completed[r]
  <2>1. \A v \in Readers(r) \union {w} : samples[r][v] = Requests /\ wst[r][v] # "counting"
    BY <1>1 DEF Readers, RunInv, WorkerInv
  <2>2. (Readers(r) \union {w}) \in SUBSET Workers
    BY DEF Readers
  <2>3. CountInv(r)
    BY DEF RunInv
  <2> QED
    BY <2>1, <2>2, <2>3, SharesAreCounted
<1>4. /\ IsFiniteSet(Readers(r)) /\ Cardinality(Readers(r)) \in Nat
      /\ Cardinality(Readers(r) \union {w}) = Cardinality(Readers(r)) + 1
  <2>1. w \notin Readers(r)
    BY <1>1, <1>2 DEF Readers
  <2>2. Readers(r) \in SUBSET (Readers(r) \union {w})
    OBVIOUS
  <2>3. IsFiniteSet(Readers(r))
    BY <1>3, <2>2, FS_Subset
  <2> QED
    BY <2>1, <2>3, FS_AddElement, FS_CardinalityType
<1>5. ASSUME NEW n \in Nat
      PROVE  /\ Cardinality(LateEvents(r, n)) \in Nat /\ Cardinality(Behind(r, n)) \in Nat
             /\ Cardinality(LateEvents(r, n)) + Cardinality(Behind(r, n))
                  <= Cardinality(Readers(r))
  <2> DEFINE ok == OkUpTo(r, Connections)
  <2>1. Behind(r, n) \union ok \in SUBSET Readers(r)
    BY DEF Behind, Readers, OkUpTo, Workers
  <2>2. Behind(r, n) \cap ok = {}
    BY DEF Behind, OkUpTo, Workers, RunInv, WorkerInv
  <2>3. IsFiniteSet(ok) /\ Cardinality(ok) = Cardinality(ProgressAt(r))
    <3>1. ok \in SUBSET Readers(r)
      BY <2>1
    <3>2. Cardinality(ok) = Cardinality(ProgressAt(r))
      BY DEF RunInv, FeedInv
    <3> QED
      BY <1>4, <3>1, <3>2, FS_Subset
  <2>4. /\ IsFiniteSet(Behind(r, n)) /\ Cardinality(Behind(r, n)) \in Nat
        /\ Cardinality(LateEvents(r, n)) \in Nat
        /\ Cardinality(LateEvents(r, n)) <= Cardinality(ProgressAt(r))
        /\ Cardinality(ProgressAt(r)) \in Nat
    BY LateFinite, ProgressFinite
  <2> HIDE DEF ok
  <2>5. Cardinality(Behind(r, n) \union ok) = Cardinality(Behind(r, n)) + Cardinality(ok)
    <3>1. Cardinality(Behind(r, n) \cap ok) = 0
      BY <2>2, FS_EmptySet
    <3>2. Cardinality(Behind(r, n) \union ok) =
            Cardinality(Behind(r, n)) + Cardinality(ok) - Cardinality(Behind(r, n) \cap ok)
      BY <2>3, <2>4, FS_Union
    <3> QED
      BY <2>3, <2>4, <3>1, <3>2
  <2>6. Cardinality(Behind(r, n) \union ok) <= Cardinality(Readers(r))
    BY <1>4, <2>1, FS_Subset
  <2> QED
    BY <1>4, <2>3, <2>4, <2>5, <2>6
<1>6. completed[r] \in Nat
  BY DEF TypeOK
<1>7. \A a, b \in Nat : a <= b => (a + 1) * Requests <= (b + 1) * Requests
  <2> SUFFICES ASSUME NEW a \in Nat, NEW b \in Nat, a <= b
               PROVE  (a + 1) * Requests <= (b + 1) * Requests
    OBVIOUS
  <2>1. PICK c \in Nat : b = a + c
    <3>1. b = a + (b - a) /\ b - a \in Nat
      OBVIOUS
    <3> QED
      BY <3>1
  <2>2. (b + 1) * Requests = (a + 1) * Requests + c * Requests
    BY <2>1, ConstantTypes
  <2>3. c * Requests \in Nat /\ (a + 1) * Requests \in Nat
    BY ConstantTypes
  <2> QED
    BY <2>2, <2>3
<1>8. Requests <= completed[r]
  <2>1. (0 + 1) * Requests <= (Cardinality(Readers(r)) + 1) * Requests
    BY <1>4, <1>7
  <2>2. (0 + 1) * Requests = Requests /\ (Cardinality(Readers(r)) + 1) * Requests \in Nat
    BY <1>4, ConstantTypes
  <2> QED
    BY <1>3, <1>4, <1>6, <2>1, <2>2, ConstantTypes
<1>9. ASSUME NEW n \in Nat
      PROVE  (Cardinality(LateEvents(r, n)) + Cardinality(Behind(r, n)) + 1) * Requests
               <= completed[r]
  <2> DEFINE a == Cardinality(LateEvents(r, n)) + Cardinality(Behind(r, n))
             b == Cardinality(Readers(r))
  <2>1. a \in Nat /\ b \in Nat /\ a <= b
    BY <1>4, <1>5
  <2> HIDE DEF a, b
  <2>2. (a + 1) * Requests <= (b + 1) * Requests
    BY <1>7, <2>1
  <2>3. (b + 1) * Requests <= completed[r]
    BY <1>3, <1>4 DEF b
  <2>4. (a + 1) * Requests \in Nat /\ (b + 1) * Requests \in Nat
    BY <2>1, ConstantTypes
  <2>5. (a + 1) * Requests <= completed[r]
    BY <1>6, <2>2, <2>3, <2>4
  <2> QED
    BY <2>5 DEF a
<1> QED
  BY <1>8, <1>9

LEMMA ProgressOfLoad ==
  ASSUME TypeOK, NEW r \in Runs, NEW w \in Workers, RunInv(r), ProgressInv(r),
         LoadCompleted(r, w)
  PROVE  ProgressInv(r)'
<1> USE DEF runVars
<1>0. completed[r] \in Nat /\ Requests <= completed[r]
  BY ReaderSeesShares DEF TypeOK
<1>1. /\ feed' = feed /\ completed' = completed
      /\ wst[r][w] = "sending" /\ wst'[r][w] = "reporting" /\ loaded'[r][w] = completed[r]
      /\ \A v \in Workers \ {w} : wst'[r][v] = wst[r][v] /\ loaded'[r][v] = loaded[r][v]
  BY DEF LoadCompleted, ProgressCount, TypeOK
<1>2. ProgressAt(r)' = ProgressAt(r)
  BY <1>1 DEF ProgressAt
<1>3. ASSUME NEW v \in Workers, wst'[r][v] = "reporting"
      PROVE  loaded'[r][v] \in Requests..completed[r]
  BY <1>0, <1>1, <1>3, ConstantTypes DEF ProgressInv
<1>4. ASSUME NEW k \in Workers
      PROVE  Cardinality(LateEvents(r, k * Requests)')
               + Cardinality(Behind(r, k * Requests)') < k
  <2> DEFINE n == k * Requests
             late == Cardinality(LateEvents(r, n))
             behind == Cardinality(Behind(r, n))
  <2>1. n \in Nat /\ k \in Nat
    BY ShareNat
  <2>2. late + behind < k
    BY DEF ProgressInv
  <2>3. /\ late \in Nat /\ behind \in Nat /\ IsFiniteSet(Behind(r, n))
        /\ (late + behind + 1) * Requests <= completed[r]
    BY <2>1, LateFinite, ReaderSeesShares
  <2>4. completed[r] < n => late + behind + 1 < k
    <3> SUFFICES ASSUME completed[r] < n, late + behind + 1 >= k PROVE FALSE
      BY <2>1, <2>3
    <3>1. late + behind + 1 = k
      BY <2>1, <2>2, <2>3
    <3>2. k * Requests <= completed[r]
      BY <2>3, <3>1
    <3> QED
      BY <1>0, <2>1, <3>2
  <2> HIDE DEF n
  <2>5. LateEvents(r, n)' = LateEvents(r, n)
    BY <1>1, <1>2 DEF LateEvents
  <2>6. Behind(r, n)' = IF completed[r] < n THEN Behind(r, n) \union {w} ELSE Behind(r, n)
    BY <1>1 DEF Behind
  <2>7. w \notin Behind(r, n)
    BY <1>1 DEF Behind
  <2>8. Cardinality(Behind(r, n)') = IF completed[r] < n THEN behind + 1 ELSE behind
    BY <2>3, <2>6, <2>7, FS_AddElement
  <2>9. late + Cardinality(Behind(r, n)') < k
    BY <2>1, <2>2, <2>3, <2>4, <2>8
  <2> QED
    BY <2>5, <2>9 DEF n
<1> QED
  BY <1>1, <1>2, <1>3, <1>4 DEF ProgressInv

\* Publishing moves a count from those about to be published to the published.
LEMMA ProgressOfReport ==
  ASSUME TypeOK, NEW r \in Runs, NEW w \in Workers, RunInv(r), ProgressInv(r),
         ReportProgress(r, w)
  PROVE  ProgressInv(r)'
<1> DEFINE e == Event("progress", loaded[r][w], "none")
           new == Len(feed[r]) + 1
<1>0. completed[r] \in Nat
  BY DEF TypeOK
<1>1. /\ completed' = completed /\ loaded' = loaded
      /\ wst[r][w] = "reporting" /\ wst'[r][w] = "finished"
      /\ \A v \in Workers \ {w} : wst'[r][v] = wst[r][v]
  BY DEF ReportProgress, Return, TypeOK
<1>2. e.kind = "progress" /\ e.count = loaded[r][w]
  BY DEF Event
<1>3. Publish(r, e)
  BY DEF ReportProgress
<1> HIDE DEF e
<1>4. /\ Len(feed[r]) \in Nat
      /\ Len(feed'[r]) = new
      /\ \A i \in 1..Len(feed[r]) : feed'[r][i] = feed[r][i]
      /\ feed'[r][new] = e
  BY <1>3, AppendFacts
<1>5. /\ ProgressAt(r)' = ProgressAt(r) \union {new}
      /\ \A i \in ProgressAt(r) : feed'[r][i] = feed[r][i]
      /\ new \notin ProgressAt(r)
  <2>1. 1..new = (1..Len(feed[r])) \union {new}
    BY <1>4
  <2> QED
    BY <1>2, <1>4, <2>1 DEF ProgressAt
<1> HIDE DEF new
<1>6. \A v \in Workers : wst'[r][v] = "reporting" => loaded'[r][v] \in Requests..completed'[r]
  BY <1>1 DEF ProgressInv
<1>7. \A i \in ProgressAt(r)' : feed'[r][i].count \in Requests..completed'[r]
  <2>1. loaded[r][w] \in Requests..completed[r]
    BY <1>1 DEF ProgressInv
  <2>2. \A i \in ProgressAt(r) : feed[r][i].count \in Requests..completed[r]
    BY DEF ProgressInv
  <2> QED
    BY <1>1, <1>2, <1>4, <1>5, <2>1, <2>2
<1>8. ASSUME NEW k \in Workers
      PROVE  Cardinality(LateEvents(r, k * Requests)')
               + Cardinality(Behind(r, k * Requests)') < k
  <2> DEFINE n == k * Requests
             late == Cardinality(LateEvents(r, n))
             behind == Cardinality(Behind(r, n))
  <2>1. n \in Nat /\ k \in Nat
    BY ShareNat
  <2>2. late + behind < k
    BY DEF ProgressInv
  <2> HIDE DEF n
  <2>3. /\ late \in Nat /\ behind \in Nat
        /\ IsFiniteSet(LateEvents(r, n)) /\ IsFiniteSet(Behind(r, n))
    BY <2>1, LateFinite
  <2>4. LateEvents(r, n)' = IF loaded[r][w] < n THEN LateEvents(r, n) \union {new}
                                               ELSE LateEvents(r, n)
    <3>1. \A i \in ProgressAt(r) \union {new} :
            feed'[r][i].count < n <=> IF i = new THEN loaded[r][w] < n ELSE feed[r][i].count < n
      BY <1>2, <1>4, <1>5
    <3> QED
      BY <1>5, <3>1 DEF LateEvents
  <2>5. new \notin LateEvents(r, n)
    BY <1>5 DEF LateEvents
  <2>6. Cardinality(LateEvents(r, n)') = IF loaded[r][w] < n THEN late + 1 ELSE late
    BY <2>3, <2>4, <2>5, FS_AddElement
  <2>7. Behind(r, n)' = Behind(r, n) \ {w}
    BY <1>1 DEF Behind
  <2>8. w \in Behind(r, n) <=> loaded[r][w] < n
    BY <1>1 DEF Behind
  <2>9. Cardinality(Behind(r, n)') = IF loaded[r][w] < n THEN behind - 1 ELSE behind
    BY <2>3, <2>7, <2>8, FS_RemoveElement
  <2>10. Cardinality(LateEvents(r, n)') + Cardinality(Behind(r, n)') < k
    BY <2>1, <2>2, <2>3, <2>6, <2>9
  <2> QED
    BY <2>10 DEF n
<1> QED
  BY <1>6, <1>7, <1>8 DEF ProgressInv

-----------------------------------------------------------------------------
(* The invariant of the second layer                                       *)

LEMMA FullInit == Init => FullInv
<1> SUFFICES ASSUME Init, NEW r \in Runs PROVE ProgressInv(r)
  BY InvInit DEF FullInv
<1>1. feed[r] = <<>> /\ \A w \in Workers : wst[r][w] = "unspawned"
  BY DEF Init
<1>2. ProgressAt(r) = {}
  BY <1>1 DEF ProgressAt
<1>3. \A n : LateEvents(r, n) = {} /\ Behind(r, n) = {}
  BY <1>1, <1>2 DEF LateEvents, Behind
<1>4. \A k \in Workers : Cardinality(LateEvents(r, k * Requests))
                          + Cardinality(Behind(r, k * Requests)) < k
  BY <1>3, FS_EmptySet, ShareNat
<1> QED
  BY <1>1, <1>2, <1>4 DEF ProgressInv

LEMMA FullStep ==
  ASSUME FullInv, [Next]_vars
  PROVE  FullInv'
<1>1. /\ TypeOK /\ IInv /\ \A r \in Runs : RunInv(r) /\ ProgressInv(r)
  BY DEF FullInv, IInv
<1>2. IInv' /\ TypeOK'
  BY <1>1, InvStep DEF IInv
<1>3. ASSUME NEW q \in Runs, Untouched(q)
      PROVE  ProgressInv(q)'
  <2>1. ProgressAt(q)' = ProgressAt(q)
    BY <1>3 DEF Untouched, ProgressAt
  <2>2. completed[q] \in Nat
    BY <1>1 DEF TypeOK
  <2> QED
    BY <1>1, <1>3, <2>1, <2>2, ProgressFrame DEF Untouched
<1>4. ASSUME NEW r \in Runs, RunAction(r) \/ \E w \in Workers : WorkerAction(r, w)
      PROVE  \A q \in Runs : ProgressInv(q)'
  <2>1. \A q \in Runs \ {r} : ProgressInv(q)'
    BY <1>1, <1>3, <1>4, OthersUntouched
  <2>2. ProgressInv(r)'
    BY <1>1, <1>2, <1>4, ProgressOfRun, ProgressOfTask, ProgressOfLoad, ProgressOfReport
  <2> QED
    BY <2>1, <2>2
<1>5. ASSUME UNCHANGED vars
      PROVE  \A q \in Runs : ProgressInv(q)'
  <2>1. \A q \in Runs : Untouched(q)
    BY <1>5 DEF Untouched, vars, runVars, workerVars
  <2> QED
    BY <1>3, <2>1
<1> QED
  BY <1>2, <1>4, <1>5 DEF Next, Done, RunAction, FullInv

\* The inductive invariant with both its layers holds in every reachable state.
THEOREM FullInvariance == Spec => []FullInv
  BY FullInit, FullStep, PTL DEF Spec

\* No Progress event shows less than the share of its own connection, or more
\* than was done; and no more is done than was asked for.
THEOREM HonestProgress == Spec => []ProgressIsHonest
<1>1. FullInv => ProgressIsHonest
  <2> SUFFICES ASSUME FullInv, NEW r \in Runs
               PROVE  /\ completed[r] <= Total
                      /\ \A i \in ProgressAt(r) : feed[r][i].count \in Requests..completed[r]
    BY DEF ProgressIsHonest, ProgressAt
  <2> QED
    BY AtMostTotal DEF FullInv, IInv, RunInv, ProgressInv
<1> QED
  BY <1>1, FullInvariance, PTL

\* Of the Progress events of a run fewer than k show less than k whole shares,
\* in whatever order the tasks read the counter and publish what they read.
THEOREM ProgressCatchesUp == Spec => []ProgressKeepsUp
<1>1. FullInv => ProgressKeepsUp
  <2> SUFFICES ASSUME FullInv, NEW r \in Runs, NEW k \in Workers
               PROVE  Cardinality(LateEvents(r, k * Requests)) < k
    <3>1. \A r \in Runs, n \in Nat :
            LateEvents(r, n) = {i \in 1..Len(feed[r]) : /\ feed[r][i].kind = "progress"
                                                       /\ feed[r][i].count < n}
      BY DEF LateEvents, ProgressAt
    <3>2. \A k \in Workers : k * Requests \in Nat
      BY ShareNat
    <3> QED
      BY <3>1, <3>2 DEF ProgressKeepsUp
  <2>1. Cardinality(LateEvents(r, k * Requests)) + Cardinality(Behind(r, k * Requests)) < k
    BY DEF FullInv, ProgressInv
  <2>2. /\ Cardinality(LateEvents(r, k * Requests)) \in Nat
        /\ Cardinality(Behind(r, k * Requests)) \in Nat /\ k \in Nat
    BY LateFinite, ShareNat DEF FullInv, IInv
  <2> QED
    BY <2>1, <2>2
<1> QED
  BY <1>1, FullInvariance, PTL
-----------------------------------------------------------------------------
(* The counters of the process                                             *)

\* What the counters stand for, as sets that a step changes by one element.
Begun == {r \in Runs : Spawned(r)}
Over(ending) == {r \in Runs : pc[r] = "returned" /\ row[r].status = ending}
RoundTrips == {d \in Runs \X (1..Total) : d[2] <= completed[d[1]]}
Counting == {t \in Runs \X Workers : wst[t[1]][t[2]] = "counting"}

MetricsInv ==
  /\ metrics.runs = Cardinality(Begun)
  /\ metrics.completed = Cardinality(Over("completed"))
  /\ metrics.failed = Cardinality(Over("failed"))
  /\ metrics.requests = Cardinality(RoundTrips) + Cardinality(Counting)

LEMMA CountedFinite ==
  /\ IsFiniteSet(Begun)
  /\ IsFiniteSet(RoundTrips) /\ Cardinality(RoundTrips) \in Nat
  /\ IsFiniteSet(Counting) /\ Cardinality(Counting) \in Nat
  /\ \A ending : IsFiniteSet(Over(ending))
<1>1. IsFiniteSet(Runs)
  BY EngineAssumption
<1>2. IsFiniteSet(Runs \X (1..Total)) /\ IsFiniteSet(Runs \X Workers)
  <2>1. IsFiniteSet(1..Total)
    BY TotalNat, FS_Interval
  <2>2. IsFiniteSet(Workers)
    BY ConstantTypes, FS_Interval DEF Workers
  <2> QED
    BY <1>1, <2>1, <2>2, FS_Product
<1>3. /\ Begun \in SUBSET Runs /\ RoundTrips \in SUBSET (Runs \X (1..Total))
      /\ Counting \in SUBSET (Runs \X Workers)
      /\ \A ending : Over(ending) \in SUBSET Runs
  BY DEF Begun, RoundTrips, Counting, Over
<1> QED
  BY <1>1, <1>2, <1>3, FS_Subset, FS_CardinalityType

\* What the events of a run tell about where it stands.
LEMMA PublishedKinds ==
  ASSUME IInv, NEW r \in Runs
  PROVE  /\ (\E i \in 1..Len(feed[r]) : feed[r][i].kind = "started") <=> feed[r] # <<>>
         /\ feed[r] # <<>> /\ ~Spawned(r) => pc[r] \in {"announced", "dropped"}
         /\ Spawned(r) => feed[r] # <<>>
         /\ \A ending \in Endings :
              /\ (\E i \in 1..Len(feed[r]) : feed[r][i].kind = ending)
                   => pc[r] \in {"ending", "returned", "dropped"} /\ row[r].status = ending
              /\ pc[r] = "returned" /\ row[r].status = ending
                   => \E i \in 1..Len(feed[r]) : feed[r][i].kind = ending
<1>1. feed[r] \in Seq(RunEvent) /\ FeedInv(r) /\ ControlInv(r) /\ pc[r] \in RunLabel
  BY DEF IInv, TypeOK, RunInv
<1>2. (\E i \in 1..Len(feed[r]) : feed[r][i].kind = "started") <=> feed[r] # <<>>
  <2>1. feed[r] # <<>> => 1 \in 1..Len(feed[r])
    BY <1>1
  <2>2. feed[r] = <<>> => Len(feed[r]) = 0
    BY <1>1
  <2> QED
    BY <1>1, <2>1, <2>2 DEF FeedInv
<1>3. /\ feed[r] # <<>> /\ ~Spawned(r) => pc[r] \in {"announced", "dropped"}
      /\ Spawned(r) => feed[r] # <<>>
  BY <1>1 DEF ControlInv, RunLabel
<1>4. ASSUME NEW ending \in Endings, NEW i \in 1..Len(feed[r]), feed[r][i].kind = ending
      PROVE  pc[r] \in {"ending", "returned", "dropped"} /\ row[r].status = ending
  BY <1>1, <1>4 DEF FeedInv
<1>5. ASSUME NEW ending \in Endings, pc[r] = "returned", row[r].status = ending
      PROVE  \E i \in 1..Len(feed[r]) : feed[r][i].kind = ending
  <2>1. Spawned(r)
    BY <1>1, <1>5 DEF ControlInv
  <2>2. Len(feed[r]) \in 1..Len(feed[r])
    BY <1>1, <1>3, <2>1
  <2> QED
    BY <1>1, <1>5, <2>2 DEF FeedInv
<1> QED
  BY <1>2, <1>3, <1>4, <1>5

\* The tasks of a run are spawned together, so one will do for all.
LEMMA SpawnedTogether ==
  ASSUME IInv, NEW r \in Runs
  PROVE  Spawned(r) <=> \E w \in Workers : wst[r][w] # "unspawned"
<1>1. 1 \in Workers
  BY ConstantTypes DEF Workers
<1> QED
  BY <1>1 DEF IInv, RunInv, ControlInv, Spawned

LEMMA MetricsForm == IInv => (MetricsInv <=> MetricsMatchTheFeeds)
<1> SUFFICES ASSUME IInv PROVE MetricsInv <=> MetricsMatchTheFeeds
  OBVIOUS
<1> DEFINE Published(kind) ==
             {r \in Runs : \E i \in 1..Len(feed[r]) : feed[r][i].kind = kind}
           Returned == {r \in Runs : pc[r] = "returned"}
<1>1. {r \in Runs : \E w \in Workers : wst[r][w] # "unspawned"} = Begun
  BY SpawnedTogether DEF Begun
<1>2. /\ Begun \subseteq Published("started")
      /\ \A r \in Published("started") \ Begun : pc[r] \in {"announced", "dropped"}
  BY PublishedKinds DEF Begun
<1>3. \A ending \in Endings :
        /\ Published(ending) \intersect Returned = Over(ending)
        /\ \A r \in Published(ending) \ Returned : pc[r] \in {"ending", "dropped"}
  BY PublishedKinds DEF Over
<1>4. MetricsMatchTheFeeds <=>
        /\ metrics.runs = Cardinality(Begun)
        /\ \A ending \in Endings : metrics[ending] = Cardinality(Over(ending))
        /\ metrics.requests = Cardinality(RoundTrips) + Cardinality(Counting)
  <2> HIDE DEF Returned, Published
  <2>1. MetricsMatchTheFeeds <=>
          /\ metrics.runs = Cardinality(Begun)
          /\ Begun \subseteq Published("started")
          /\ \A r \in Published("started") \ Begun : pc[r] \in {"announced", "dropped"}
          /\ \A ending \in Endings :
               /\ metrics[ending] = Cardinality(Published(ending) \intersect Returned)
               /\ \A r \in Published(ending) \ Returned : pc[r] \in {"ending", "dropped"}
          /\ metrics.requests = Cardinality(RoundTrips) + Cardinality(Counting)
    BY <1>1 DEF MetricsMatchTheFeeds, RoundTrips, Counting, Published, Returned
  <2> QED
    BY <1>2, <1>3, <2>1
<1> QED
  BY <1>4 DEF MetricsInv, Endings

LEMMA MetricsOfStart ==
  ASSUME IInv, MetricsInv, NEW r \in Runs, Start(r)
  PROVE  MetricsInv'
<1>1. /\ TypeOK /\ pc[r] = "announced" /\ pc'[r] = "joining"
      /\ row' = row /\ completed' = completed
      /\ \A w \in Workers : wst[r][w] = "unspawned" /\ wst'[r][w] = "connecting"
  BY DEF IInv, RunInv, ControlInv, Start, Goto, TypeOK
<1>2. \A q \in Runs \ {r} : pc'[q] = pc[q] /\ wst'[q] = wst[q]
  BY DEF Start, Goto, IInv, TypeOK
<1>3. Begun' = Begun \union {r} /\ r \notin Begun
  <2>1. 1 \in Workers
    BY ConstantTypes DEF Workers
  <2> QED
    BY <1>1, <1>2, <2>1 DEF Begun, Spawned
<1>4. \A ending : Over(ending)' = Over(ending)
  BY <1>1, <1>2 DEF Over
<1>5. RoundTrips' = RoundTrips /\ Counting' = Counting
  BY <1>1, <1>2 DEF RoundTrips, Counting
<1>6. /\ metrics'.runs = metrics.runs + 1
      /\ metrics'.completed = metrics.completed /\ metrics'.failed = metrics.failed
      /\ metrics'.requests = metrics.requests
  BY <1>1 DEF Start, TypeOK
<1>7. Cardinality(Begun') = Cardinality(Begun) + 1
  BY <1>3, CountedFinite, FS_AddElement
<1> QED
  BY <1>4, <1>5, <1>6, <1>7 DEF MetricsInv

\* A run counts as failed exactly if its row says so: the defensive branch,
\* which sets the row and not the counter, is never taken.
LEMMA FailedMeansError ==
  ASSUME IInv, NEW r \in Runs, Ended(r)
  PROVE  /\ row[r].status = "failed" <=> firstErr[r] # "none"
         /\ row[r].status = "completed" <=> firstErr[r] = "none"
<1>1. joined[r] = Connections /\ row[r] = Outcome(r)
  BY EndedJoined
<1>2. firstErr[r] = "none" => merged[r] # 0
  <2>1. Total # 0
    BY ConstantTypes DEF Total
  <2> QED
    BY <1>1, <2>1, JoinedOk, AllOkExact
<1> QED
  BY <1>1, <1>2 DEF Outcome, Row

LEMMA MetricsOfEnding ==
  ASSUME IInv, MetricsInv, NEW r \in Runs, CountEnding(r)
  PROVE  MetricsInv'
<1>1. /\ TypeOK /\ pc[r] = "ending" /\ pc'[r] = "returned" /\ Ended(r)
      /\ row' = row /\ completed' = completed /\ wst' = wst
  BY DEF IInv, RunInv, ControlInv, CountEnding, Goto, TypeOK, workerVars
<1>2. \A q \in Runs \ {r} : pc'[q] = pc[q]
  BY DEF CountEnding, Goto, IInv, TypeOK
<1>3. Begun' = Begun /\ RoundTrips' = RoundTrips /\ Counting' = Counting
  BY <1>1 DEF Begun, Spawned, RoundTrips, Counting
<1>4. ASSUME NEW ending
      PROVE  /\ r \notin Over(ending)
             /\ Over(ending)' = IF row[r].status = ending THEN Over(ending) \union {r}
                                                         ELSE Over(ending)
  BY <1>1, <1>2 DEF Over
<1>5. \A ending : Cardinality(Over(ending)') =
                   IF row[r].status = ending THEN Cardinality(Over(ending)) + 1
                                             ELSE Cardinality(Over(ending))
  BY <1>4, CountedFinite, FS_AddElement
<1>6. /\ metrics'.runs = metrics.runs /\ metrics'.requests = metrics.requests
      /\ metrics'.completed = IF row[r].status = "completed" THEN metrics.completed + 1
                                                             ELSE metrics.completed
      /\ metrics'.failed = IF row[r].status = "failed" THEN metrics.failed + 1
                                                       ELSE metrics.failed
  <2>1. row[r].status = "failed" <=> firstErr[r] # "none"
    BY <1>1, FailedMeansError
  <2>2. metrics \in [runs : Nat, completed : Nat, failed : Nat, requests : Nat]
    BY <1>1 DEF TypeOK
  <2> QED
    BY <2>1, <2>2 DEF CountEnding
<1> QED
  BY <1>3, <1>5, <1>6 DEF MetricsInv

LEMMA MetricsOfRoundTrip ==
  ASSUME IInv, MetricsInv, NEW r \in Runs, NEW w \in Workers, RoundTrip(r, w)
  PROVE  MetricsInv'
<1> DEFINE new == <<r, w>>
<1>1. /\ TypeOK /\ pc' = pc /\ row' = row /\ completed' = completed
      /\ wst[r][w] = "sending" /\ wst'[r][w] = "counting"
  BY DEF IInv, RoundTrip, runVars, TypeOK
<1>2. \A q \in Runs, v \in Workers : <<q, v>> # new => wst'[q][v] = wst[q][v]
  BY <1>1 DEF RoundTrip, TypeOK
<1>3. Begun' = Begun /\ RoundTrips' = RoundTrips /\ \A ending : Over(ending)' = Over(ending)
  <2>1. \A q \in Runs, v \in Workers : wst'[q][v] = "unspawned" <=> wst[q][v] = "unspawned"
    BY <1>1, <1>2
  <2> QED
    BY <1>1, <2>1 DEF Begun, Spawned, RoundTrips, Over
<1>4. Counting' = Counting \union {new} /\ new \notin Counting
  BY <1>1, <1>2 DEF Counting
<1>5. Cardinality(Counting') = Cardinality(Counting) + 1
  BY <1>4, CountedFinite, FS_AddElement
<1>6. /\ metrics'.requests = metrics.requests + 1 /\ metrics'.runs = metrics.runs
      /\ metrics'.completed = metrics.completed /\ metrics'.failed = metrics.failed
  BY <1>1 DEF RoundTrip, TypeOK
<1> QED
  BY <1>3, <1>5, <1>6, CountedFinite DEF MetricsInv

\* Counting a round-trip for its run moves it from the one set to the other.
LEMMA MetricsOfCount ==
  ASSUME IInv, IInv', MetricsInv, NEW r \in Runs, NEW w \in Workers, CountRoundTrip(r, w)
  PROVE  MetricsInv'
<1> DEFINE new == <<r, completed[r] + 1>>
           old == <<r, w>>
<1>1. /\ TypeOK /\ pc' = pc /\ row' = row /\ metrics' = metrics
      /\ wst[r][w] = "counting" /\ wst'[r][w] = "sending"
  BY DEF IInv, CountRoundTrip, TypeOK
<1>2. /\ completed[r] \in Nat /\ completed'[r] = completed[r] + 1
      /\ \A q \in Runs : completed[q] \in Nat
      /\ \A q \in Runs \ {r} : completed'[q] = completed[q]
      /\ \A q \in Runs, v \in Workers : <<q, v>> # old => wst'[q][v] = wst[q][v]
  BY <1>1 DEF CountRoundTrip, TypeOK
<1>3. completed[r] + 1 \in 1..Total
  <2>1. completed'[r] <= Total
    <3>1. (IInv => \A q \in Runs : completed[q] <= Total)'
      BY AtMostTotal, PTL
    <3> QED
      BY <3>1
  <2> QED
    BY <1>2, <2>1, TotalNat
<1>4. RoundTrips' = RoundTrips \union {new} /\ new \notin RoundTrips
  <2>1. ASSUME NEW q \in Runs, NEW k \in 1..Total
        PROVE  k <= completed'[q] <=> k <= completed[q] \/ <<q, k>> = new
    <3>1. CASE q = r
      BY <1>2, <3>1, TotalNat
    <3>2. CASE q # r
      BY <1>2, <3>2
    <3> QED
      BY <3>1, <3>2
  <2>2. new \in Runs \X (1..Total)
    BY <1>3
  <2>3. new \notin RoundTrips
    BY <1>2 DEF RoundTrips
  <2> HIDE DEF new
  <2> QED
    BY <2>1, <2>2, <2>3 DEF RoundTrips
<1>5. Counting' = Counting \ {old} /\ old \in Counting
  BY <1>1, <1>2 DEF Counting
<1>6. Cardinality(RoundTrips') = Cardinality(RoundTrips) + 1
  BY <1>4, CountedFinite, FS_AddElement
<1>7. Cardinality(Counting') = Cardinality(Counting) - 1
  BY <1>5, CountedFinite, FS_RemoveElement
<1>8. Begun' = Begun /\ \A ending : Over(ending)' = Over(ending)
  <2>1. \A q \in Runs, v \in Workers : wst'[q][v] = "unspawned" <=> wst[q][v] = "unspawned"
    BY <1>1, <1>2
  <2> QED
    BY <1>1, <2>1 DEF Begun, Spawned, Over
<1> QED
  BY <1>1, <1>6, <1>7, <1>8, CountedFinite DEF MetricsInv

\* Every other step leaves the counters and what they stand for alone.
LEMMA MetricsFrame ==
  ASSUME IInv, IInv', MetricsInv, NEW r \in Runs,
         \/ RunAction(r) /\ ~Start(r) /\ ~CountEnding(r)
         \/ \E w \in Workers : WorkerAction(r, w) /\ ~RoundTrip(r, w) /\ ~CountRoundTrip(r, w)
  PROVE  MetricsInv'
<1> USE DEF runVars, workerVars
<1>1. TypeOK /\ TypeOK' /\ RunInv(r) /\ RunInv(r)'
  BY DEF IInv
<1>2. metrics' = metrics /\ completed' = completed
  BY WorkerCases
  DEF RunAction, RunStep, Save, SaveFails, AnnounceStart, JoinNext, RecordOutcome, RecordFails,
      Announce, DropRun, Connect, ConnectFails, AttemptFails, RetryConnect, GiveUp,
      FailRoundTrip, LoadCompleted, ReportProgress, Panic
<1>3. \A q \in Runs \ {r} : pc'[q] = pc[q] /\ row'[q] = row[q] /\ wst'[q] = wst[q]
  BY <1>1, OthersUntouched DEF Untouched
<1>4. /\ pc[r] # "returned" /\ pc'[r] # "returned"
      /\ \A v \in Workers :
           /\ wst'[r][v] = "unspawned" <=> wst[r][v] = "unspawned"
           /\ wst'[r][v] = "counting" <=> wst[r][v] = "counting"
  <2>1. CASE RunAction(r) /\ ~Start(r) /\ ~CountEnding(r)
    <3>1. wst' = wst
      BY <2>1 DEF RunAction, RunStep, Save, SaveFails, AnnounceStart, JoinNext, RecordOutcome,
                  RecordFails, Announce, DropRun
    <3>2. pc[r] # "returned" /\ pc'[r] # "returned"
      BY <1>1, <2>1, EngineAssumption
      DEF RunAction, RunStep, Save, SaveFails, AnnounceStart, JoinNext, RecordOutcome,
          RecordFails, Announce, DropRun, Goto, TypeOK
    <3> QED
      BY <3>1, <3>2
  <2>2. ASSUME NEW w \in Workers, WorkerAction(r, w), ~RoundTrip(r, w), ~CountRoundTrip(r, w)
        PROVE  /\ pc[r] # "returned" /\ pc'[r] # "returned"
               /\ \A v \in Workers :
                    /\ wst'[r][v] = "unspawned" <=> wst[r][v] = "unspawned"
                    /\ wst'[r][v] = "counting" <=> wst[r][v] = "counting"
    <3>1. /\ Live(r, w) /\ pc' = pc /\ wst[r][w] # "counting"
          /\ \/ wst' = wst
             \/ \E label \in {"sending", "reporting", "finished"} :
                  wst' = [wst EXCEPT ![r][w] = label]
      BY <2>2, WorkerCases
      DEF Live, Connect, ConnectFails, AttemptFails, RetryConnect, GiveUp, FailRoundTrip,
          LoadCompleted, ReportProgress, Panic, Return
    <3>2. pc[r] # "returned"
      BY <1>1, <3>1, LiveTask
    <3>3. wst \in [Runs -> [Workers -> TaskLabel]]
      BY <1>1 DEF TypeOK
    <3> QED
      BY <3>1, <3>2, <3>3 DEF Live
  <2> QED
    BY <2>1, <2>2
<1>5. Begun' = Begun /\ \A ending : Over(ending)' = Over(ending)
  BY <1>3, <1>4 DEF Begun, Spawned, Over
<1>6. RoundTrips' = RoundTrips /\ Counting' = Counting
  BY <1>2, <1>3, <1>4 DEF RoundTrips, Counting
<1> QED
  BY <1>2, <1>5, <1>6 DEF MetricsInv

\* The counters of the process trail the events published by the runs that are,
\* or were left by their caller, between an event and its count, and by no
\* other; the requests lead the counters of the runs by the tasks in between.
THEOREM MetricsMatch == Spec => []MetricsMatchTheFeeds
<1>1. Init => MetricsInv
  <2> SUFFICES ASSUME Init PROVE MetricsInv
    OBVIOUS
  <2>1. /\ Begun = {} /\ RoundTrips = {} /\ Counting = {}
        /\ \A ending : Over(ending) = {}
    <3>1. 1 \in Workers
      BY ConstantTypes DEF Workers
    <3> QED
      BY <3>1 DEF Init, Begun, Spawned, RoundTrips, Counting, Over
  <2>2. Cardinality({}) = 0
    BY FS_EmptySet
  <2>3. /\ metrics.runs = 0 /\ metrics.completed = 0
        /\ metrics.failed = 0 /\ metrics.requests = 0
    BY DEF Init
  <2> QED
    BY <2>1, <2>2, <2>3 DEF MetricsInv
<1>2. IInv /\ IInv' /\ MetricsInv /\ [Next]_vars => MetricsInv'
  <2> SUFFICES ASSUME IInv, IInv', MetricsInv, [Next]_vars PROVE MetricsInv'
    OBVIOUS
  <2>1. CASE UNCHANGED vars
    BY <2>1 DEF vars, runVars, workerVars, MetricsInv, Begun, Spawned, RoundTrips, Counting, Over
  <2>2. ASSUME NEW r \in Runs, RunAction(r)
        PROVE  MetricsInv'
    BY <2>2, MetricsOfStart, MetricsOfEnding, MetricsFrame
  <2>3. ASSUME NEW r \in Runs, NEW w \in Workers, WorkerAction(r, w)
        PROVE  MetricsInv'
    BY <2>3, MetricsOfRoundTrip, MetricsOfCount, MetricsFrame
  <2> QED
    BY <2>1, <2>2, <2>3 DEF Next, Done, RunAction
<1>3. IInv => (MetricsInv <=> MetricsMatchTheFeeds)
  BY MetricsForm
<1> QED
  BY <1>1, <1>2, <1>3, Invariance, PTL DEF Spec
=============================================================================
