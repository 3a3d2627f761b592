--------------------------- MODULE BenchEngineInv ---------------------------
(***************************************************************************)
(* The inductive invariant of BenchEngine: what is true between any two    *)
(* steps, strong enough to be preserved by each of them on its own.  TLC   *)
(* checks it on small instances, BenchEngineProofs proves it.              *)
(***************************************************************************)
EXTENDS BenchEngine

\* The tasks of a run are spawned together.
Spawned(r) == \A w \in Workers : wst[r][w] # "unspawned"

\* Where a run stands, against what its clients can see and what it spawned.
ControlInv(r) ==
  /\ pc[r] = "idle" => row[r] = NoRow
  /\ pc[r] = "errored" => /\ row[r].status \in {"absent", "running"}
                          /\ feed[r] = <<>> \/ Spawned(r)
  /\ pc[r] \in {"accepted", "announced", "joining", "recording"} => row[r].status = "running"
  /\ pc[r] \in {"announcing", "ending", "returned"} => Ended(r)
  /\ pc[r] = "dropped" => row[r].status # "absent"
  /\ pc[r] \in {"idle", "accepted"} => feed[r] = <<>>
  /\ pc[r] = "announced" => feed[r] # <<>>
  /\ pc[r] \in {"idle", "accepted", "announced"} =>
       joined[r] = 0 /\ \A w \in Workers : wst[r][w] = "unspawned"
  /\ pc[r] \in {"joining", "recording", "announcing", "ending", "returned"} => Spawned(r)
  /\ feed[r] # <<>> => row[r].status # "absent"
  /\ Spawned(r) => feed[r] # <<>>
  /\ Spawned(r) \/ \A w \in Workers : wst[r][w] = "unspawned"
  /\ pc[r] = "joining" => joined[r] < Connections
  /\ pc[r] \in {"recording", "announcing", "ending", "returned"} => joined[r] = Connections
  /\ Ended(r) => joined[r] = Connections /\ Spawned(r)

\* Where a task stands, against its result, its connection and its histogram.
WorkerInv(r, w) ==
  /\ result[r][w] = "pending" <=> wst[r][w] # "finished"
  /\ wst[r][w] # "connecting" => attempts[r][w] = 0
  /\ wst[r][w] \in {"unspawned", "connecting"} => conn[r][w] = "none"
  /\ wst[r][w] = "finished" => conn[r][w] # "open"
  /\ wst[r][w] = "counting" => samples[r][w] > 0
  /\ wst[r][w] = "reporting" \/ result[r][w] = "ok" => samples[r][w] = Requests

OkUpTo(r, n) == {w \in 1..n : result[r][w] = "ok"}

\* What the join loop has gathered from the handles it has been through.
JoinInv(r) ==
  /\ \A w \in 1..joined[r] : result[r][w] # "pending"
  /\ firstErr[r] = "none" => \A w \in 1..joined[r] : result[r][w] = "ok"
  /\ firstErr[r] # "none" =>
       \E w \in 1..joined[r] : /\ result[r][w] = firstErr[r]
                               /\ \A v \in 1..(w - 1) : result[r][v] = "ok"
  /\ merged[r] = Requests * Cardinality(OkUpTo(r, joined[r]))

ProgressAt(r) == {i \in 1..Len(feed[r]) : feed[r][i].kind = "progress"}

\* What has been published, against what is recorded.
FeedInv(r) ==
  /\ \A i \in 1..Len(feed[r]) :
       /\ feed[r][i].kind = "started" <=> i = 1
       /\ feed[r][i].kind \in Endings =>
            /\ i = Len(feed[r])
            /\ pc[r] \in {"ending", "returned", "dropped"}
            /\ Ended(r)
            /\ feed[r][i].kind = row[r].status
            /\ feed[r][i].reason = row[r].reason
            /\ feed[r][i].kind = "completed" => feed[r][i].count = row[r].stats
  /\ pc[r] \in {"ending", "returned"} => feed[r][Len(feed[r])].kind = row[r].status
  /\ Cardinality(ProgressAt(r)) = Cardinality(OkUpTo(r, Connections))

\* A terminal row still is what the run's variables say its outcome is.
OutcomeInv(r) == Ended(r) => row[r] = Outcome(r)

\* One slot for each round-trip asked for; those done are the samples, and all
\* of these but the one a task is about to count are in the run's counter.
Counted(r, w) == IF wst[r][w] = "counting" THEN samples[r][w] - 1 ELSE samples[r][w]
SampleSlots(r) == {s \in Workers \X (1..Requests) : s[2] <= Counted(r, s[1])}

\* The shared counter counts the samples of all the tasks of the run.
CountInv(r) == completed[r] = Cardinality(SampleSlots(r))

RunInv(r) ==
  /\ ControlInv(r)
  /\ \A w \in Workers : WorkerInv(r, w)
  /\ JoinInv(r)
  /\ FeedInv(r)
  /\ OutcomeInv(r)
  /\ CountInv(r)

\* The inductive invariant of the engine: types, and RunInv of every run.
IInv == TypeOK /\ \A r \in Runs : RunInv(r)

-----------------------------------------------------------------------------
(* A second layer, over IInv: what the counts in the events promise.       *)

\* The tasks about to publish a count below n, and the events that show one.
Behind(r, n) == {w \in Workers : wst[r][w] = "reporting" /\ loaded[r][w] < n}
LateEvents(r, n) == {i \in ProgressAt(r) : feed[r][i].count < n}

\* A count was read when the share of its reader was already in the counter,
\* and that of every task that had read before: at most k - 1 see less than k
\* shares.
ProgressInv(r) ==
  /\ \A w \in Workers :
       wst[r][w] = "reporting" => loaded[r][w] \in Requests..completed[r]
  /\ \A i \in ProgressAt(r) : feed[r][i].count \in Requests..completed[r]
  /\ \A k \in Workers : Cardinality(LateEvents(r, k * Requests))
                          + Cardinality(Behind(r, k * Requests)) < k

\* The inductive invariant with both layers.
FullInv == IInv /\ \A r \in Runs : ProgressInv(r)
=============================================================================
