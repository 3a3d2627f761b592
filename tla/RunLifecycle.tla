---------------------------- MODULE RunLifecycle ----------------------------
(***************************************************************************)
(* What the engine promises its clients about one benchmark run, seen only *)
(* through the two read models they have: the row the repository returns   *)
(* for the run's id, and the news the event stream carries about it.       *)
(*                                                                         *)
(*  - a run is recorded before anything is announced about it;             *)
(*  - it ends at most once, as completed or as failed;                     *)
(*  - the end is announced only after the row shows it, and as the row     *)
(*    shows it.                                                            *)
(*                                                                         *)
(* BenchEngine implements this specification: see its refinement section.  *)
(***************************************************************************)

CONSTANT Runs

VARIABLES
  status,   \* status[r]: what a query for run r answers
  news      \* news[r]:   the last lifecycle event announced for run r

vars == <<status, news>>

Endings == {"completed", "failed"}

TypeOK ==
  /\ status \in [Runs -> {"absent", "running"} \union Endings]
  /\ news   \in [Runs -> {"none", "started"} \union Endings]

Init ==
  /\ status = [r \in Runs |-> "absent"]
  /\ news   = [r \in Runs |-> "none"]

Accept(r) ==
  /\ status[r] = "absent"
  /\ status' = [status EXCEPT ![r] = "running"]
  /\ UNCHANGED news

AnnounceStart(r) ==
  /\ status[r] = "running"
  /\ news[r] = "none"
  /\ news' = [news EXCEPT ![r] = "started"]
  /\ UNCHANGED status

Finish(r) ==
  /\ status[r] = "running"
  /\ news[r] = "started"
  /\ \E ending \in Endings : status' = [status EXCEPT ![r] = ending]
  /\ UNCHANGED news

AnnounceEnd(r) ==
  /\ status[r] \in Endings
  /\ news[r] = "started"
  /\ news' = [news EXCEPT ![r] = status[r]]
  /\ UNCHANGED status

Advance(r) == AnnounceStart(r) \/ Finish(r) \/ AnnounceEnd(r)

Next == \E r \in Runs : Accept(r) \/ Advance(r)

Spec == Init /\ [][Next]_vars

\* A run that was accepted is carried to its announced end: what is promised of
\* one that no port and no caller lets down.
Carried(r) == WF_vars(Advance(r))
FairSpec == Spec /\ \A r \in Runs : Carried(r)
=============================================================================
