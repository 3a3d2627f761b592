---------------------------- MODULE MCBenchEngine ----------------------------
(* Small instances of BenchEngine for TLC.                                 *)
EXTENDS BenchEngineInv, TLC

CONSTANTS r1, r2

OneRun  == {r1}
TwoRuns == {r1, r2}

\* Runs are interchangeable: nothing but its id tells one from another.
RunSymmetry == Permutations(TwoRuns)

\* The only await of run that suspends with the adapters of quicforge-infra:
\* save, update and publish never yield there.
JoinOnly  == {"joining"}
AnyAwait  == {"accepted", "announced", "joining", "recording", "announcing", "ending"}
Nowhere   == {}
=============================================================================
