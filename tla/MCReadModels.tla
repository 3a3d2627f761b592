---------------------------- MODULE MCReadModels ----------------------------
\* ReadModels on a small instance.
EXTENDS ReadModelsInv, TLC

CONSTANTS r1, r2, c1

TwoRuns == {r1, r2}
OneClient == {c1}

\* One input that is accepted, and one for each reason to refuse one.
Input(target, connections, requests, payload) ==
  [target |-> target, connections |-> connections, requests |-> requests,
   payload |-> payload]

FewInputs ==
  {Input("address", 2, 3, 4), Input("nonsense", 1, 1, 1), Input("address", 0, 1, 1),
   Input("address", 1, 0, 1), Input("address", 1, 1, 0), Input("address", 1, 1, 5)}

\* The runs are interchangeable; the client is one.
RunSymmetry == Permutations(TwoRuns)
=============================================================================
