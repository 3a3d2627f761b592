--------------------------------- MODULE Node ---------------------------------
(***************************************************************************)
(* quicforge-node (main.rs, lib.rs): a process that serves or benchmarks,  *)
(* as its command line says.                                               *)
(***************************************************************************)
EXTENDS Serve, Bench

VARIABLE command   \* "serve" or "bench"

vars == <<serveVars, benchVars, command>>

Init == ServeInit /\ BenchInit /\ command \in {"serve", "bench"}

\* lib.rs run.
Next ==
  \/ command = "serve" /\ ServeNext /\ UNCHANGED <<benchVars, command>>
  \/ command = "bench" /\ BenchNext /\ UNCHANGED <<serveVars, command>>

FairSpec ==
  /\ Init /\ [][Next]_vars
  /\ command = "serve" => ServeFairness
  /\ command = "bench" => BenchFairness

-----------------------------------------------------------------------------
\* Every variable has its type, and the histograms hold what the engine counts.
TypeOK == ServeTypeOK /\ BenchTypeOK

\* A benchmark ends, with whatever transport, and so does a server that caught
\* a signal, whatever its clients and their sockets do meanwhile, unless one of
\* them sits on half a request.
TheCommandEnds ==
  /\ command = "bench" ~> at = "done"
  /\ caught # {} ~> \/ phase = "exited"
                    \/ \E c \in Stallers : http[c] = "reading"
=============================================================================
