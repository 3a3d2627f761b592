-------------------------------- MODULE Api --------------------------------
(***************************************************************************)
(* The wire side of the GraphQL API (quicforge-api mutation.rs, types.rs)  *)
(* and the parameters it validates (quicforge-types params.rs): which      *)
(* inputs of startBenchmark become a run, and what a client is shown of a  *)
(* row and of an event.                                                    *)
(*                                                                         *)
(* An optional field is a set of at most one value.  The figures of a      *)
(* LatencyStats stand for each other, and throughput goes with a completed *)
(* run; ids and times are values.                                          *)
(***************************************************************************)
EXTENDS Integers

CONSTANTS
  MaxPayload,   \* PayloadSize::MAX
  CountWidth    \* the numbers a u64 holds

ASSUME ApiAssumption == MaxPayload \in Nat \ {0} /\ CountWidth \in Nat \ {0}

\* The constructors of the three newtypes.
PayloadSize(bytes) == bytes \in 1..MaxPayload
ConnectionCount(n) == n # 0
RequestCount(n)    == n # 0

\* to_params: a target that parses, and the three validated numbers.
Accepted(input) ==
  /\ input.target = "address"
  /\ ConnectionCount(input.connections)
  /\ RequestCount(input.requests)
  /\ PayloadSize(input.payload)

\* u64 multiplication, which wraps in a release build.
TotalRequests(params) == (params.connections * params.requests) % CountWidth

\* The status is flattened: a field is there if the state has it.
RunSummaryObject(row) ==
  [id             |-> row.id,
   params         |-> row.params,   \* field by field
   total_requests |-> TotalRequests(row.params),
   state          |-> row.status.kind,
   completed      |-> IF row.status.kind = "running" THEN {row.status.completed} ELSE {},
   failure_reason |-> IF row.status.kind = "failed" THEN {row.status.reason} ELSE {},
   stats          |-> row.stats,
   throughput     |-> row.throughput,
   started_at     |-> row.started,
   finished       |-> row.finished]

\* The flattened union: a field is there if the kind of event has it.
RunEventObject(e) ==
  [kind           |-> e.kind,
   run_id         |-> e.run,
   total          |-> IF e.kind \in {"started", "progress"} THEN {e.total} ELSE {},
   completed      |-> IF e.kind = "progress" THEN {e.completed} ELSE {},
   stats          |-> IF e.kind = "completed" THEN {e.stats} ELSE {},
   throughput     |-> IF e.kind = "completed" THEN {e.throughput} ELSE {},
   failure_reason |-> IF e.kind = "failed" THEN {e.reason} ELSE {}]
=============================================================================
