-------------------------------- MODULE MCNode --------------------------------
(* A small instance of Node for TLC. *)
EXTENDS Node

CONSTANTS c1, c2

TwoClients == {c1, c2}
OneStaller == {c2}

\* A fast round-trip, a slow one, and one slower than the histogram goes.
SomeLatencies == {1, 5, 9}

Args(target, connections, requests, payload, transport, spawn_echo, sim_delay) ==
  [target |-> target, connections |-> connections, requests |-> requests,
   payload |-> payload, transport |-> transport, spawn_echo |-> spawn_echo,
   sim_delay |-> sim_delay]

\* Valid ones over each transport, and one mistake at a time.
SomeInvocations ==
  {Args("address", 2, 2, 4, "loopback", FALSE, delay) : delay \in {0, 3, 4, 6, 7}}
  \union {Args("address", 2, 2, 4, "quic", FALSE, 0),
          Args("nonsense", 2, 2, 4, "quic", TRUE, 0),
          Args("nonsense", 2, 2, 4, "loopback", FALSE, 0),
          Args("address", 0, 2, 4, "loopback", FALSE, 0),
          Args("address", 2, 0, 4, "loopback", FALSE, 0),
          Args("address", 2, 2, 0, "loopback", FALSE, 0),
          Args("address", 2, 2, 5, "loopback", FALSE, 0)}
=============================================================================
