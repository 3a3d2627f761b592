------------------------------ MODULE Connectors ------------------------------
(***************************************************************************)
(* The connectors a node can be given (quicforge-node startup.rs) and what *)
(* the engine may see of each: the simulator of quicforge-infra sim.rs by  *)
(* what it does, quinn by its port's contract (its inside is QuicEcho).    *)
(***************************************************************************)
EXTENDS Integers

CONSTANTS
  QuicFeature,  \* whether the build has the feature quic
  TimerLag      \* bound on how late a timer is set, fires or has its future polled

ASSUME ConnectorsAssumption == QuicFeature \in BOOLEAN /\ TimerLag \in Nat

Transport == {"loopback", "quic"}

\* LoopbackConnector::new and with_delay: a delay of zero is no delay.
LoopbackConnector(delay) == [kind |-> "loopback", delay |-> delay]

\* QuinnConnector::new: a socket, an endpoint and a TLS configuration, any of
\* which may not be had.
QuinnConnector == {[kind |-> "quinn"], [kind |-> "error"]}

BuildConnector_NoDelay(transport, sim_delay) ==
  IF transport = "loopback" THEN {LoopbackConnector(0)}
  ELSE IF QuicFeature THEN QuinnConnector ELSE {[kind |-> "error"]}

\* The results build_connector may have.
BuildConnector(transport, sim_delay) ==
  IF transport = "loopback" THEN {LoopbackConnector(sim_delay)}
  ELSE IF QuicFeature THEN QuinnConnector ELSE {[kind |-> "error"]}

\* The simulator connects at once.
MayFailToConnect(connector) == connector.kind = "quinn"

\* A simulated round-trip sleeps for its delay, if it has one, under a timeout.
\* Both timers go by milliseconds and either may be late.  The poll that finds
\* the sleep over succeeds, be the timeout over too: with_timeout polls the
\* operation first.  The time measured is the delay or more.
MayFail(connector, timeout) ==
  connector.kind = "loopback" =>
    connector.delay # 0 /\ connector.delay + TimerLag >= timeout

MayTake(connector, timeout, ns) ==
  connector.kind = "loopback" =>
    connector.delay <= timeout + TimerLag /\ connector.delay <= ns
=============================================================================
