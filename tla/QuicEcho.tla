------------------------------ MODULE QuicEcho ------------------------------
(***************************************************************************)
(* The QUIC transport (quicforge-infra quic.rs): QuinnConnector and        *)
(* QuinnConnection on one side, the tasks of QuicEchoServer on the other.  *)
(*                                                                         *)
(* The client side of a connection does its round-trips one after another, *)
(* each on a stream of its own, and closes the connection at the first     *)
(* that does not succeed: so it is used by run_connection, which may also  *)
(* drop a connect or a round_trip that takes too long.  The server accepts *)
(* connections in a loop, and has a task for each connection and one for   *)
(* each stream.                                                            *)
(*                                                                         *)
(* quinn is modelled by its contract: a stream delivers what was written   *)
(* to it, in order, and then its end, which may still be read once the     *)
(* connection is gone; a connection may be lost, and each side notices in  *)
(* its own time; a stream that is dropped is finished (sending) or stopped *)
(* (receiving); a closed endpoint still yields what is in its queue.  The  *)
(* content of a payload is its length.                                     *)
(***************************************************************************)
EXTENDS Integers

CONSTANTS
  Connections,   \* the connections clients may open
  Requests,      \* the round-trips that client c asks for: Requests[c]
  MaxRequests,   \* the most that one asks for
  Size,          \* the length of a payload (PayloadSize)
  MaxEcho,       \* MAX_ECHO_BYTES
  Stallers       \* the clients that may stop taking part in their handshake

ASSUME EchoAssumption ==
  /\ MaxRequests \in Nat \ {0}
  /\ Requests \in [Connections -> 1..MaxRequests]
  /\ Size \in Nat \ {0} /\ MaxEcho \in Nat
  /\ Size <= MaxEcho   \* PayloadSize::MAX and MAX_ECHO_BYTES are both 1 << 20
  /\ Stallers \subseteq Connections

VARIABLES
  endpoint,   \* the server's endpoint: "open" or "closed"
  loop,       \* accept_loop: "running" or "ended"
  client,     \* client[c]: "idle", "dialing", "open" or "closed"
  server,     \* server[c]: "none", "queued", "handshaking", "serving" or "done"
  alive,      \* alive[c]: whether the connection still carries packets
  round,      \* round[c]: the round-trips begun
  call,       \* call[c][k]: the k-th round_trip of the client
  task,       \* task[c][k]: the server's task for its stream
  sent,       \* sent[c][k]: the length of the finished request, -1 before
  echoed      \* echoed[c][k]: the length of the finished echo, -1 before

clientVars == <<client, round, call>>
serverVars == <<loop, server, task>>
dataVars   == <<sent, echoed>>
vars == <<endpoint, alive, clientVars, serverVars, dataVars>>

Streams == 1..MaxRequests

Per(value) == [c \in Connections |-> [k \in Streams |-> value]]

Init ==
  /\ endpoint = "open"
  /\ loop = "running"
  /\ client = [c \in Connections |-> "idle"]
  /\ server = [c \in Connections |-> "none"]
  /\ alive  = [c \in Connections |-> TRUE]
  /\ round  = [c \in Connections |-> 0]
  /\ call = Per("none") /\ task = Per("none")
  /\ sent = Per(-1)     /\ echoed = Per(-1)

-----------------------------------------------------------------------------
(* The client side.                                                        *)

\* The first packet is on its way; a closed endpoint does not queue it.
Dial(c) ==
  /\ client[c] = "idle"
  /\ client' = [client EXCEPT ![c] = "dialing"]
  /\ server' = [server EXCEPT ![c] = IF endpoint = "open" THEN "queued" ELSE "none"]
  /\ UNCHANGED <<endpoint, alive, loop, round, call, task, dataVars>>

\* The server has answered the handshake.
Connected(c) ==
  /\ client[c] = "dialing" /\ alive[c]
  /\ server[c] = "handshaking"
  /\ client' = [client EXCEPT ![c] = "open"]
  /\ UNCHANGED <<endpoint, alive, round, call, serverVars, dataVars>>

EndDial(c) ==
  /\ client[c] = "dialing"
  /\ client' = [client EXCEPT ![c] = "closed"]
  /\ alive'  = [alive EXCEPT ![c] = FALSE]
  /\ UNCHANGED <<endpoint, round, call, serverVars, dataVars>>

\* The connection is refused or lost,
DialFails(c) == (~alive[c] \/ server[c] = "none") /\ EndDial(c)

\* or the dial is dropped by connect_timeout.
DropDial(c) == EndDial(c)

InFlight(c, k) == call[c][k] \in {"writing", "reading"}

OpenStream_OneTooMany(c) ==
  /\ client[c] = "open"
  /\ round[c] <= Requests[c]
  /\ \A k \in 1..round[c] : call[c][k] = "ok"
  /\ round' = [round EXCEPT ![c] = @ + 1]
  /\ call'  = [call EXCEPT ![c][round[c] + 1] = "writing"]
  /\ UNCHANGED <<endpoint, alive, client, serverVars, dataVars>>

\* open_bi, for the next round-trip.
OpenStream(c) ==
  /\ client[c] = "open"
  /\ round[c] < Requests[c]
  /\ \A k \in 1..round[c] : call[c][k] = "ok"
  /\ round' = [round EXCEPT ![c] = @ + 1]
  /\ call'  = [call EXCEPT ![c][round[c] + 1] = "writing"]
  /\ UNCHANGED <<endpoint, alive, client, serverVars, dataVars>>

\* write_all and finish.
SendRequest(c, k) ==
  /\ call[c][k] = "writing" /\ alive[c]
  /\ sent' = [sent EXCEPT ![c][k] = Size]
  /\ call' = [call EXCEPT ![c][k] = "reading"]
  /\ UNCHANGED <<endpoint, alive, client, round, serverVars, echoed>>

ReceiveEcho_Unfinished(c, k) ==
  /\ call[c][k] = "reading"
  /\ task[c][k] # "none"
  /\ call' = [call EXCEPT ![c][k] = "ok"]
  /\ UNCHANGED <<endpoint, alive, client, round, serverVars, dataVars>>

\* read_to_end has the whole echo: it must be as long as the request.
ReceiveEcho(c, k) ==
  /\ call[c][k] = "reading"
  /\ echoed[c][k] # -1
  /\ call' = [call EXCEPT ![c][k] =
                IF echoed[c][k] <= MaxEcho /\ echoed[c][k] = Size THEN "ok" ELSE "failed"]
  /\ UNCHANGED <<endpoint, alive, client, round, serverVars, dataVars>>

\* What the call awaits fails with the connection.
RoundTripFails(c, k) ==
  /\ InFlight(c, k) /\ ~alive[c]
  /\ call' = [call EXCEPT ![c][k] = "failed"]
  /\ UNCHANGED <<endpoint, alive, client, round, serverVars, dataVars>>

\* The call is dropped by request_timeout; its stream is finished as it is.
DropRoundTrip(c, k) ==
  /\ InFlight(c, k)
  /\ call' = [call EXCEPT ![c][k] = "dropped"]
  /\ sent' = [sent EXCEPT ![c][k] = IF @ = -1 THEN 0 ELSE @]
  /\ UNCHANGED <<endpoint, alive, client, round, serverVars, echoed>>

AllDone(c) == \A k \in 1..Requests[c] : call[c][k] = "ok"

\* run_connection closes: all done, or a round-trip did not succeed.
Close(c) ==
  /\ client[c] = "open"
  /\ \/ AllDone(c)
     \/ \E k \in Streams : call[c][k] \in {"failed", "dropped"}
  /\ client' = [client EXCEPT ![c] = "closed"]
  /\ alive'  = [alive EXCEPT ![c] = FALSE]
  /\ UNCHANGED <<endpoint, round, call, serverVars, dataVars>>

-----------------------------------------------------------------------------
(* The server side.                                                        *)

Accept_Inline(c) ==
  /\ loop = "running"
  /\ server[c] = "queued"
  /\ \A d \in Connections : server[d] # "handshaking"
  /\ server' = [server EXCEPT ![c] = "handshaking"]
  /\ UNCHANGED <<endpoint, alive, clientVars, loop, task, dataVars>>

\* endpoint.accept yields a connection: its handshake gets a task of its own.
Accept(c) ==
  /\ loop = "running"
  /\ server[c] = "queued"
  /\ server' = [server EXCEPT ![c] = "handshaking"]
  /\ UNCHANGED <<endpoint, alive, clientVars, loop, task, dataVars>>

\* The endpoint is closed and its queue empty: accept yields None.
StopAccepting ==
  /\ loop = "running" /\ endpoint = "closed"
  /\ \A c \in Connections : server[c] # "queued"
  /\ loop' = "ended"
  /\ UNCHANGED <<endpoint, alive, clientVars, server, task, dataVars>>

\* incoming.await: the client has taken its part in the handshake.
Establish(c) ==
  /\ server[c] = "handshaking"
  /\ client[c] = "open" /\ alive[c]
  /\ server' = [server EXCEPT ![c] = "serving"]
  /\ UNCHANGED <<endpoint, alive, clientVars, loop, task, dataVars>>

\* The connection is gone: the handshake fails, or accept_bi does and the loop
\* over its streams ends.
LeaveConnection(c) ==
  /\ server[c] \in {"handshaking", "serving"} /\ ~alive[c]
  /\ server' = [server EXCEPT ![c] = "done"]
  /\ UNCHANGED <<endpoint, alive, clientVars, loop, task, dataVars>>

\* accept_bi yields the next stream once something came on it.
AcceptStream(c, k) ==
  /\ server[c] = "serving" /\ alive[c]
  /\ task[c][k] = "none"
  /\ \A j \in 1..(k - 1) : task[c][j] # "none"
  /\ call[c][k] # "none"
  /\ task' = [task EXCEPT ![c][k] = "reading"]
  /\ UNCHANGED <<endpoint, alive, clientVars, loop, server, dataVars>>

Accepts_OffByOne(length) == length < MaxEcho

\* What read_to_end(MAX_ECHO_BYTES) takes.
Accepts(length) == length <= MaxEcho

\* read_to_end: a longer request ends the task, which finishes an empty echo.
ReadRequest(c, k) ==
  /\ task[c][k] = "reading" /\ sent[c][k] # -1
  /\ IF Accepts(sent[c][k])
     THEN task' = [task EXCEPT ![c][k] = "writing"] /\ UNCHANGED echoed
     ELSE /\ task' = [task EXCEPT ![c][k] = "ended"]
          /\ echoed' = [echoed EXCEPT ![c][k] = 0]
  /\ UNCHANGED <<endpoint, alive, clientVars, loop, server, sent>>

\* write_all and finish.
WriteEcho(c, k) ==
  /\ task[c][k] = "writing" /\ alive[c]
  /\ echoed' = [echoed EXCEPT ![c][k] = sent[c][k]]
  /\ task' = [task EXCEPT ![c][k] = "stopping"]
  /\ UNCHANGED <<endpoint, alive, clientVars, loop, server, sent>>

\* stopped(): the client has the echo or has dropped the stream.
EchoTaken(c, k) ==
  /\ task[c][k] = "stopping" /\ alive[c]
  /\ call[c][k] \in {"ok", "failed", "dropped"}
  /\ task' = [task EXCEPT ![c][k] = "ended"]
  /\ UNCHANGED <<endpoint, alive, clientVars, loop, server, dataVars>>

LeaveStream_NotStopping(c, k) ==
  /\ task[c][k] \in {"reading", "writing"} /\ ~alive[c]
  /\ task' = [task EXCEPT ![c][k] = "ended"]
  /\ UNCHANGED <<endpoint, alive, clientVars, loop, server, dataVars>>

\* The call the task awaits fails with the connection.
LeaveStream(c, k) ==
  /\ task[c][k] \in {"reading", "writing", "stopping"} /\ ~alive[c]
  /\ task' = [task EXCEPT ![c][k] = "ended"]
  /\ UNCHANGED <<endpoint, alive, clientVars, loop, server, dataVars>>

Shutdown_KeepServing ==
  /\ endpoint = "open"
  /\ endpoint' = "closed"
  /\ UNCHANGED <<alive, clientVars, serverVars, dataVars>>

\* shutdown: the endpoint and every connection it has are closed.
Shutdown ==
  /\ endpoint = "open"
  /\ endpoint' = "closed"
  /\ alive' = [c \in Connections |-> alive[c] /\ server[c] = "none"]
  /\ UNCHANGED <<clientVars, serverVars, dataVars>>

\* The network fails for longer than the idle timeout, or the client's handle
\* is dropped with its task.
Lose(c) ==
  /\ alive[c] /\ client[c] # "idle"
  /\ alive' = [alive EXCEPT ![c] = FALSE]
  /\ UNCHANGED <<endpoint, clientVars, serverVars, dataVars>>

-----------------------------------------------------------------------------

\* The accept loop's step for c, then those of the task it spawned for c.
ConnectionTask(c) ==
  \/ Accept(c) \/ Establish(c) \/ LeaveConnection(c)
  \/ \E k \in Streams : AcceptStream(c, k)

StreamTask(c, k) ==
  ReadRequest(c, k) \/ WriteEcho(c, k) \/ EchoTaken(c, k) \/ LeaveStream(c, k)

\* What a client does of itself once it dials.
ClientStep(c) ==
  \/ DialFails(c) \/ OpenStream(c) \/ Close(c)
  \/ \E k \in Streams : SendRequest(c, k) \/ ReceiveEcho(c, k) \/ RoundTripFails(c, k)

Disturbance(c) ==
  DropDial(c) \/ Lose(c) \/ \E k \in Streams : DropRoundTrip(c, k)

Next ==
  \/ Shutdown \/ StopAccepting
  \/ \E c \in Connections :
       \/ Dial(c) \/ Connected(c) \/ ClientStep(c) \/ Disturbance(c)
       \/ ConnectionTask(c) \/ \E k \in Streams : StreamTask(c, k)

Spec == Init /\ [][Next]_vars

\* Every task of the server is run while it can go on, and so is a client's that
\* dials; a staller need not answer.
FairSpec ==
  /\ Spec
  /\ WF_vars(StopAccepting)
  /\ \A c \in Connections :
       /\ WF_vars(ClientStep(c)) /\ WF_vars(ConnectionTask(c))
       /\ \A k \in Streams : WF_vars(StreamTask(c, k))
  /\ \A c \in Connections \ Stallers : WF_vars(Connected(c))

-----------------------------------------------------------------------------
(* Properties                                                              *)

\* Every variable has its type.
TypeOK ==
  /\ endpoint \in {"open", "closed"} /\ loop \in {"running", "ended"}
  /\ client \in [Connections -> {"idle", "dialing", "open", "closed"}]
  /\ server \in [Connections -> {"none", "queued", "handshaking", "serving", "done"}]
  /\ alive \in [Connections -> BOOLEAN]
  /\ round \in [Connections -> 0..MaxRequests]
  /\ \A c \in Connections : round[c] <= Requests[c]
  /\ call \in [Connections -> [Streams ->
                 {"none", "writing", "reading", "ok", "failed", "dropped"}]]
  /\ task \in [Connections -> [Streams ->
                 {"none", "reading", "writing", "stopping", "ended"}]]
  /\ sent \in [Connections -> [Streams -> {-1, 0, Size}]]
  /\ echoed \in [Connections -> [Streams -> {-1, 0, Size}]]

\* A round-trip that is counted made the whole way: the server's task for its
\* stream had all of the request and wrote all of it back, whatever became of
\* the connection since.  A latency is never that of less than an echo.
OkMeansEchoed ==
  \A c \in Connections : \A k \in Streams :
    call[c][k] = "ok" => /\ task[c][k] \in {"stopping", "ended"}
                         /\ sent[c][k] = Size /\ echoed[c][k] = Size

\* Of a payload that PayloadSize admits, up to and including the longest, an echo
\* never comes back short: round_trip gives an error only if the connection is
\* gone, not because the two sides disagree about the limit.
OnlyALostConnectionFails ==
  \A c \in Connections : \A k \in Streams : call[c][k] = "failed" => ~alive[c]

\* Why: the length of an echo is that of its request, which is Size from the time
\* the client reads; a call begins on a stream nobody has used.
EchoInv(c, k) ==
  /\ k > round[c] => call[c][k] = "none"
  /\ call[c][k] \in {"none", "writing"} => sent[c][k] = -1
  /\ call[c][k] \in {"reading", "ok"} => sent[c][k] = Size
  /\ task[c][k] = "writing" => sent[c][k] # -1
  /\ echoed[c][k] # -1 => /\ task[c][k] \in {"stopping", "ended"}
                         /\ sent[c][k] # -1 /\ echoed[c][k] = sent[c][k]
  /\ call[c][k] = "ok" => echoed[c][k] # -1
  /\ call[c][k] = "failed" => ~alive[c]

\* The inductive invariant of the safety properties.
IInv == TypeOK /\ \A c \in Connections : \A k \in Streams : EchoInv(c, k)

\* Nothing but the client itself, or what follows from a round-trip, ends c.
Undisturbed(c) ==
  /\ endpoint = "open"
  /\ alive[c] \/ (client[c] = "closed" /\ round[c] > 0)
  /\ \A k \in Streams : call[c][k] # "dropped"

\* A client that dials and answers has every one of its echoes in the end, unless
\* something comes between; that others stall in their handshakes does not.
EveryEchoComesBack ==
  \A c \in Connections \ Stallers :
    []Undisturbed(c) => (client[c] = "dialing" ~> AllDone(c))

NoTaskIsLeft(c) ==
  /\ server[c] \in {"none", "done"}
  /\ \A k \in Streams : task[c][k] \in {"none", "ended"}

\* Whenever and however a connection goes, the tasks the server has for it and
\* for its streams end, those that wait for the client to take its echo too.
TasksEndWithTheConnection == \A c \in Connections : ~alive[c] ~> NoTaskIsLeft(c)

\* After shutdown the server comes to rest, whatever it was doing, connections
\* in its queue or half way through a handshake included.
ShutdownStopsEverything ==
  endpoint = "closed" ~> loop = "ended" /\ \A c \in Connections : NoTaskIsLeft(c)
=============================================================================
