-------------------------------- MODULE Serve --------------------------------
(***************************************************************************)
(* The serve command (quicforge-node startup.rs): it starts, answers HTTP  *)
(* requests and, on a signal, shuts down gracefully.                       *)
(*                                                                         *)
(* axum and hyper are modelled by their contract: graceful shutdown stops  *)
(* accepting, closes connections that are idle and waits for those that    *)
(* are not; a connection that was upgraded to a WebSocket is nobody's to   *)
(* wait for; a client that goes away has the future of its request         *)
(* dropped.  What a request does is in ReadModels and BenchEngine.         *)
(***************************************************************************)
EXTENDS Connectors

CONSTANTS
  Clients,            \* the connections clients may make
  Stallers,           \* those whose clients may never finish a request
  MaxRequests,        \* the requests a client sends on a connection
  HandlersMayFail,    \* whether installing a signal handler may fail
  Transports          \* what --transport may say: ServeArgs

ASSUME ServeAssumption ==
  /\ Stallers \subseteq Clients
  /\ MaxRequests \in Nat
  /\ HandlersMayFail \in BOOLEAN
  /\ Transports \subseteq Transport

Signals == {"SIGINT", "SIGTERM"}

VARIABLES
  phase,      \* "starting", "listening", "closing" or "exited"
  exit,       \* how the process ended: "none", "ok", "error" or "killed"
  handler,    \* handler[s]: "default", "installed" or "failed"
  caught,     \* the signals whose handlers have run
  http,       \* http[c]: where connection c is
  began, answered, abandoned,   \* the requests of each connection
  graphql     \* quicforge_graphql_requests_total

shutdownVars == <<phase, exit, handler, caught>>
requestVars  == <<began, answered, abandoned, graphql>>
serveVars    == <<shutdownVars, http, requestVars>>

ServeInit ==
  /\ phase = "starting" /\ exit = "none"
  /\ handler = [s \in Signals |-> "default"] /\ caught = {}
  /\ http = [c \in Clients |-> "none"]
  /\ began = [c \in Clients |-> 0] /\ answered = [c \in Clients |-> 0]
  /\ abandoned = [c \in Clients |-> 0]
  /\ graphql = 0

-----------------------------------------------------------------------------
(* The process: run_server and shutdown_signal.                            *)

\* The process is gone, and with it every connection.
End(how) ==
  /\ phase' = "exited" /\ exit' = how
  /\ http' = [c \in Clients |-> IF http[c] = "none" THEN "none" ELSE "closed"]

\* The recorder, the connector and the address could be had.
Bind ==
  /\ phase = "starting"
  /\ \E transport \in Transports :
       \E connector \in BuildConnector(transport, 0) : connector.kind # "error"
  /\ phase' = "listening"
  /\ UNCHANGED <<exit, handler, caught, http, requestVars>>

StartupFails ==
  /\ phase = "starting"
  /\ End("error")
  /\ UNCHANGED <<handler, caught, requestVars>>

\* The first poll of shutdown_signal.  select! polls its branches in any order
\* and not further once one is over, as the one whose handler fails is.
InstallHandlers ==
  /\ phase = "listening" /\ \A s \in Signals : handler[s] = "default"
  /\ \E h \in [Signals -> {"default", "installed", "failed"}] :
       /\ \/ \A s \in Signals : h[s] = "installed"
          \/ HandlersMayFail /\ \E s \in Signals : h[s] = "failed" /\
                                   \A t \in Signals \ {s} : h[t] # "failed"
       /\ handler' = h
  /\ UNCHANGED <<phase, exit, caught, http, requestVars>>

\* A signal comes.  Its handler stays when shutdown_signal is over, so that it
\* has no effect a second time; without one it ends the process.
SignalCaught(s) ==
  /\ phase # "exited" /\ handler[s] = "installed"
  /\ caught' = caught \union {s}
  /\ UNCHANGED <<phase, exit, handler, http, requestVars>>

SignalKills(s) ==
  /\ phase # "exited" /\ handler[s] # "installed"
  /\ End("killed")
  /\ UNCHANGED <<handler, caught, requestVars>>

\* shutdown_signal returns: a signal, or the error of a handler.
AskedToStop_Both == caught = Signals \/ \E s \in Signals : handler[s] = "failed"
AskedToStop == caught # {} \/ \E s \in Signals : handler[s] = "failed"

ShutDown ==
  /\ phase = "listening" /\ AskedToStop
  /\ phase' = "closing"
  /\ UNCHANGED <<exit, handler, caught, http, requestVars>>

\* What graceful shutdown waits for.
Busy == {c \in Clients : http[c] \in {"connected", "reading", "executing"}}

\* The server in a select! with shutdown_signal, not under graceful shutdown.
Exit_AtOnce ==
  /\ phase = "closing"
  /\ End("ok")
  /\ UNCHANGED <<handler, caught, requestVars>>

Exit ==
  /\ phase = "closing" /\ Busy = {}
  /\ End("ok")
  /\ UNCHANGED <<handler, caught, requestVars>>

-----------------------------------------------------------------------------
(* A connection.                                                           *)

Go(c, from, to) == http[c] = from /\ http' = [http EXCEPT ![c] = to]
Count(requests, c) == [requests EXCEPT ![c] = @ + 1]

Accept(c) ==
  /\ phase = "listening" /\ Go(c, "none", "connected")
  /\ UNCHANGED <<shutdownVars, requestVars>>

\* The first bytes of a request arrive, possibly after the shutdown began and
\* before the connection heard of it.
BeginRequest(c) ==
  /\ began[c] < MaxRequests
  /\ Go(c, "connected", "reading")
  /\ began' = Count(began, c)
  /\ UNCHANGED <<shutdownVars, answered, abandoned, graphql>>

\* A whole request was read: its handler is called, which for a POST to
\* /graphql counts it before it executes it.
CallHandler(c) ==
  /\ Go(c, "reading", "executing")
  /\ graphql' \in {graphql, graphql + 1}
  /\ UNCHANGED <<shutdownVars, began, answered, abandoned>>

\* /graphql/ws: the connection leaves the server's hands.
Upgrade(c) ==
  /\ Go(c, "reading", "websocket")
  /\ answered' = Count(answered, c)
  /\ UNCHANGED <<shutdownVars, began, abandoned, graphql>>

Respond(c) ==
  /\ Go(c, "executing", IF phase = "closing" THEN "closed" ELSE "connected")
  /\ answered' = Count(answered, c)
  /\ UNCHANGED <<shutdownVars, began, abandoned, graphql>>

CloseIdle(c) ==
  /\ phase = "closing" /\ Go(c, "connected", "closed")
  /\ UNCHANGED <<shutdownVars, requestVars>>

\* The client goes away: what its request was doing is dropped.
Disconnect(c) ==
  /\ \E from \in {"connected", "reading", "executing", "websocket"} : Go(c, from, "closed")
  /\ abandoned' = IF http[c] \in {"reading", "executing"} THEN Count(abandoned, c) ELSE abandoned
  /\ UNCHANGED <<shutdownVars, began, answered, graphql>>

-----------------------------------------------------------------------------
ProcessStep == Bind \/ StartupFails \/ InstallHandlers \/ ShutDown \/ Exit
HandlerStep(c) == Respond(c) \/ CloseIdle(c)
ReadStep(c)    == CallHandler(c) \/ Upgrade(c)

ServeNext ==
  \/ ProcessStep
  \/ \E s \in Signals : SignalCaught(s) \/ SignalKills(s)
  \/ \E c \in Clients : \/ Accept(c) \/ BeginRequest(c) \/ Disconnect(c)
                        \/ HandlerStep(c) \/ ReadStep(c)

\* The process goes on when it can, handlers return (every run does, see
\* BenchEngine), and clients that are no stallers send whole requests.  Nobody
\* has to connect, to go away or to send a signal.
ServeFairness ==
  /\ WF_serveVars(ProcessStep)
  /\ \A c \in Clients : WF_serveVars(HandlerStep(c))
  /\ \A c \in Clients \ Stallers : WF_serveVars(ReadStep(c))

ServeSpec == ServeInit /\ [][ServeNext]_serveVars

-----------------------------------------------------------------------------
(* Properties                                                              *)

Place == {"none", "connected", "reading", "executing", "websocket", "closed"}

\* Every variable has its type.
ServeTypeOK ==
  /\ phase \in {"starting", "listening", "closing", "exited"}
  /\ exit \in {"none", "ok", "error", "killed"}
  /\ handler \in [Signals -> {"default", "installed", "failed"}]
  /\ caught \subseteq Signals
  /\ http \in [Clients -> Place]
  /\ began \in [Clients -> Nat] /\ answered \in [Clients -> Nat]
  /\ abandoned \in [Clients -> Nat]
  /\ graphql \in Nat

\* A graceful exit cuts no request: when the process ends well every request
\* that reached it was answered, whenever it came, unless its client went away.
EveryRequestIsAnswered ==
  exit = "ok" => \A c \in Clients : began[c] = answered[c] + abandoned[c]

\* startup.rs:86 "Run the server until a shutdown signal (SIGTERM / Ctrl-C)
\* arrives."
ServesUntilSignalled == phase = "closing" => caught # {}
=============================================================================
