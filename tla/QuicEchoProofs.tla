--------------------------- MODULE QuicEchoProofs ---------------------------
(***************************************************************************)
(* Proofs about QuicEcho, for any number of connections and round-trips    *)
(* and any payload that MAX_ECHO_BYTES admits.                             *)
(***************************************************************************)
EXTENDS QuicEcho, TLAPS

\* What read_to_end takes: every request there can be.
LEMMA RequestsAreAccepted ==
  ASSUME TypeOK, NEW c \in Connections, NEW k \in Streams
  PROVE  Accepts(sent[c][k])
<1>1. sent[c][k] \in {-1, 0, Size}
  BY DEF TypeOK
<1>. QED
  BY <1>1, EchoAssumption DEF Accepts

LEMMA InitIInv == Init => IInv
<1>. SUFFICES ASSUME Init PROVE IInv
  OBVIOUS
<1>1. TypeOK
  BY EchoAssumption DEF Init, TypeOK, Per
<1>2. ASSUME NEW c \in Connections, NEW k \in Streams
      PROVE  EchoInv(c, k)
  BY <1>2 DEF Init, Per, EchoInv
<1>. QED
  BY <1>1, <1>2 DEF IInv

-----------------------------------------------------------------------------
(* Actions that leave the streams alone: connections come and go, and one  *)
(* that is gone does not come back.                                        *)

LEMMA ConnectionStep ==
  ASSUME IInv, TypeOK', UNCHANGED <<round, call, task, dataVars>>,
         \A d \in Connections : alive'[d] => alive[d]
  PROVE  IInv'
<1>. SUFFICES ASSUME NEW d \in Connections, NEW j \in Streams
              PROVE  EchoInv(d, j)'
  BY DEF IInv
<1>1. EchoInv(d, j)
  BY DEF IInv
<1>. QED
  BY <1>1 DEF EchoInv, dataVars

\* An action on stream k of c keeps what holds of the other streams.
LEMMA StreamStep ==
  ASSUME IInv, TypeOK', UNCHANGED <<round, alive>>,
         NEW c \in Connections, NEW k \in Streams, EchoInv(c, k)',
         \A d \in Connections : \A j \in Streams : d # c \/ j # k =>
           /\ call'[d][j] = call[d][j] /\ task'[d][j] = task[d][j]
           /\ sent'[d][j] = sent[d][j] /\ echoed'[d][j] = echoed[d][j]
  PROVE  IInv'
<1>. SUFFICES ASSUME NEW d \in Connections, NEW j \in Streams
              PROVE  EchoInv(d, j)'
  BY DEF IInv
<1>1. CASE d = c /\ j = k
  BY <1>1
<1>2. CASE d # c \/ j # k
  <2>1. EchoInv(d, j)
    BY DEF IInv
  <2>. QED
    BY <1>2, <2>1 DEF EchoInv
<1>. QED
  BY <1>1, <1>2

-----------------------------------------------------------------------------
(* The steps of a connection.                                              *)

LEMMA ConnectionsKeepIInv ==
  ASSUME IInv, NEW c \in Connections,
         \/ Dial(c) \/ Connected(c) \/ DialFails(c) \/ Close(c)
         \/ Accept(c) \/ Establish(c) \/ LeaveConnection(c)
         \/ DropDial(c) \/ Lose(c) \/ Shutdown \/ StopAccepting
  PROVE  IInv'
<1>. USE DEF clientVars, serverVars, dataVars
<1>1. /\ UNCHANGED <<round, call, task, dataVars>>
      /\ client' = client \/ \E s \in {"idle", "dialing", "open", "closed"} :
                               client' = [client EXCEPT ![c] = s]
      /\ server' = server \/ \E s \in {"none", "queued", "handshaking", "serving", "done"} :
                               server' = [server EXCEPT ![c] = s]
      /\ endpoint' \in {"open", "closed"} /\ loop' \in {"running", "ended"}
  BY DEF IInv, TypeOK, Dial, Connected, DialFails, DropDial, EndDial, Close, Accept,
         Establish, LeaveConnection, Lose, Shutdown, StopAccepting
<1>2. \/ alive' = alive
      \/ alive' = [alive EXCEPT ![c] = FALSE]
      \/ alive' = [d \in Connections |-> alive[d] /\ server[d] = "none"]
  BY DEF Dial, Connected, DialFails, DropDial, EndDial, Close, Accept,
         Establish, LeaveConnection, Lose, Shutdown, StopAccepting
<1>3. alive' \in [Connections -> BOOLEAN]
  BY <1>2 DEF IInv, TypeOK
<1>4. \A d \in Connections : alive'[d] => alive[d]
  BY <1>2 DEF IInv, TypeOK
<1>5. TypeOK'
  <2>1. client' \in [Connections -> {"idle", "dialing", "open", "closed"}]
    BY <1>1 DEF IInv, TypeOK
  <2>2. server' \in [Connections -> {"none", "queued", "handshaking", "serving", "done"}]
    BY <1>1 DEF IInv, TypeOK
  <2>. QED
    BY <1>1, <1>3, <2>1, <2>2 DEF IInv, TypeOK
<1>. QED
  BY <1>1, <1>4, <1>5, ConnectionStep

LEMMA OpenStreamKeepsIInv ==
  ASSUME IInv, NEW c \in Connections, OpenStream(c)
  PROVE  IInv'
<1>. DEFINE k == round[c] + 1
<1>. USE DEF clientVars, serverVars, dataVars
<1>1. /\ k \in Streams /\ k <= Requests[c]
      /\ round' = [round EXCEPT ![c] = k] /\ call' = [call EXCEPT ![c][k] = "writing"]
      /\ UNCHANGED <<endpoint, alive, client, serverVars, dataVars>>
  <2>1. round[c] \in 0..MaxRequests /\ Requests[c] \in 1..MaxRequests
    BY EchoAssumption DEF IInv, TypeOK
  <2>. QED
    BY <2>1, EchoAssumption DEF OpenStream, Streams
<1>2. TypeOK'
  BY <1>1, EchoAssumption DEF IInv, TypeOK, Streams
<1>3. ASSUME NEW d \in Connections, NEW j \in Streams
      PROVE  EchoInv(d, j)'
  <2>1. EchoInv(d, j)
    BY DEF IInv
  <2>2. CASE d = c /\ j = k
    <3>1. call[c][k] = "none"
      BY <2>1, <2>2, <1>1 DEF EchoInv, IInv, TypeOK
    <3>2. call'[c][k] = "writing" /\ round'[c] = k
      BY <1>1 DEF IInv, TypeOK
    <3>. QED
      BY <1>1, <2>1, <2>2, <3>1, <3>2 DEF EchoInv, IInv, TypeOK, Streams
  <2>3. CASE d = c /\ j # k
    <3>1. call'[d][j] = call[d][j] /\ round'[d] = round[d] + 1
      BY <1>1, <2>3 DEF IInv, TypeOK
    <3>. QED
      BY <1>1, <2>1, <2>3, <3>1 DEF EchoInv, IInv, TypeOK, Streams
  <2>4. CASE d # c
    <3>1. call'[d][j] = call[d][j] /\ round'[d] = round[d]
      BY <1>1, <2>4 DEF IInv, TypeOK
    <3>. QED
      BY <1>1, <2>1, <3>1 DEF EchoInv
  <2>. QED
    BY <2>2, <2>3, <2>4
<1>. QED
  BY <1>2, <1>3 DEF IInv

-----------------------------------------------------------------------------
(* The steps of a stream, at the client and at the server.                 *)

\* What EchoInv says of the stream in the state before.
LEMMA StreamBefore ==
  ASSUME IInv, NEW c \in Connections, NEW k \in Streams
  PROVE  /\ TypeOK /\ EchoInv(c, k)
         /\ call[c][k] \in {"none", "writing", "reading", "ok", "failed", "dropped"}
         /\ task[c][k] \in {"none", "reading", "writing", "stopping", "ended"}
         /\ sent[c][k] \in {-1, 0, Size} /\ echoed[c][k] \in {-1, 0, Size}
         /\ Size \in Nat \ {0}
BY EchoAssumption DEF IInv, TypeOK

LEMMA SendRequestKeepsIInv ==
  ASSUME IInv, NEW c \in Connections, NEW k \in Streams, SendRequest(c, k)
  PROVE  IInv'
<1>1. /\ call' = [call EXCEPT ![c][k] = "reading"] /\ sent' = [sent EXCEPT ![c][k] = Size]
      /\ UNCHANGED <<endpoint, alive, client, round, loop, server, task, echoed>>
  BY DEF SendRequest, clientVars, serverVars, dataVars
<1>2. TypeOK'
  BY <1>1, StreamBefore DEF TypeOK
<1>3. call'[c][k] = "reading" /\ sent'[c][k] = Size
  BY <1>1, StreamBefore DEF TypeOK
<1>4. EchoInv(c, k)'
  BY <1>1, <1>3, StreamBefore DEF EchoInv, SendRequest
<1>5. \A d \in Connections : \A j \in Streams : d # c \/ j # k =>
        /\ call'[d][j] = call[d][j] /\ task'[d][j] = task[d][j]
        /\ sent'[d][j] = sent[d][j] /\ echoed'[d][j] = echoed[d][j]
  BY <1>1, StreamBefore DEF TypeOK
<1>. QED
  BY <1>1, <1>2, <1>4, <1>5, StreamStep

\* The echo is as long as the request, so the client takes it.
LEMMA ReceiveEchoKeepsIInv ==
  ASSUME IInv, NEW c \in Connections, NEW k \in Streams, ReceiveEcho(c, k)
  PROVE  IInv'
<1>1. /\ call' = [call EXCEPT ![c][k] = "ok"]
      /\ UNCHANGED <<endpoint, alive, client, round, loop, server, task, sent, echoed>>
  <2>1. echoed[c][k] = Size
    BY StreamBefore DEF ReceiveEcho, EchoInv
  <2>. QED
    BY <2>1, EchoAssumption DEF ReceiveEcho, clientVars, serverVars, dataVars
<1>2. TypeOK'
  BY <1>1, StreamBefore DEF TypeOK
<1>3. call'[c][k] = "ok"
  BY <1>1, StreamBefore DEF TypeOK
<1>4. EchoInv(c, k)'
  BY <1>1, <1>3, StreamBefore DEF EchoInv, ReceiveEcho
<1>5. \A d \in Connections : \A j \in Streams : d # c \/ j # k =>
        /\ call'[d][j] = call[d][j] /\ task'[d][j] = task[d][j]
        /\ sent'[d][j] = sent[d][j] /\ echoed'[d][j] = echoed[d][j]
  BY <1>1, StreamBefore DEF TypeOK
<1>. QED
  BY <1>1, <1>2, <1>4, <1>5, StreamStep

LEMMA RoundTripFailsKeepsIInv ==
  ASSUME IInv, NEW c \in Connections, NEW k \in Streams, RoundTripFails(c, k)
  PROVE  IInv'
<1>1. /\ call' = [call EXCEPT ![c][k] = "failed"]
      /\ UNCHANGED <<endpoint, alive, client, round, loop, server, task, sent, echoed>>
  BY DEF RoundTripFails, clientVars, serverVars, dataVars
<1>2. TypeOK'
  BY <1>1, StreamBefore DEF TypeOK
<1>3. call'[c][k] = "failed"
  BY <1>1, StreamBefore DEF TypeOK
<1>4. EchoInv(c, k)'
  BY <1>1, <1>3, StreamBefore DEF EchoInv, RoundTripFails, InFlight
<1>5. \A d \in Connections : \A j \in Streams : d # c \/ j # k =>
        /\ call'[d][j] = call[d][j] /\ task'[d][j] = task[d][j]
        /\ sent'[d][j] = sent[d][j] /\ echoed'[d][j] = echoed[d][j]
  BY <1>1, StreamBefore DEF TypeOK
<1>. QED
  BY <1>1, <1>2, <1>4, <1>5, StreamStep

LEMMA DropRoundTripKeepsIInv ==
  ASSUME IInv, NEW c \in Connections, NEW k \in Streams, DropRoundTrip(c, k)
  PROVE  IInv'
<1>1. /\ call' = [call EXCEPT ![c][k] = "dropped"]
      /\ sent' = [sent EXCEPT ![c][k] = IF @ = -1 THEN 0 ELSE @]
      /\ UNCHANGED <<endpoint, alive, client, round, loop, server, task, echoed>>
  BY DEF DropRoundTrip, clientVars, serverVars, dataVars
<1>2. TypeOK'
  BY <1>1, StreamBefore DEF TypeOK
<1>3. call'[c][k] = "dropped" /\ sent'[c][k] # -1 /\ (sent[c][k] # -1 => sent'[c][k] = sent[c][k])
  BY <1>1, StreamBefore DEF TypeOK
<1>4. EchoInv(c, k)'
  BY <1>1, <1>3, StreamBefore DEF EchoInv, DropRoundTrip, InFlight
<1>5. \A d \in Connections : \A j \in Streams : d # c \/ j # k =>
        /\ call'[d][j] = call[d][j] /\ task'[d][j] = task[d][j]
        /\ sent'[d][j] = sent[d][j] /\ echoed'[d][j] = echoed[d][j]
  BY <1>1, StreamBefore DEF TypeOK
<1>. QED
  BY <1>1, <1>2, <1>4, <1>5, StreamStep

LEMMA AcceptStreamKeepsIInv ==
  ASSUME IInv, NEW c \in Connections, NEW k \in Streams, AcceptStream(c, k)
  PROVE  IInv'
<1>1. /\ task' = [task EXCEPT ![c][k] = "reading"]
      /\ UNCHANGED <<endpoint, alive, client, round, call, loop, server, sent, echoed>>
  BY DEF AcceptStream, clientVars, serverVars, dataVars
<1>2. TypeOK'
  BY <1>1, StreamBefore DEF TypeOK
<1>3. task'[c][k] = "reading"
  BY <1>1, StreamBefore DEF TypeOK
<1>4. EchoInv(c, k)'
  BY <1>1, <1>3, StreamBefore DEF EchoInv, AcceptStream
<1>5. \A d \in Connections : \A j \in Streams : d # c \/ j # k =>
        /\ call'[d][j] = call[d][j] /\ task'[d][j] = task[d][j]
        /\ sent'[d][j] = sent[d][j] /\ echoed'[d][j] = echoed[d][j]
  BY <1>1, StreamBefore DEF TypeOK
<1>. QED
  BY <1>1, <1>2, <1>4, <1>5, StreamStep

\* The request is not too long.
LEMMA ReadRequestKeepsIInv ==
  ASSUME IInv, NEW c \in Connections, NEW k \in Streams, ReadRequest(c, k)
  PROVE  IInv'
<1>1. /\ task' = [task EXCEPT ![c][k] = "writing"]
      /\ UNCHANGED <<endpoint, alive, client, round, call, loop, server, sent, echoed>>
  <2>1. Accepts(sent[c][k])
    BY StreamBefore, RequestsAreAccepted
  <2>. QED
    BY <2>1 DEF ReadRequest, clientVars, serverVars, dataVars
<1>2. TypeOK'
  BY <1>1, StreamBefore DEF TypeOK
<1>3. task'[c][k] = "writing"
  BY <1>1, StreamBefore DEF TypeOK
<1>4. EchoInv(c, k)'
  BY <1>1, <1>3, StreamBefore DEF EchoInv, ReadRequest
<1>5. \A d \in Connections : \A j \in Streams : d # c \/ j # k =>
        /\ call'[d][j] = call[d][j] /\ task'[d][j] = task[d][j]
        /\ sent'[d][j] = sent[d][j] /\ echoed'[d][j] = echoed[d][j]
  BY <1>1, StreamBefore DEF TypeOK
<1>. QED
  BY <1>1, <1>2, <1>4, <1>5, StreamStep

LEMMA WriteEchoKeepsIInv ==
  ASSUME IInv, NEW c \in Connections, NEW k \in Streams, WriteEcho(c, k)
  PROVE  IInv'
<1>1. /\ task' = [task EXCEPT ![c][k] = "stopping"]
      /\ echoed' = [echoed EXCEPT ![c][k] = sent[c][k]]
      /\ UNCHANGED <<endpoint, alive, client, round, call, loop, server, sent>>
  BY DEF WriteEcho, clientVars, serverVars, dataVars
<1>2. TypeOK'
  BY <1>1, StreamBefore DEF TypeOK
<1>3. task'[c][k] = "stopping" /\ echoed'[c][k] = sent[c][k]
  BY <1>1, StreamBefore DEF TypeOK
<1>4. EchoInv(c, k)'
  BY <1>1, <1>3, StreamBefore DEF EchoInv, WriteEcho
<1>5. \A d \in Connections : \A j \in Streams : d # c \/ j # k =>
        /\ call'[d][j] = call[d][j] /\ task'[d][j] = task[d][j]
        /\ sent'[d][j] = sent[d][j] /\ echoed'[d][j] = echoed[d][j]
  BY <1>1, StreamBefore DEF TypeOK
<1>. QED
  BY <1>1, <1>2, <1>4, <1>5, StreamStep

LEMMA EchoTakenKeepsIInv ==
  ASSUME IInv, NEW c \in Connections, NEW k \in Streams, EchoTaken(c, k)
  PROVE  IInv'
<1>1. /\ task' = [task EXCEPT ![c][k] = "ended"]
      /\ UNCHANGED <<endpoint, alive, client, round, call, loop, server, sent, echoed>>
  BY DEF EchoTaken, clientVars, serverVars, dataVars
<1>2. TypeOK'
  BY <1>1, StreamBefore DEF TypeOK
<1>3. task'[c][k] = "ended"
  BY <1>1, StreamBefore DEF TypeOK
<1>4. EchoInv(c, k)'
  BY <1>1, <1>3, StreamBefore DEF EchoInv, EchoTaken
<1>5. \A d \in Connections : \A j \in Streams : d # c \/ j # k =>
        /\ call'[d][j] = call[d][j] /\ task'[d][j] = task[d][j]
        /\ sent'[d][j] = sent[d][j] /\ echoed'[d][j] = echoed[d][j]
  BY <1>1, StreamBefore DEF TypeOK
<1>. QED
  BY <1>1, <1>2, <1>4, <1>5, StreamStep

LEMMA LeaveStreamKeepsIInv ==
  ASSUME IInv, NEW c \in Connections, NEW k \in Streams, LeaveStream(c, k)
  PROVE  IInv'
<1>1. /\ task' = [task EXCEPT ![c][k] = "ended"]
      /\ UNCHANGED <<endpoint, alive, client, round, call, loop, server, sent, echoed>>
  BY DEF LeaveStream, clientVars, serverVars, dataVars
<1>2. TypeOK'
  BY <1>1, StreamBefore DEF TypeOK
<1>3. task'[c][k] = "ended"
  BY <1>1, StreamBefore DEF TypeOK
<1>4. EchoInv(c, k)'
  BY <1>1, <1>3, StreamBefore DEF EchoInv, LeaveStream
<1>5. \A d \in Connections : \A j \in Streams : d # c \/ j # k =>
        /\ call'[d][j] = call[d][j] /\ task'[d][j] = task[d][j]
        /\ sent'[d][j] = sent[d][j] /\ echoed'[d][j] = echoed[d][j]
  BY <1>1, StreamBefore DEF TypeOK
<1>. QED
  BY <1>1, <1>2, <1>4, <1>5, StreamStep

-----------------------------------------------------------------------------
(* The theorems.                                                           *)

LEMMA NextIInv == IInv /\ [Next]_vars => IInv'
<1>. SUFFICES ASSUME IInv, [Next]_vars PROVE IInv'
  OBVIOUS
<1>1. CASE Shutdown \/ StopAccepting
  <2>1. CASE \E c \in Connections : TRUE
    BY <1>1, <2>1, ConnectionsKeepIInv
  <2>2. CASE Connections = {}
    BY <1>1, <2>2 DEF IInv, TypeOK, Shutdown, StopAccepting, clientVars, serverVars, dataVars
  <2>. QED
    BY <2>1, <2>2
<1>2. ASSUME NEW c \in Connections, Dial(c) \/ Connected(c) \/ ClientStep(c)
      PROVE  IInv'
  BY <1>2, ConnectionsKeepIInv, OpenStreamKeepsIInv, SendRequestKeepsIInv,
     ReceiveEchoKeepsIInv, RoundTripFailsKeepsIInv DEF ClientStep
<1>3. ASSUME NEW c \in Connections, Disturbance(c)
      PROVE  IInv'
  BY <1>3, ConnectionsKeepIInv, DropRoundTripKeepsIInv DEF Disturbance
<1>4. ASSUME NEW c \in Connections, ConnectionTask(c)
      PROVE  IInv'
  BY <1>4, ConnectionsKeepIInv, AcceptStreamKeepsIInv DEF ConnectionTask
<1>5. ASSUME NEW c \in Connections, NEW k \in Streams, StreamTask(c, k)
      PROVE  IInv'
  BY <1>5, ReadRequestKeepsIInv, WriteEchoKeepsIInv, EchoTakenKeepsIInv,
     LeaveStreamKeepsIInv DEF StreamTask
<1>6. CASE UNCHANGED vars
  BY <1>6 DEF IInv, TypeOK, EchoInv, vars, clientVars, serverVars, dataVars
<1>. QED
  BY <1>1, <1>2, <1>3, <1>4, <1>5, <1>6 DEF Next

\* The inductive invariant: types, and how far the two ends of a stream may be
\* apart.
THEOREM Invariance == Spec => []IInv
BY InitIInv, NextIInv, PTL DEF Spec

\* A round-trip that is counted made the whole way (quic.rs:117-139, 210-221).
THEOREM OkIsEchoed == Spec => []OkMeansEchoed
<1>1. IInv => OkMeansEchoed
  <2>. SUFFICES ASSUME IInv, NEW c \in Connections, NEW k \in Streams, call[c][k] = "ok"
                PROVE  /\ task[c][k] \in {"stopping", "ended"}
                       /\ sent[c][k] = Size /\ echoed[c][k] = Size
    BY DEF OkMeansEchoed
  <2>. QED
    BY StreamBefore DEF EchoInv
<1>. QED
  BY <1>1, Invariance, PTL

\* No payload that PayloadSize admits is too long for the other side.
THEOREM LimitsAgree == Spec => []OnlyALostConnectionFails
<1>1. IInv => OnlyALostConnectionFails
  BY DEF IInv, EchoInv, OnlyALostConnectionFails
<1>. QED
  BY <1>1, Invariance, PTL
=============================================================================
