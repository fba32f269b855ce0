----------------------- MODULE Http2Connection_proof -----------------------
(***************************************************************************)
(* Proofs about Http2Connection for any set of streams and any windows.    *)
(***************************************************************************)
EXTENDS Http2Connection, TLAPS

(* The flow-control state is touched by DATA alone.                        *)
LEMMA OnlyDataMovesCredit ==
    ASSUME Next
    PROVE  \/ UNCHANGED inbound
           \/ \E s \in Streams, n \in Sizes : DataReceived(s, n)
BY DEF Next, ClientStep, AppStep, RequestReceived, HandleWebsocketConnect,
       HandleUpgradeStream1, Start, StreamEnded, StreamReset, WindowUpdated,
       SettingsReceived, Raises,
       ConnectionTerminated, ReceiveDataFails, ConnectionLost, SendStart,
       SendBody, SendTrailers, SendFails, Finish, RaiseError,
       RaiseErrorStream1, SendFrame, CloseStream

(* What makes UploadsNeverStall inductive: credit that is held back never  *)
(* amounts to half of the window.                                          *)
CreditInv ==
    /\ inConn \in Nat /\ inProc \in Nat /\ late \in Nat
    /\ CreditConserved
    /\ inProc = 0 \/ 2 * inProc < InWindow

LEMMA HalfWindow ==
    \A p \in Nat : p < InWindow \div 2 => 2 * p < InWindow
BY ConnectionAssumption

(* h2 hands back exactly what was acknowledged and not yet handed back.    *)
LEMMA AcknowledgeKeepsCredit ==
    ASSUME CreditInv, NEW n \in Nat, n <= inConn, Acknowledge(n)
    PROVE  /\ inConn' \in Nat /\ inProc' \in Nat
           /\ inConn' + inProc' = inConn + inProc
           /\ inProc' = 0 \/ 2 * inProc' < InWindow
<1> DEFINE window == inConn - n
           processed == inProc + n
<1>1. /\ window \in Nat /\ processed \in Nat /\ InWindow \in Nat
      /\ window + processed = inConn + inProc
      /\ processed <= InWindow - window
  BY ConnectionAssumption DEF CreditInv, CreditConserved
<1>2. CASE CreditIsDue(window, processed)
  <2>1. inConn' = window + Least(processed, InWindow - window) /\ inProc' = 0
    BY <1>2 DEF Acknowledge
  <2>2. Least(processed, InWindow - window) = processed
    BY <1>1 DEF Least
  <2> QED BY <1>1, <2>1, <2>2
<1>3. CASE ~CreditIsDue(window, processed)
  <2>1. inConn' = window /\ inProc' = processed
    BY <1>3 DEF Acknowledge
  <2>2. processed = 0 \/ processed < InWindow \div 2
    BY <1>1, <1>3, ConnectionAssumption DEF CreditIsDue
  <2>3. processed = 0 \/ 2 * processed < InWindow
    BY <1>1, <2>2, HalfWindow
  <2> QED BY <1>1, <2>1, <2>3
<1> QED BY <1>2, <1>3

LEMMA CreditInvInit == Init => CreditInv
BY ConnectionAssumption DEF Init, CreditInv, CreditConserved

LEMMA CreditInvStep ==
    ASSUME CreditInv, [Next]_vars
    PROVE  CreditInv'
<1>1. CASE UNCHANGED inbound \/ UNCHANGED vars
  BY <1>1 DEF CreditInv, CreditConserved, inbound, vars
<1>2. ASSUME NEW s \in Streams, NEW n \in Sizes, DataReceived(s, n)
      PROVE  CreditInv'
  <2>1. n \in Nat /\ n <= inConn
    BY <1>2, ConnectionAssumption DEF DataReceived
  <2>2. CASE s \in registered
    <3>1. Acknowledge(n) /\ late' = late
      BY <1>2, <2>2 DEF DataReceived
    <3>2. /\ inConn' \in Nat /\ inProc' \in Nat
          /\ inConn' + inProc' = inConn + inProc
          /\ inProc' = 0 \/ 2 * inProc' < InWindow
      BY <2>1, <3>1, AcknowledgeKeepsCredit
    <3> QED BY <3>1, <3>2 DEF CreditInv, CreditConserved
  <2>3. CASE s \notin registered
    <3>1. inConn' = inConn - n /\ inProc' = inProc /\ late' = late + n
      BY <1>2, <2>3 DEF DataReceived
    <3> QED BY <2>1, <3>1 DEF CreditInv, CreditConserved
  <2> QED BY <2>2, <2>3
<1> QED BY <1>1, <1>2, OnlyDataMovesCredit

LEMMA CreditInvariant == Spec => []CreditInv
BY CreditInvInit, CreditInvStep, PTL DEF Spec

(* For any window: credit is lost only to data that arrived after its      *)
(* stream had left stream_states.                                          *)
THEOREM CreditIsConserved == Spec => []CreditConserved
<1>1. CreditInv => CreditConserved
  BY DEF CreditInv
<1> QED BY <1>1, CreditInvariant, PTL

(* For any window: until such data arrives, the client may always send     *)
(* more than half of the window.                                           *)
THEOREM UploadsAreNeverStalled == Spec => []UploadsNeverStall
<1>1. CreditInv => UploadsNeverStall
  BY ConnectionAssumption DEF CreditInv, CreditConserved, UploadsNeverStall
<1> QED BY <1>1, CreditInvariant, PTL

-----------------------------------------------------------------------------
(* The functions that a step changes at one stream.                        *)
Typed ==
    /\ registered \subseteq Streams
    /\ kind \in [Streams -> {"none", "request", "websocket", "upgrade"}]
    /\ recv \in [Streams -> {"idle", "open", "ended", "reset"}]
    /\ task \in [Streams -> {"none", "running", "done"}]
    /\ h2 \in {"up", "terminated", "broken"}

RegistryInv == Typed /\ RegistryExact

LEMMA RegistryInvInit == Init => RegistryInv
BY DEF Init, RegistryInv, Typed, RegistryExact

(* Steps that leave the registry, the client's halves, the tasks and h2    *)
(* alone.                                                                  *)
LEMMA RegistryUntouched ==
    ASSUME RegistryInv, UNCHANGED <<registered, kind, recv, task, h2>>
    PROVE  RegistryInv'
BY DEF RegistryInv, Typed, RegistryExact, WebSockets

LEMMA RegistryClientStep ==
    ASSUME RegistryInv, NEW s \in Streams, ClientStep(s)
    PROVE  RegistryInv'
<1>1. CASE \/ RequestReceived(s) \/ HandleWebsocketConnect(s)
           \/ HandleUpgradeStream1(s)
  <2>1. PICK k \in {"request", "websocket", "upgrade"} : Start(s, k)
    BY <1>1 DEF RequestReceived, HandleWebsocketConnect, HandleUpgradeStream1
  <2>2. h2 = "up"
    BY <1>1
       DEF RequestReceived, HandleWebsocketConnect, HandleUpgradeStream1, Reading
  <2> QED
    BY <2>1, <2>2 DEF RegistryInv, Typed, RegistryExact, Start, WebSockets
<1>2. ASSUME NEW n \in Sizes, DataReceived(s, n) PROVE RegistryInv'
  BY <1>2, RegistryUntouched DEF DataReceived, streams
<1>3. CASE StreamEnded(s)
  BY <1>3 DEF RegistryInv, Typed, RegistryExact, StreamEnded, Reading, WebSockets
<1>4. CASE StreamReset(s)
  BY <1>4 DEF RegistryInv, Typed, RegistryExact, StreamReset, Reading, WebSockets
<1> QED BY <1>1, <1>2, <1>3, <1>4 DEF ClientStep

LEMMA RegistryAppStep ==
    ASSUME RegistryInv, NEW s \in Streams, AppStep(s)
    PROVE  RegistryInv'
<1>1. CASE SendStart(s) \/ SendTrailers(s) \/ SendFails(s)
  BY <1>1, RegistryUntouched DEF SendStart, SendTrailers, SendFails
<1>2. ASSUME NEW n \in Sizes, NEW more \in BOOLEAN,
             SendBody(s, n, more) \/ SendFrame(s, n)
      PROVE  RegistryInv'
  BY <1>2, RegistryUntouched DEF SendBody, SendFrame, streams
<1>3. CASE Finish(s) \/ RaiseError(s) \/ RaiseErrorStream1(s)
  <2>1. /\ UNCHANGED <<kind, recv, h2>>
        /\ registered' = registered \ {s}
        /\ task' = [task EXCEPT ![s] = "done"]
    BY <1>3 DEF Finish, RaiseError, RaiseErrorStream1, Raises
  <2> QED BY <2>1 DEF RegistryInv, Typed, RegistryExact, WebSockets
<1>4. CASE CloseStream(s)
  <2>1. /\ UNCHANGED <<kind, recv, h2>> /\ s \in WebSockets
        /\ task' = [task EXCEPT ![s] = "done"]
        /\ \/ registered' = registered \ {s}
           \/ registered' = registered /\ ~CanSend(s)
    BY <1>4 DEF CloseStream
  <2>2. CASE registered' = registered \ {s}
    BY <2>1, <2>2 DEF RegistryInv, Typed, RegistryExact, WebSockets
  <2>3. CASE registered' = registered /\ ~CanSend(s)
    <3>1. s \in registered => h2 = "broken"
      BY <2>3 DEF RegistryInv, Typed, RegistryExact, CanSend
    <3> QED BY <2>1, <2>3, <3>1 DEF RegistryInv, Typed, RegistryExact, WebSockets
  <2> QED BY <2>1, <2>2, <2>3
<1> QED BY <1>1, <1>2, <1>3, <1>4 DEF AppStep

LEMMA RegistryInvStep ==
    ASSUME RegistryInv, [Next]_vars
    PROVE  RegistryInv'
<1>1. CASE \E s \in Streams : ClientStep(s) \/ AppStep(s)
  BY <1>1, RegistryClientStep, RegistryAppStep
<1>2. CASE \/ WindowUpdated \/ SettingsReceived \/ ConnectionLost
           \/ UNCHANGED vars
  BY <1>2, RegistryUntouched
     DEF WindowUpdated, SettingsReceived, ConnectionLost, vars, streams
<1>3. CASE ConnectionTerminated
  BY <1>3 DEF ConnectionTerminated, RegistryInv, Typed, RegistryExact, WebSockets
<1>4. CASE ReceiveDataFails
  BY <1>4
     DEF ReceiveDataFails, Reading, streams, RegistryInv, Typed, RegistryExact, WebSockets
<1> QED BY <1>1, <1>2, <1>3, <1>4 DEF Next

(* For any number of streams: stream_states holds the requests being       *)
(* worked on that the client has not given up, and nothing else.           *)
THEOREM RegistryIsExact == Spec => []RegistryExact
<1>1. RegistryInv => RegistryExact
  BY DEF RegistryInv
<1> QED BY <1>1, RegistryInvInit, RegistryInvStep, PTL DEF Spec

-----------------------------------------------------------------------------
(* What TypeOK says of the streams and of the windows toward the client;   *)
(* the inbound window is in CreditInv.                                     *)
StreamTypes ==
    /\ transport \in {"open", "closing", "lost"}
    /\ h2 \in {"up", "terminated", "broken"}
    /\ registered \subseteq Streams
    /\ kind \in [Streams -> {"none", "request", "websocket", "upgrade"}]
    /\ recv \in [Streams -> {"idle", "open", "ended", "reset"}]
    /\ send \in [Streams -> {"none", "unsent", "headers", "ended"}]
    /\ task \in [Streams -> {"none", "running", "done"}]
    /\ senderEnded \in [Streams -> BOOLEAN]
    /\ sized \subseteq Streams /\ refused \subseteq Streams
    /\ raised \subseteq Streams

OutTypes ==
    /\ outConn \in 0..OutWindow
    /\ outStream \in [Streams -> 0..OutWindow]
    /\ written \in [Streams -> 0..MaxBody]

LEMMA ConsumeTyped ==
    ASSUME OutTypes, NEW s \in Streams, NEW n \in Sizes, Fits(s, n),
           written[s] + n <= MaxBody, Consume(s, n)
    PROVE  OutTypes'
<1>1. /\ n \in Nat /\ outConn \in Nat /\ outStream[s] \in Nat /\ written[s] \in Nat
      /\ OutWindow \in Nat /\ MaxBody \in Nat
  BY ConnectionAssumption DEF OutTypes
<1>2. outConn - n \in 0..OutWindow /\ outStream[s] - n \in 0..OutWindow
      /\ written[s] + n \in 0..MaxBody
  BY <1>1 DEF Fits, OutTypes
<1> QED
  BY <1>2 DEF Consume, OutTypes

LEMMA StreamTypesStep == StreamTypes /\ [Next]_vars => StreamTypes'
<1> SUFFICES ASSUME StreamTypes, [Next]_vars PROVE StreamTypes'
  OBVIOUS
<1> USE DEF streams, history, StreamTypes
<1>1. ASSUME NEW s \in Streams, ClientStep(s) PROVE StreamTypes'
  <2>1. CASE \/ RequestReceived(s) \/ HandleWebsocketConnect(s)
             \/ HandleUpgradeStream1(s)
    BY <2>1 DEF RequestReceived, HandleWebsocketConnect, HandleUpgradeStream1, Start
  <2>2. CASE \/ \E n \in Sizes : DataReceived(s, n)
             \/ StreamEnded(s) \/ StreamReset(s)
    BY <2>2 DEF DataReceived, StreamEnded, StreamReset
  <2> QED
    BY <1>1, <2>1, <2>2 DEF ClientStep
<1>2. ASSUME NEW s \in Streams, NEW n \in Sizes, NEW more \in BOOLEAN,
             SendBody(s, n, more) \/ SendFrame(s, n)
      PROVE  StreamTypes'
  BY <1>2 DEF SendBody, SendFrame
<1>3. ASSUME NEW s \in Streams,
             \/ SendStart(s) \/ SendTrailers(s) \/ SendFails(s)
             \/ Finish(s) \/ RaiseError(s) \/ RaiseErrorStream1(s) \/ CloseStream(s)
      PROVE  StreamTypes'
  <2>1. CASE SendStart(s) \/ SendTrailers(s) \/ SendFails(s)
    BY <2>1 DEF SendStart, SendTrailers, SendFails
  <2>2. CASE Finish(s) \/ RaiseError(s) \/ CloseStream(s)
    BY <2>2 DEF Finish, RaiseError, Raises, CloseStream
  <2>3. CASE RaiseErrorStream1(s)
    BY <2>3 DEF RaiseErrorStream1, Raises
  <2> QED
    BY <1>3, <2>1, <2>2, <2>3
<1>4. CASE \/ WindowUpdated \/ SettingsReceived \/ ConnectionTerminated \/ ReceiveDataFails
           \/ ConnectionLost \/ UNCHANGED vars
  BY <1>4 DEF WindowUpdated, SettingsReceived, ConnectionTerminated, ReceiveDataFails, ConnectionLost, vars
<1> QED
  BY <1>1, <1>2, <1>3, <1>4 DEF Next, AppStep

LEMMA OutTypesStep == OutTypes /\ [Next]_vars => OutTypes'
<1> SUFFICES ASSUME OutTypes, [Next]_vars PROVE OutTypes'
  OBVIOUS
<1> USE DEF streams, inbound, outbound
<1>1. ASSUME UNCHANGED outbound PROVE OutTypes'
  BY <1>1 DEF OutTypes
<1>2. ASSUME NEW s \in Streams, ClientStep(s) PROVE OutTypes'
  <2>1. UNCHANGED outbound
    BY <1>2 DEF ClientStep, RequestReceived, HandleWebsocketConnect, HandleUpgradeStream1,
                Start, DataReceived, StreamEnded, StreamReset
  <2> QED
    BY <1>1, <2>1
<1>3. ASSUME NEW s \in Streams, NEW n \in Sizes, NEW more \in BOOLEAN,
             SendBody(s, n, more) \/ SendFrame(s, n)
      PROVE  OutTypes'
  BY <1>3, ConsumeTyped DEF SendBody, SendFrame
<1>4. ASSUME NEW s \in Streams,
             \/ SendStart(s) \/ SendTrailers(s) \/ SendFails(s)
             \/ Finish(s) \/ RaiseError(s) \/ RaiseErrorStream1(s) \/ CloseStream(s)
      PROVE  OutTypes'
  <2>1. UNCHANGED outbound
    BY <1>4 DEF SendStart, SendTrailers, SendFails, Finish, RaiseError, RaiseErrorStream1,
                Raises, CloseStream
  <2> QED
    BY <1>1, <2>1
<1>5. CASE WindowUpdated
  BY <1>5, ConnectionAssumption DEF WindowUpdated, OutTypes
<1>6. CASE \/ SettingsReceived \/ ConnectionTerminated \/ ReceiveDataFails
           \/ ConnectionLost \/ UNCHANGED vars
  BY <1>1, <1>6 DEF SettingsReceived, ConnectionTerminated, ReceiveDataFails, ConnectionLost, vars
<1> QED
  BY <1>2, <1>3, <1>4, <1>5, <1>6 DEF Next, AppStep

(* A window never runs below zero, whatever is sent and refused, nor is    *)
(* more sent than an application has (Sender, receive_data).               *)
THEOREM TypeCorrect == Spec => []TypeOK
<1>1. Init => StreamTypes /\ OutTypes
  BY ConnectionAssumption DEF Init, StreamTypes, OutTypes
<1>2. StreamTypes /\ OutTypes /\ CreditInv => TypeOK
  BY ConnectionAssumption DEF StreamTypes, OutTypes, CreditInv, CreditConserved, TypeOK
<1> QED
  BY <1>1, <1>2, StreamTypesStep, OutTypesStep, CreditInvariant, PTL DEF Spec

-----------------------------------------------------------------------------
(* The answers.  An ordinary stream's half only moves forward, a stream on *)
(* which nothing can be sent stays one, and no history is rewritten.       *)
Forward(s) ==
    /\ ~CanSend(s) => ~CanSend(s)'
    /\ send[s] \in {"headers", "ended"} => send'[s] \in {"headers", "ended"}
    /\ s \in refused => s \in refused'

LEMMA MovesForward ==
    ASSUME StreamTypes, [Next]_vars, NEW r \in Streams, kind'[r] # "websocket"
    PROVE  Forward(r)
<1> USE DEF streams, history, StreamTypes, Forward, CanSend, WebSockets
<1>1. ASSUME NEW s \in Streams, ClientStep(s) PROVE Forward(r)
  BY <1>1 DEF ClientStep, RequestReceived, HandleWebsocketConnect, HandleUpgradeStream1,
              DataReceived, StreamEnded, StreamReset, Start, Reading
<1>2. ASSUME NEW s \in Streams, NEW n \in Sizes, NEW more \in BOOLEAN,
             SendBody(s, n, more) \/ SendFrame(s, n)
      PROVE  Forward(r)
  BY <1>2 DEF SendBody, SendFrame
<1>3. ASSUME NEW s \in Streams,
             \/ SendStart(s) \/ SendTrailers(s) \/ SendFails(s)
             \/ Finish(s) \/ RaiseError(s) \/ RaiseErrorStream1(s) \/ CloseStream(s)
      PROVE  Forward(r)
  BY <1>3 DEF SendStart, SendTrailers, SendFails, Finish, RaiseError, RaiseErrorStream1,
              Raises, CloseStream
<1>4. CASE \/ WindowUpdated \/ SettingsReceived \/ ConnectionTerminated
           \/ ReceiveDataFails \/ ConnectionLost \/ UNCHANGED vars
  BY <1>4 DEF WindowUpdated, SettingsReceived, ConnectionTerminated, ReceiveDataFails,
              ConnectionLost, vars, Reading
<1> QED
  BY <1>1, <1>2, <1>3, <1>4 DEF Next, AppStep

(* What makes UpgradeAnswered inductive: a Sender has ended only after a   *)
(* start, a refusal, or where there is nobody to answer, the application   *)
(* of the upgraded request does not end without it, h2 counts a start as   *)
(* sent that was not only where it refused it, and a stream without a      *)
(* request is untouched.                                                   *)
Begun(s) == send[s] \in {"headers", "ended"} \/ s \in refused \/ ~CanSend(s)

Over(s) == senderEnded[s] \/ (kind[s] = "upgrade" /\ task[s] = "done")

Fresh(s) == recv[s] = "idle" /\ task[s] = "none" /\ ~senderEnded[s]

AnswerInv ==
    \A s \in Streams :
        /\ kind[s] # "websocket" /\ Over(s) => Begun(s)
        /\ send[s] = "unsent" => s \in refused
        /\ kind[s] = "none" => Fresh(s)
        /\ kind[s] # "none" => recv[s] # "idle"

(* The last three conjuncts, and that the kind of a stream is settled.     *)
LEMMA KindIsSettled ==
    ASSUME StreamTypes, AnswerInv, [Next]_vars, NEW r \in Streams
    PROVE  /\ send'[r] = "unsent" => r \in refused'
           /\ kind'[r] = "none" => Fresh(r)'
           /\ kind'[r] # "none" => recv'[r] # "idle"
           /\ kind[r] # "none" => kind'[r] = kind[r]
<1> DEFINE Goal == /\ send'[r] = "unsent" => r \in refused'
                   /\ kind'[r] = "none" => Fresh(r)'
                   /\ kind'[r] # "none" => recv'[r] # "idle"
                   /\ kind[r] # "none" => kind'[r] = kind[r]
<1> USE DEF streams, history, StreamTypes, AnswerInv, Fresh, WebSockets, Upgraded
<1>1. ASSUME NEW s \in Streams, ClientStep(s) PROVE Goal
  <2>1. CASE \E k \in {"request", "websocket", "upgrade"} : Start(s, k)
    <3>1. send'[r] = send[r] \/ send'[r] = "headers"
      BY <1>1, <2>1 DEF ClientStep, RequestReceived, HandleWebsocketConnect,
                        HandleUpgradeStream1, DataReceived, StreamEnded, StreamReset
    <3> QED
      BY <2>1, <3>1 DEF Start
  <2>2. ASSUME NEW n \in Sizes, DataReceived(s, n) PROVE Goal
    BY <2>2 DEF DataReceived
  <2>3. CASE StreamEnded(s) \/ StreamReset(s)
    BY <2>3 DEF StreamEnded, StreamReset
  <2> QED
    BY <1>1, <2>1, <2>2, <2>3
    DEF ClientStep, RequestReceived, HandleWebsocketConnect, HandleUpgradeStream1
<1>2. ASSUME NEW s \in Streams, NEW n \in Sizes, NEW more \in BOOLEAN,
             SendBody(s, n, more) \/ SendFrame(s, n)
      PROVE  Goal
  BY <1>2 DEF SendBody, SendFrame, Responding
<1>3. ASSUME NEW s \in Streams,
             \/ SendStart(s) \/ SendTrailers(s) \/ SendFails(s)
             \/ Finish(s) \/ RaiseError(s) \/ RaiseErrorStream1(s) \/ CloseStream(s)
      PROVE  Goal
  BY <1>3 DEF SendStart, SendTrailers, SendFails, Finish, RaiseError, RaiseErrorStream1,
              Raises, CloseStream, Responding
<1>4. CASE \/ WindowUpdated \/ SettingsReceived \/ ConnectionTerminated
           \/ ReceiveDataFails \/ ConnectionLost \/ UNCHANGED vars
  BY <1>4 DEF WindowUpdated, SettingsReceived, ConnectionTerminated, ReceiveDataFails,
              ConnectionLost, vars
<1> QED
  BY <1>1, <1>2, <1>3, <1>4 DEF Next, AppStep

(* A Sender or an upgraded request that is over from this step on.         *)
LEMMA EndsJustified ==
    ASSUME StreamTypes, AnswerInv, [Next]_vars, NEW r \in Streams,
           kind'[r] # "websocket", ~Over(r), Over(r)'
    PROVE  Begun(r)'
<1>1. /\ kind[r] # "none" => kind'[r] = kind[r]
      /\ kind'[r] # "none"
  BY KindIsSettled DEF Fresh, Over
<1> USE <1>1 DEF streams, history, StreamTypes, Over
<1>2. ASSUME NEW s \in Streams, ClientStep(s) PROVE FALSE
  BY <1>2 DEF ClientStep, RequestReceived, HandleWebsocketConnect, HandleUpgradeStream1,
              DataReceived, StreamEnded, StreamReset, Start, AnswerInv, Fresh
<1>3. ASSUME NEW s \in Streams, NEW n \in Sizes, NEW more \in BOOLEAN,
             SendBody(s, n, more) \/ SendFrame(s, n)
      PROVE  Begun(r)'
  BY <1>3 DEF SendBody, SendFrame, Begun
<1>4. ASSUME NEW s \in Streams, SendStart(s) \/ CloseStream(s)
      PROVE  FALSE
  BY <1>4 DEF SendStart, CloseStream, WebSockets
<1>5. ASSUME NEW s \in Streams, Finish(s) \/ RaiseError(s) PROVE FALSE
  BY <1>5 DEF Finish, RaiseError, Raises, Responding, Upgraded
<1>6. ASSUME NEW s \in Streams, SendTrailers(s) \/ SendFails(s) PROVE Begun(r)'
  BY <1>6 DEF SendTrailers, SendFails, Begun, CanSend
<1>7. ASSUME NEW s \in Streams, RaiseErrorStream1(s) PROVE Begun(r)'
  <2>1. s = r
    BY <1>7 DEF RaiseErrorStream1, Raises
  <2>2. send[r] = "unsent" => r \in refused
    BY DEF AnswerInv
  <2>3. h2' = h2 /\ recv' = recv
    BY <1>7 DEF RaiseErrorStream1, Raises
  <2> QED
    BY <1>7, <2>1, <2>2, <2>3 DEF RaiseErrorStream1, Begun, CanSend
<1>8. ASSUME \/ WindowUpdated \/ SettingsReceived \/ ConnectionTerminated
             \/ ReceiveDataFails \/ ConnectionLost \/ UNCHANGED vars
      PROVE  FALSE
  BY <1>8 DEF WindowUpdated, SettingsReceived, ConnectionTerminated, ReceiveDataFails,
              ConnectionLost, vars
<1> QED
  BY <1>2, <1>3, <1>4, <1>5, <1>6, <1>7, <1>8 DEF Next, AppStep

LEMMA AnswerInvStep == StreamTypes /\ AnswerInv /\ [Next]_vars => AnswerInv'
<1> SUFFICES ASSUME StreamTypes, AnswerInv, [Next]_vars, NEW r \in Streams,
                    kind'[r] # "websocket", Over(r)'
             PROVE  Begun(r)'
  BY KindIsSettled DEF AnswerInv
<1>1. CASE Over(r)
  <2>1. kind[r] # "websocket" /\ Begun(r)
    BY <1>1, KindIsSettled DEF AnswerInv, Over, Fresh
  <2> QED
    BY <2>1, MovesForward DEF Forward, Begun
<1>2. CASE ~Over(r)
  BY <1>2, EndsJustified
<1> QED
  BY <1>1, <1>2

(* For any set of streams: the request that was upgraded gets an answer    *)
(* even from an application that raises, however the other streams and the *)
(* client interfere, unless the client has given it up or h2 refused it.   *)
THEOREM UpgradeIsAnswered == Spec => []UpgradeAnswered
<1>1. Init => StreamTypes /\ AnswerInv
  BY ConnectionAssumption DEF Init, StreamTypes, AnswerInv, Over, Fresh
<1>2. AnswerInv => UpgradeAnswered
  BY DEF AnswerInv, UpgradeAnswered, Upgraded, Over, Begun
<1> QED
  BY <1>1, <1>2, StreamTypesStep, AnswerInvStep, PTL DEF Spec

=============================================================================
