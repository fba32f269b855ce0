-------------------------- MODULE Http2Connection --------------------------
(***************************************************************************)
(* One HTTP/2 connection (asgiri/proto/http2.py): the registry             *)
(* stream_states, the tasks that run the application, the flow-control     *)
(* windows of both directions, and the ways a stream or the connection     *)
(* ends.  The order of a request's messages is Http2Body's subject; here a *)
(* request body is only an amount of data.                                 *)
(*                                                                         *)
(* Every action is one uninterrupted stretch of the event loop: a          *)
(* transport callback, or what an application's task does between two      *)
(* suspensions.  h2 is library code, modelled from how http2.py uses it.   *)
(***************************************************************************)
EXTENDS Naturals, FiniteSets, Functions

CONSTANTS
    Streams,     \* the streams the client opens
    Stream1,     \* the one that an h2c upgrade creates
    InWindow,    \* h2's inbound window of the connection (65535)
    OutWindow,   \* the outbound windows the client's SETTINGS grant
    FrameSize,   \* the largest frame the client accepts (16384)
    Sizes,       \* sizes of a DATA frame or of a chunk of a response
    MaxBody      \* bound: data of a response

ASSUME ConnectionAssumption ==
    /\ Stream1 \in Streams
    /\ InWindow \in Nat \ {0} /\ OutWindow \in Nat /\ FrameSize \in Nat
    /\ Sizes \subseteq Nat
    /\ MaxBody \in Nat

VARIABLES
    transport,    \* "open", "closing" (after close()) or "lost"
    h2,           \* h2's connection: "up", "terminated" (GOAWAY received)
                  \*   or "broken" (it raised in receive_data)
    registered,   \* the keys of stream_states
    kind,         \* what the client's request on each stream is
    recv,         \* the client's half of each stream
    send,         \* the server's half, as h2 has it; "unsent" where it
                  \*   counts the start as sent and wrote nothing
    task,         \* the task that runs the application for the stream
    senderEnded,  \* Sender.ended
    sized,        \* the streams whose frames h2 knows the largest size of
    refused,      \* history: streams on which h2 refused what the client
                  \*   was there to receive
    raised,       \* history: streams whose application raised
    inConn,       \* what the client may still send on the connection
    inProc,       \* acknowledged to h2 and not yet in a WINDOW_UPDATE
    late,         \* history: data nobody acknowledged
    outConn,      \* h2's outbound window of the connection
    outStream,    \* and of each stream
    written       \* data of the response

inbound == <<inConn, inProc, late>>
outbound == <<outConn, outStream, written>>
history == <<refused, raised>>
streams == <<registered, kind, recv, send, task, senderEnded, sized, history>>
vars == <<transport, h2, streams, inbound, outbound>>

TypeOK ==
    /\ transport \in {"open", "closing", "lost"}
    /\ h2 \in {"up", "terminated", "broken"}
    /\ registered \subseteq Streams
    /\ kind \in [Streams -> {"none", "request", "websocket", "upgrade"}]
    /\ recv \in [Streams -> {"idle", "open", "ended", "reset"}]
    /\ send \in [Streams -> {"none", "unsent", "headers", "ended"}]
    /\ task \in [Streams -> {"none", "running", "done"}]
    /\ senderEnded \in [Streams -> BOOLEAN]
    /\ sized \subseteq Streams /\ refused \subseteq Streams
    /\ raised \subseteq Streams
    /\ inConn \in 0..InWindow
    /\ inProc \in 0..InWindow
    /\ late \in 0..InWindow
    /\ outConn \in 0..OutWindow
    /\ outStream \in [Streams -> 0..OutWindow]
    /\ written \in [Streams -> 0..MaxBody]

Init ==
    /\ transport = "open"
    /\ h2 = "up"
    /\ registered = {}
    /\ kind = [s \in Streams |-> "none"]
    /\ recv = [s \in Streams |-> "idle"]
    /\ send = [s \in Streams |-> "none"]
    /\ task = [s \in Streams |-> "none"]
    /\ senderEnded = [s \in Streams |-> FALSE]
    /\ sized = {} /\ refused = {} /\ raised = {}
    /\ inConn = InWindow
    /\ inProc = 0
    /\ late = 0
    /\ outConn = OutWindow
    /\ outStream = [s \in Streams |-> OutWindow]
    /\ written = [s \in Streams |-> 0]

-----------------------------------------------------------------------------
(* h2.                                                                     *)

(* h2's window manager: credit for acknowledged data goes back to the      *)
(* client once it amounts to half of the window, or to a quarter (at most  *)
(* 1024) when the window is exhausted.                                     *)
Least(a, b) == IF a < b THEN a ELSE b

CreditIsDue(window, processed) ==
    /\ processed > 0
    /\ \/ window = 0 /\ processed > Least(1024, InWindow \div 4)
       \/ processed >= InWindow \div 2

Acknowledge(n) ==
    LET window == inConn - n
        processed == inProc + n
    IN  IF CreditIsDue(window, processed)
        THEN /\ inConn' = window + Least(processed, InWindow - window)
             /\ inProc' = 0
        ELSE /\ inConn' = window
             /\ inProc' = processed

(* h2 lets the server send on a stream until the client has reset it or    *)
(* the connection is closed; data must fit into both windows and a frame.  *)
(* Headers are cut into frames of the size the stream was given, which     *)
(* raises on a stream that was given none (not in sized).                  *)
CanSend(s) == h2 = "up" /\ recv[s] # "reset"

Fits(s, n) == n <= outConn /\ n <= outStream[s] /\ n <= FrameSize

Consume(s, n) ==
    /\ outConn' = outConn - n
    /\ outStream' = [outStream EXCEPT ![s] = @ - n]
    /\ written' = [written EXCEPT ![s] = @ + n]

-----------------------------------------------------------------------------
(* data_received: the events h2 makes of the client's frames.              *)

Reading == transport = "open" /\ h2 = "up"

WebSockets == {s \in Streams : kind[s] = "websocket"}
Upgraded == {s \in Streams : kind[s] = "upgrade"}

Start(s, k) ==
    /\ recv[s] = "idle"
    /\ kind' = [kind EXCEPT ![s] = k]
    /\ recv' = [recv EXCEPT ![s] = "open"]
    /\ registered' = registered \cup {s}
    /\ task' = [task EXCEPT ![s] = "running"]
    /\ UNCHANGED <<transport, h2, senderEnded, history, inbound, outbound>>

(* HEADERS of an ordinary request.                                         *)
RequestReceived(s) ==
    /\ Reading
    /\ Start(s, "request")
    /\ sized' = sized \cup {s}
    /\ UNCHANGED send

(* HEADERS of a WebSocket CONNECT: the 200 goes out at once.               *)
HandleWebsocketConnect(s) ==
    /\ Reading
    /\ Start(s, "websocket")
    /\ sized' = sized \cup {s}
    /\ send' = [send EXCEPT ![s] = "headers"]

(* The HTTP/1.1 request that asked for the upgrade, before anything else.  *)
(* Its H2Stream is made by hand: only headers were received on it, so the  *)
(* client's half is open, and nobody told it the size of a frame.          *)
HandleUpgradeStream1(s) ==
    /\ Reading
    /\ s = Stream1
    /\ \A r \in Streams : recv[r] = "idle"
    /\ Start(s, "upgrade")
    /\ UNCHANGED <<send, sized>>

(* Mutant: only the body of a request is acknowledged.                     *)
DataNotAcknowledged(s, n) ==
    /\ Reading
    /\ recv[s] = "open" /\ n <= inConn
    /\ IF s \in registered \ WebSockets
       THEN Acknowledge(n)
       ELSE inConn' = inConn - n /\ inProc' = inProc
    /\ late' = IF s \in registered THEN late ELSE late + n
    /\ UNCHANGED <<transport, h2, streams, outbound>>

(* DATA: acknowledged at once, and handed to the request's queue or the    *)
(* WebSocket handler, while the stream is in stream_states; ignored        *)
(* otherwise.                                                              *)
DataReceived(s, n) ==
    /\ Reading
    /\ recv[s] = "open" /\ n <= inConn
    /\ IF s \in registered
       THEN Acknowledge(n) /\ late' = late
       ELSE inConn' = inConn - n /\ inProc' = inProc /\ late' = late + n
    /\ UNCHANGED <<transport, h2, streams, outbound>>

(* END_STREAM: a message for the request's queue, nothing for a WebSocket. *)
StreamEnded(s) ==
    /\ Reading
    /\ recv[s] = "open"
    /\ recv' = [recv EXCEPT ![s] = "ended"]
    /\ UNCHANGED <<transport, h2, registered, kind, send, task, senderEnded,
                   sized, history, inbound, outbound>>

(* RST_STREAM: the stream is forgotten; its task is not told.              *)
StreamReset(s) ==
    /\ Reading
    /\ recv[s] \in {"open", "ended"}
    /\ ~(recv[s] = "ended" /\ send[s] = "ended")
    /\ recv' = [recv EXCEPT ![s] = "reset"]
    /\ registered' = registered \ {s}
    /\ UNCHANGED <<transport, h2, kind, send, task, senderEnded, sized, history,
                   inbound, outbound>>

(* WINDOW_UPDATE: the client gives back what it has read.  "No action      *)
(* needed": whatever could not be sent before is not sent now.             *)
WindowUpdated ==
    /\ Reading
    /\ \/ /\ outConn < OutWindow
          /\ outConn' = OutWindow
          /\ UNCHANGED outStream
       \/ \E s \in Streams :
          /\ outStream[s] < OutWindow
          /\ outStream' = [outStream EXCEPT ![s] = OutWindow]
          /\ UNCHANGED outConn
    /\ UNCHANGED <<transport, h2, streams, inbound, written>>

(* SETTINGS with a MAX_FRAME_SIZE: h2 tells it to every stream there is.   *)
SettingsReceived ==
    /\ Reading
    /\ sized' = sized \cup {s \in Streams : recv[s] # "idle"}
    /\ sized' # sized
    /\ UNCHANGED <<transport, h2, registered, kind, recv, send, task, senderEnded,
                   history, inbound, outbound>>

(* GOAWAY: every stream is forgotten and the transport closed.             *)
ConnectionTerminated ==
    /\ Reading
    /\ h2' = "terminated"
    /\ registered' = {}
    /\ transport' = "closing"
    /\ UNCHANGED <<kind, recv, send, task, senderEnded, sized, history,
                   inbound, outbound>>

(* h2 raises: the error is logged and nothing is written, so the client    *)
(* hears nothing; from here on h2 refuses everything.                      *)
ReceiveDataFails ==
    /\ Reading
    /\ h2' = "broken"
    /\ UNCHANGED <<transport, streams, inbound, outbound>>

ConnectionLost ==
    /\ transport # "lost"
    /\ transport' = "lost"
    /\ UNCHANGED <<h2, streams, inbound, outbound>>

-----------------------------------------------------------------------------
(* _handle_request: an application that sends a start, bodies, and a last  *)
(* body or trailers.  Its Sender keeps the transport it was made with, so  *)
(* a lost connection is not noticed.                                       *)

Responding(s) ==
    s \notin WebSockets /\ task[s] = "running" /\ ~senderEnded[s]

SendStart(s) ==
    /\ Responding(s) /\ send[s] = "none" /\ CanSend(s) /\ s \in sized
    /\ send' = [send EXCEPT ![s] = "headers"]
    /\ UNCHANGED <<transport, h2, registered, kind, recv, task, senderEnded,
                   sized, history, inbound, outbound>>

(* Mutant: end_stream=more_body.                                           *)
SendBodySwapped(s, n, more) ==
    /\ Responding(s) /\ send[s] = "headers" /\ CanSend(s) /\ Fits(s, n)
    /\ written[s] + n <= MaxBody
    /\ Consume(s, n)
    /\ send' = [send EXCEPT ![s] = IF more THEN "ended" ELSE @]
    /\ senderEnded' = [senderEnded EXCEPT ![s] = ~more]
    /\ UNCHANGED <<transport, h2, registered, kind, recv, task, sized, history,
                   inbound>>

SendBody(s, n, more) ==
    /\ Responding(s) /\ send[s] = "headers" /\ CanSend(s) /\ Fits(s, n)
    /\ written[s] + n <= MaxBody
    /\ Consume(s, n)
    /\ send' = [send EXCEPT ![s] = IF more THEN @ ELSE "ended"]
    /\ senderEnded' = [senderEnded EXCEPT ![s] = ~more]
    /\ UNCHANGED <<transport, h2, registered, kind, recv, task, sized, history,
                   inbound>>

SendTrailers(s) ==
    /\ Responding(s) /\ send[s] = "headers" /\ CanSend(s)
    /\ send' = [send EXCEPT ![s] = "ended"]
    /\ senderEnded' = [senderEnded EXCEPT ![s] = TRUE]
    /\ UNCHANGED <<transport, h2, registered, kind, recv, task, sized, history,
                   inbound, outbound>>

(* h2 raises: nothing is written, the Sender is ended, the error goes to   *)
(* the application.  The client is gone, or the data is more than it gave  *)
(* credit for, or the stream has no frame size; then h2 has counted the    *)
(* start as sent when it raises.                                           *)
SendFails(s) ==
    /\ Responding(s)
    /\ \/ /\ ~CanSend(s)
          /\ UNCHANGED <<send, refused>>
       \/ /\ CanSend(s) /\ send[s] = "headers"
          /\ \E n \in Sizes : written[s] + n <= MaxBody /\ ~Fits(s, n)
          /\ refused' = refused \cup {s}
          /\ UNCHANGED send
       \/ /\ CanSend(s) /\ send[s] = "none" /\ s \notin sized
          /\ refused' = refused \cup {s}
          /\ send' = [send EXCEPT ![s] = "unsent"]
    /\ senderEnded' = [senderEnded EXCEPT ![s] = TRUE]
    /\ UNCHANGED <<transport, h2, registered, kind, recv, task, sized, raised,
                   inbound, outbound>>

(* Mutant: the stream is not popped when the application is done.          *)
FinishForgets(s) ==
    /\ s \notin WebSockets /\ task[s] = "running" /\ senderEnded[s]
    /\ task' = [task EXCEPT ![s] = "done"]
    /\ UNCHANGED <<transport, h2, registered, kind, recv, send, senderEnded,
                   sized, history, inbound, outbound>>

(* The application returns, or passes on the error of a failed send.       *)
Finish(s) ==
    /\ s \notin WebSockets /\ task[s] = "running" /\ senderEnded[s]
    /\ task' = [task EXCEPT ![s] = "done"]
    /\ registered' = registered \ {s}
    /\ UNCHANGED <<transport, h2, kind, recv, send, senderEnded, sized, history,
                   inbound, outbound>>

(* It raises before its response is complete.                              *)
Raises(s) ==
    /\ Responding(s)
    /\ raised' = raised \cup {s}
    /\ task' = [task EXCEPT ![s] = "done"]
    /\ registered' = registered \ {s}
    /\ UNCHANGED <<transport, h2, kind, recv, sized, inbound, outbound>>

(* On an ordinary stream that is logged, and nothing is sent.              *)
RaiseError(s) ==
    /\ s \notin Upgraded
    /\ Raises(s)
    /\ UNCHANGED <<send, senderEnded, refused>>

(* Mutant: an error on stream 1 is only logged.                            *)
RaiseErrorSilently(s) ==
    /\ s \in Upgraded
    /\ Raises(s)
    /\ UNCHANGED <<send, senderEnded, refused>>

(* On stream 1 of an upgrade a 500 is tried.  It fails like any start      *)
(* while the stream has no frame size, and after a start, for h2 refuses a *)
(* second one.                                                             *)
RaiseErrorStream1(s) ==
    LET tries == send[s] = "none" /\ CanSend(s)
    IN  /\ s \in Upgraded
        /\ Raises(s)
        /\ send' = [send EXCEPT ![s] =
                      CASE tries /\ s \in sized -> "ended"
                        [] tries /\ s \notin sized -> "unsent"
                        [] OTHER -> @]
        /\ refused' = IF tries /\ s \notin sized
                      THEN refused \cup {s} ELSE refused
        /\ senderEnded' = [senderEnded EXCEPT ![s] = TRUE]

-----------------------------------------------------------------------------
(* The callbacks of a WebSocket's handler.                                 *)

SendFrame(s, n) ==
    /\ s \in WebSockets /\ task[s] = "running"
    /\ transport = "open" /\ CanSend(s) /\ Fits(s, n)
    /\ written[s] + n <= MaxBody
    /\ Consume(s, n)
    /\ UNCHANGED <<transport, h2, streams, inbound>>

(* close_stream, which the handler calls once: end_stream raises on a      *)
(* stream or connection h2 has given up, and then the pop is not reached.  *)
CloseStream(s) ==
    /\ s \in WebSockets /\ task[s] = "running"
    /\ task' = [task EXCEPT ![s] = "done"]
    /\ \/ /\ transport = "open" /\ CanSend(s)
          /\ send' = [send EXCEPT ![s] = "ended"]
          /\ registered' = registered \ {s}
       \/ /\ transport = "open" /\ ~CanSend(s)
          /\ UNCHANGED <<send, registered>>
       \/ /\ transport # "open"
          /\ registered' = registered \ {s}
          /\ UNCHANGED send
    /\ UNCHANGED <<transport, h2, kind, recv, senderEnded, sized, history,
                   inbound, outbound>>

-----------------------------------------------------------------------------
ClientStep(s) ==
    \/ RequestReceived(s) \/ HandleWebsocketConnect(s)
    \/ HandleUpgradeStream1(s)
    \/ \E n \in Sizes : DataReceived(s, n)
    \/ StreamEnded(s) \/ StreamReset(s)

AppStep(s) ==
    \/ SendStart(s) \/ SendTrailers(s) \/ SendFails(s)
    \/ \E n \in Sizes, more \in BOOLEAN : SendBody(s, n, more)
    \/ Finish(s) \/ RaiseError(s) \/ RaiseErrorStream1(s)
    \/ \E n \in Sizes : SendFrame(s, n)
    \/ CloseStream(s)

Next ==
    \/ \E s \in Streams : ClientStep(s) \/ AppStep(s)
    \/ WindowUpdated \/ SettingsReceived
    \/ ConnectionTerminated \/ ReceiveDataFails \/ ConnectionLost

Spec == Init /\ [][Next]_vars

(* Every application gets on with its response and returns.                *)
Respond(s) ==
    \/ SendStart(s) \/ SendFails(s) \/ Finish(s)
    \/ \E n \in Sizes : SendBody(s, n, FALSE)

FairSpec == Spec /\ \A s \in Streams : WF_vars(Respond(s))

-----------------------------------------------------------------------------
(* Properties.                                                             *)

(* A stream is in stream_states exactly while its request is being worked  *)
(* on and neither RST_STREAM nor GOAWAY came.  (A WebSocket that closes    *)
(* after h2 broke stays in it.)                                            *)
RegistryExact ==
    \A s \in Streams :
        /\ s \in registered =>
              /\ recv[s] # "reset" /\ h2 # "terminated"
              /\ \/ task[s] = "running"
                 \/ s \in WebSockets /\ h2 = "broken"
        /\ task[s] = "running" /\ recv[s] # "reset" /\ h2 # "terminated"
              => s \in registered

(* No credit of the connection's window is lost but for data that came     *)
(* after its stream had left stream_states.                                *)
CreditConserved == inConn + inProc + late = InWindow

(* ... and until that happens the client always has more than half of the  *)
(* window: an upload is never stalled by the server.                       *)
UploadsNeverStall == late = 0 => 2 * inConn > InWindow

(* An upgraded request whose application is done got an answer, if only a  *)
(* 500 or its beginning, unless nobody was left to answer or h2 refused    *)
(* even the start.                                                         *)
UpgradeAnswered ==
    \A s \in Upgraded :
        task[s] = "done" =>
            send[s] \in {"headers", "ended"} \/ s \in refused \/ ~CanSend(s)

(* What docs/PROTOCOL_SWITCHING.md promises of it: "Properly handles       *)
(* stream 1 as the upgraded request".  An application that does not raise  *)
(* answers whoever is there to read it.                                    *)
UpgradeHandled ==
    \A s \in Upgraded :
        task[s] = "done" /\ s \notin raised
            => send[s] \in {"headers", "ended"} \/ ~CanSend(s)

(* A request of a connection that stays up is answered to the end, however *)
(* the other streams' applications fail, clients reset them and credit     *)
(* runs out, unless its own application raised or h2 refused one of its    *)
(* sends.                                                                  *)
Answered(s) == send[s] = "ended" \/ ~CanSend(s)

EventuallyAnswered ==
    \A s \in Streams :
        task[s] = "running" /\ s \notin WebSockets
            ~> Answered(s) \/ s \in refused \cup raised

=============================================================================
