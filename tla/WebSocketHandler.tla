--------------------------- MODULE WebSocketHandler ---------------------------
(***************************************************************************)
(* One WebSocket: WebSocketHandler (asgiri/proto/websocket_handler.py, on  *)
(* a stream of HTTP/2 or HTTP/3) and WebSocketHTTP11Handler                *)
(* (asgiri/proto/websocket_http11.py).  The two classes are the same but   *)
(* for the handshake, which is over before the former starts and which the *)
(* latter completes when the application accepts, and for what their       *)
(* callbacks do: the stream's may raise, the connection's drops what it    *)
(* cannot write.                                                           *)
(*                                                                         *)
(* Each received frame is handled by a task of its own.  These tasks never *)
(* suspend and the event loop runs them in the order of their creation:    *)
(* `ready` is its queue.  The application's task and the sender's suspend, *)
(* and take turns with everything else.                                    *)
(***************************************************************************)
EXTENDS Naturals, Sequences, SequencesExt

CONSTANT
    Settings     \* which handler, with or without heartbeat, its timing, and
                 \*   the bounds on what client and application send

ASSUME HandlerAssumption ==
    Settings \subseteq [over : {"http11", "extended"}, pings : BOOLEAN,
                       interval : Nat \ {0}, timeout : Nat,
                       frames : Nat, sends : Nat]

(* Kinds of frames: a whole message, its first, a middle and its last      *)
(* fragment, and control frames.                                           *)
Data == {"text", "first", "cont", "last"}
Kinds == Data \cup {"ping", "pong", "close"}
Frames == {<<>>} \cup {<<k>> : k \in Kinds}

(* What applications send: the last is a send without bytes and text.      *)
Messages == {"accept", "send", "close", "empty"}

VARIABLES
    setting,   \* the element of Settings
    channel,   \* "open"; "shut" by this side; "gone" with the connection;
               \*   "failing": the stream was reset, or its window is used up
    ready,     \* tasks the event loop has yet to run
    handle,    \* the task of handle(): "new", "running", "done"
    app,       \* the application's task
    sender,    \* the sender's: "new", "starting", "waiting" or "done"
    events,    \* history: all that was put into _receive_queue, of which
               \*   the application has received a prefix
    outbox,    \* _send_queue
    sends,     \* how much the application has put into it
    accepted, closed,
    partial,   \* _message_buffer (_message_type is None when it is empty)
    jammed,    \* the parser's buffer holds what it rejects
    sent,      \* frames the client has sent
    wire,      \* history: the kinds of those that carry data
    out,       \* history: the frames written to the client
    loop, pingIn, watchdog, orphans, heard, expired, silence

Heartbeat == INSTANCE WebSocketHeartbeat
                WITH timing <- setting, Timings <- Settings

link == <<channel, out>>
queues == <<events, outbox, sends>>
client == <<jammed, sent, wire>>
tasks == <<handle, app, sender>>
flags == <<accepted, closed>>
beat == <<loop, pingIn, watchdog, orphans, heard, expired, silence>>
vars == <<setting, link, ready, tasks, queues, flags, partial, client, beat>>

Connect == <<"connect", <<>>>>
Receive(parts) == <<"receive", parts>>
Disconnect == <<"disconnect", <<>>>>

Init ==
    /\ setting \in Settings
    /\ channel = "open"
    /\ ready = <<<<"handle", 0>>>>
    /\ handle = "new" /\ app = "new" /\ sender = "new"
    /\ events = <<>>
    /\ outbox = <<>> /\ sends = 0
    /\ accepted = FALSE /\ closed = FALSE
    /\ partial = <<>>
    /\ jammed = FALSE /\ sent = 0 /\ wire = <<>>
    /\ out = <<>>
    /\ Heartbeat!Init

-----------------------------------------------------------------------------
(* The callbacks send_frame (send_data) and close_stream                   *)
(* (close_connection).                                                     *)

Raises == setting.over = "extended" /\ channel \in {"failing", "shut"}

(* Mutant: a closing transport is written to.                              *)
WriteAlways(frame) == out' = Append(out, frame)

(* A run of pings is recorded as one.                                      *)
Write(frame) ==
    out' = IF \/ channel # "open"
              \/ frame = <<"ping", 0>> /\ out # <<>> /\ Last(out) = frame
           THEN out
           ELSE Append(out, frame)

Shut == channel' = IF channel = "open" THEN "shut" ELSE channel

(* Mutant: the event is put for an echo as well.                           *)
CloseTwice(echo, put) ==
    IF closed
    THEN events' = events \o put /\ UNCHANGED <<closed, link>>
    ELSE /\ closed' = TRUE
         /\ Write(<<"close", 0>>)
         /\ Shut
         /\ events' = events \o put \o <<Disconnect>>

(* _close; `put` is what the caller has put into the queue before.         *)
Close(echo, put) ==
    IF closed
    THEN events' = events \o put /\ UNCHANGED <<closed, link>>
    ELSE /\ closed' = TRUE
         /\ Write(<<"close", 0>>)
         /\ Shut
         /\ events' = events \o put \o (IF echo THEN <<>> ELSE <<Disconnect>>)

-----------------------------------------------------------------------------
(* The tasks in `ready`.                                                   *)

Next1(task) ==
    /\ ready # <<>> /\ Head(ready)[1] = task
    /\ ready' = Tail(ready)

(* handle, up to its gather.  (With ping_interval None, start does nothing.)*)
Handle ==
    /\ Next1("handle")
    /\ events' = Append(events, Connect)
    /\ handle' = "running" /\ app' = "running" /\ sender' = "starting"
    /\ IF setting.pings THEN Heartbeat!Start ELSE UNCHANGED beat
    /\ UNCHANGED <<setting, link, outbox, sends, flags, partial, client>>

(* _handle_frame.  The number of a frame with data stands for its payload. *)
HandleFrame(kind) ==
    /\ Next1(kind)
    /\ UNCHANGED <<setting, tasks, outbox, sends, accepted, client, beat>>

Number == Head(ready)[2]

HandleMessage ==
    /\ HandleFrame("text") /\ ~closed
    /\ events' = Append(events, Receive(<<Number>>))
    /\ UNCHANGED <<link, closed, partial>>

HandleFirst ==
    /\ HandleFrame("first") /\ ~closed
    /\ partial' = <<Number>>
    /\ UNCHANGED <<link, closed, events>>

HandleMiddle ==
    /\ HandleFrame("cont") /\ ~closed /\ partial # <<>>
    /\ partial' = Append(partial, Number)
    /\ UNCHANGED <<link, closed, events>>

(* Mutant: the message is joined before its last fragment is added.        *)
HandleLastMissing ==
    /\ HandleFrame("last") /\ ~closed /\ partial # <<>>
    /\ events' = Append(events, Receive(partial))
    /\ partial' = <<>>
    /\ UNCHANGED <<link, closed>>

HandleLast ==
    /\ HandleFrame("last") /\ ~closed /\ partial # <<>>
    /\ events' = Append(events, Receive(Append(partial, Number)))
    /\ partial' = <<>>
    /\ UNCHANGED <<link, closed>>

HandleClose ==
    /\ HandleFrame("close") /\ ~closed
    /\ Close(TRUE, <<Disconnect>>)
    /\ UNCHANGED partial

HandlePing ==
    /\ HandleFrame("ping") /\ ~closed
    /\ Write(<<"pong", 0>>)
    /\ UNCHANGED <<channel, events, closed, partial>>

(* Pongs, continuations of nothing (the error is logged), and whatever     *)
(* comes after the close.                                                  *)
HandleNothing ==
    /\ \E kind \in Kinds :
          /\ HandleFrame(kind)
          /\ \/ closed
             \/ kind = "pong"
             \/ kind \in {"cont", "last"} /\ partial = <<>>
    /\ UNCHANGED <<link, events, closed, partial>>

(* The tasks of a parser's error and of the heartbeat's watchdog.          *)
CloseTask ==
    /\ Next1("protocol error") \/ Next1("ping timeout")
    /\ Close(FALSE, <<>>)
    /\ UNCHANGED <<setting, tasks, outbox, sends, accepted, partial, client,
                   beat>>

LoopStep ==
    \/ Handle
    \/ HandleMessage \/ HandleFirst \/ HandleMiddle \/ HandleLast
    \/ HandleClose \/ HandlePing \/ HandleNothing
    \/ CloseTask

-----------------------------------------------------------------------------
(* data_received, and what else happens to the channel.                    *)

(* The bytes complete a frame or none, and may end in some the parser      *)
(* rejects.  Those stay in its buffer: the frame before them is dropped,   *)
(* and every later call is an error again.  (More frames are more calls    *)
(* without a step of the loop in between.  Once the WebSocket is closed,   *)
(* bytes are ignored.)                                                     *)
DataReceived(frames, bad) ==
    /\ channel \in {"open", "failing"} /\ ~closed
    /\ jammed => frames # <<>>
    /\ sent + Len(frames) <= setting.frames
    /\ sent' = sent + Len(frames)
    /\ jammed' = (jammed \/ bad)
    /\ wire' = IF frames \in {<<k>> : k \in Data} THEN wire \o frames ELSE wire
    /\ ready' = ready \o
         IF jammed' THEN <<<<"protocol error", 0>>>>
         ELSE [i \in DOMAIN frames |-> <<frames[i], Len(wire')>>]
    /\ Heartbeat!RecordActivity
    /\ UNCHANGED <<setting, link, tasks, queues, flags, partial>>

(* Neither class has a connection_lost, and nobody else tells the handler. *)
ConnectionLost ==
    /\ channel \in {"open", "failing"}
    /\ channel' = "gone"
    /\ UNCHANGED <<setting, out, ready, tasks, queues, flags, partial, client, beat>>

(* h2 and aioquic refuse data for a while, or from a reset on.             *)
StreamFails ==
    /\ setting.over = "extended"
    /\ \/ channel = "open" /\ channel' = "failing"
       \/ channel = "failing" /\ channel' = "open"
    /\ UNCHANGED <<setting, out, ready, tasks, queues, flags, partial, client, beat>>

-----------------------------------------------------------------------------
(* The application's task.                                                 *)

(* Mutant: the send queue is last in, first out.                           *)
AppSendFirst(message) ==
    /\ app = "running" /\ sends < setting.sends
    /\ sends' = sends + 1
    /\ outbox' = <<<<message, sends'>>>> \o outbox
    /\ UNCHANGED <<setting, link, ready, tasks, events, flags, partial,
                   client, beat>>

AppSend(message) ==
    /\ app = "running" /\ sends < setting.sends
    /\ sends' = sends + 1
    /\ outbox' = Append(outbox, <<message, sends'>>)
    /\ UNCHANGED <<setting, link, ready, tasks, events, flags, partial,
                   client, beat>>

AppReturn ==
    /\ app = "running"
    /\ app' = "done"
    /\ UNCHANGED <<setting, link, ready, handle, sender, queues, flags, partial,
                   client, beat>>

(* It raises: closed at once, whatever is still in the send queue.         *)
AppRaise ==
    /\ app = "running"
    /\ app' = "done"
    /\ Close(FALSE, <<>>)
    /\ UNCHANGED <<setting, ready, handle, sender, outbox, sends, accepted,
                   partial, client, beat>>

-----------------------------------------------------------------------------
(* The sender's task.  It looks at _closed when it starts to wait, not     *)
(* when a message has come.                                                *)

Looping == IF closed' THEN "done" ELSE "waiting"

SenderStart ==
    /\ sender = "starting"
    /\ sender' = IF closed THEN "done" ELSE "waiting"
    /\ UNCHANGED <<setting, link, ready, handle, app, queues, flags, partial,
                   client, beat>>

(* Mutant: the sender waits for its queue without a timeout.               *)
SenderSleeps ==
    /\ sender = "waiting" /\ closed /\ outbox # <<>>
    /\ sender' = "done"
    /\ UNCHANGED <<setting, link, ready, handle, app, queues, flags, partial,
                   client, beat>>

(* The wait timed out; when it does not matter, nothing happens.           *)
SenderPoll ==
    /\ sender = "waiting" /\ closed
    /\ sender' = "done"
    /\ UNCHANGED <<setting, link, ready, handle, app, queues, flags, partial,
                   client, beat>>

Took(messages) ==
    /\ sender = "waiting" /\ outbox # <<>> /\ Head(outbox)[1] \in messages
    /\ outbox' = Tail(outbox)
    /\ UNCHANGED <<setting, ready, handle, app, sends, partial, client, beat>>

(* _handle_accept on a stream, where the 200 is long sent ...              *)
HandleAccept ==
    /\ setting.over = "extended" /\ Took({"accept"}) /\ ~accepted
    /\ accepted' = TRUE
    /\ UNCHANGED <<link, closed, events>>
    /\ sender' = Looping

(* ... and on a connection, which still waits for the 101.                 *)
HandleAccept101 ==
    /\ setting.over = "http11" /\ Took({"accept"}) /\ ~accepted
    /\ accepted' = TRUE
    /\ Write(<<"101", 0>>)
    /\ UNCHANGED <<channel, closed, events>>
    /\ sender' = Looping

HandleSend ==
    /\ Took({"send"}) /\ accepted /\ (closed \/ ~Raises)
    /\ IF closed THEN UNCHANGED out ELSE Write(<<"data", Head(outbox)[2]>>)
    /\ UNCHANGED <<channel, flags, events>>
    /\ sender' = Looping

HandleAppClose ==
    /\ Took({"close"})
    /\ Close(FALSE, <<>>)
    /\ UNCHANGED accepted
    /\ sender' = "done"

(* A second accept, a send before the first, one with nothing to send, one *)
(* the channel refuses: logged, and the sender is no more.                 *)
SenderFails ==
    /\ \/ Took({"accept"}) /\ accepted
       \/ Took({"send"}) /\ ~accepted
       \/ Took({"empty"})
       \/ Took({"send"}) /\ accepted /\ ~closed /\ Raises
    /\ sender' = "done"
    /\ UNCHANGED <<link, events, flags>>

SenderStep ==
    \/ SenderStart \/ SenderPoll
    \/ HandleAccept \/ HandleAccept101 \/ HandleSend \/ HandleAppClose
    \/ SenderFails

(* handle, from the gather on: both tasks are over.                        *)
Cleanup ==
    /\ handle = "running" /\ app = "done" /\ sender = "done"
    /\ handle' = "done"
    /\ Heartbeat!Stop
    /\ Close(FALSE, <<>>)
    /\ UNCHANGED <<setting, ready, app, sender, outbox, sends, accepted,
                   partial, client>>

-----------------------------------------------------------------------------
(* The heartbeat's tasks.                                                  *)

SendPing ==
    /\ Heartbeat!Ping
    /\ IF closed THEN UNCHANGED out ELSE Write(<<"ping", 0>>)
    /\ UNCHANGED <<setting, channel, ready, tasks, queues, flags, partial, client>>

OnPingTimeout ==
    /\ Heartbeat!Watchdog
    /\ ready' = IF Heartbeat!TimedOut
                THEN Append(ready, <<"ping timeout", 0>>) ELSE ready
    /\ UNCHANGED <<setting, link, tasks, queues, flags, partial, client>>

(* A tick is long: the loop has run all that was ready.                    *)
Tick ==
    /\ ready = <<>>
    /\ Heartbeat!Tick
    /\ UNCHANGED <<setting, link, ready, tasks, queues, flags, partial, client>>

-----------------------------------------------------------------------------
Next ==
    \/ LoopStep
    \/ \E frames \in Frames, bad \in BOOLEAN : DataReceived(frames, bad)
    \/ ConnectionLost \/ StreamFails
    \/ AppReturn \/ AppRaise
    \/ \E message \in Messages : AppSend(message)
    \/ SenderStep
    \/ Cleanup
    \/ SendPing \/ OnPingTimeout \/ Tick

Spec == Init /\ [][Next]_vars

(* The loop and its timers go on, and an application that is told of the   *)
(* disconnect returns.  Nothing is asked of it before, nor of the client.  *)
FairSpec ==
    /\ Spec
    /\ WF_vars(LoopStep) /\ WF_vars(SenderStep) /\ WF_vars(Cleanup)
    /\ WF_vars(SendPing) /\ WF_vars(OnPingTimeout) /\ WF_vars(Tick)
    /\ WF_vars(closed /\ AppReturn)

-----------------------------------------------------------------------------
(* Properties.                                                             *)

TypeOK ==
    /\ setting \in Settings
    /\ channel \in {"open", "shut", "gone", "failing"}
    /\ ready \in Seq((Kinds \cup {"handle", "protocol error", "ping timeout"})
                     \X (0..setting.frames))
    /\ handle \in {"new", "running", "done"}
    /\ app \in {"new", "running", "done"}
    /\ sender \in {"new", "starting", "waiting", "done"}
    /\ events \in Seq({"connect", "receive", "disconnect"}
                      \X Seq(1..setting.frames))
    /\ outbox \in Seq(Messages \X (1..setting.sends))
    /\ sends \in 0..setting.sends
    /\ accepted \in BOOLEAN /\ closed \in BOOLEAN
    /\ partial \in Seq(1..setting.frames)
    /\ jammed \in BOOLEAN
    /\ sent \in 0..setting.frames
    /\ wire \in Seq(Data)
    /\ out \in Seq({"101", "data", "ping", "pong", "close"}
                   \X (0..setting.sends))
    /\ Heartbeat!TypeOK

(* However client, application, parser and heartbeat race to close it: the *)
(* application's events start with connect and end with one disconnect,    *)
(* which is there as soon as the WebSocket is closed, and never before.    *)
EventsInOrder ==
    /\ \A i \in DOMAIN events :
          /\ events[i] = Connect <=> i = 1
          /\ events[i] = Disconnect <=> i = Len(events) /\ closed
    /\ closed => events # <<>>

(* Nothing is written after the close frame, although the sender looks at  *)
(* _closed before it waits and acts on what it gets after it has waited.   *)
NothingAfterClose ==
    \A i \in DOMAIN out : out[i][1] = "close" => i = Len(out)

(* A client that keeps the rules of fragmentation.                         *)
Lawful ==
    \A i \in DOMAIN wire :
        wire[i] \in {"cont", "last"}
            <=> i > 1 /\ wire[i - 1] \in {"first", "cont"}

Final == {"text", "last"}

(* The number of the last frame with data that event i has delivered.      *)
Upto(i) == IF events[i][1] = "receive" THEN Last(events[i][2]) ELSE 0

(* Event i is a message of the client: from the frame after the message    *)
(* before it to the next final one.                                        *)
Whole(i) ==
    LET from == Upto(i - 1) + 1
        to == Upto(i)
    IN  /\ to \in from..Len(wire)
        /\ events[i][2] = [k \in 1..(to - from + 1) |-> from + k - 1]
        /\ \A n \in from..to : wire[n] \in Final <=> n = to

(* Such a client's messages reach the application whole, in their order,   *)
(* whatever control frames come between the fragments; and all of them do, *)
(* unless the WebSocket is closed.                                         *)
MessagesWhole ==
    Lawful =>
        /\ \A i \in DOMAIN events : events[i][1] = "receive" => Whole(i)
        /\ ready = <<>> /\ ~closed =>
              \A n \in DOMAIN wire : wire[n] \in Final => n <= Upto(Len(events))

(* What the application sends is written in its order, and over HTTP/1.1   *)
(* only after the handshake.                                               *)
SendsInOrder ==
    \A i, j \in DOMAIN out :
        out[j][1] = "data" =>
            /\ i < j /\ out[i][1] = "data" => out[i][2] < out[j][2]
            /\ setting.over = "http11" =>
                  \E k \in 1..(j - 1) : out[k][1] = "101"

(* The heartbeat of a handler never gives up a peer that was heard since   *)
(* the last ping, nor one heard within ping_timeout as long as that is     *)
(* shorter than two intervals ...                                          *)
PeerKept == Heartbeat!ClosesOnlyUnanswered

(* ... and a peer that is silent for ping_interval and ping_timeout finds  *)
(* its WebSocket closed, as soon as the loop has run what is ready.        *)
PeerGivenUp ==
    loop = "running" /\ ready = <<>> /\ ~closed =>
        silence <= setting.interval + setting.timeout

(* Nobody tells the handler of a lost connection; the heartbeat makes up   *)
(* for it.                                                                 *)
LossNoticed == channel = "gone" /\ setting.pings ~> closed

(* Once closed, the sender notices, and handle() comes to its end.         *)
CleanedUp == closed ~> handle = "done"

=============================================================================
