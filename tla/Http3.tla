------------------------------- MODULE Http3 -------------------------------
(***************************************************************************)
(* One stream of an HTTP/3 connection (proto/http3.py): an ordinary        *)
(* request, a WebSocket CONNECT, the CONNECT of a WebTransport session or  *)
(* one of a session's streams of data.  Streams share nothing but          *)
(* dictionaries keyed by their ids, so one stream stands for all of a      *)
(* connection.                                                             *)
(*                                                                         *)
(* QUIC events are handled synchronously, tasks run between them.  A       *)
(* request's receive() polls its queue with a timeout of 0.1 s; a          *)
(* WebTransport stream's waits without one.  Headers are a request unless  *)
(* they are a CONNECT, so trailers start a request on a stream that has a  *)
(* request, a WebSocket or a session already; and WebTransport data that   *)
(* comes when its stream's task is over starts another.                    *)
(***************************************************************************)
EXTENDS Naturals, Sequences, FiniteSets

CONSTANTS
    MaxData,   \* how many pieces of data the client sends
    MaxTasks,  \* how many tasks the stream gets
    MaxParts   \* how many pieces a response is cut into

ASSUME Http3Assumption == MaxData \in Nat /\ MaxTasks \in Nat \ {0} /\ MaxParts \in Nat

Kinds == {"request", "websocket", "session", "webtransport"}
Tasks == 1..MaxTasks
NoTask == 0

VARIABLES
    kind,      \* what the stream is
    heads,     \* header blocks the client has sent: the first, then trailers
    sent,      \* pieces of data the client has sent
    fin,       \* the client has ended its side
    task,      \* the tasks of the stream
    handler,   \* the task that is in the dictionary of handlers
    receiver,  \* the task whose queue is in the dictionary of receivers
    ended,     \* stream_ended
    queue,     \* the queue made for each task
    puts,      \* put tasks of WebTransport data that have not run
    initial,   \* the piece a WebTransport task is started with
    finished,  \* its stream_finished
    waits,     \* the task whose queue a parked receive() waits for
    woken,     \* its wait is over, but it has not run yet
    received,  \* what the application has received
    told,      \* it has been told that no more will come
    started,   \* headers_sent of the task's sender
    wire,      \* what the server has sent on the stream
    failed,    \* the tasks whose application has raised
    late,      \* a poll timed out although its wait was over already
    missed     \* data came for a task that had no queue yet

stream == <<handler, receiver, ended>>
input == <<queue, puts, initial, finished, waits, woken>>
client == <<heads, sent, fin>>
app == <<received, told>>
output == <<started, wire, failed>>
vars == <<kind, client, task, stream, input, app, output, late, missed>>

Init ==
    /\ kind \in Kinds
    /\ heads = 0 /\ sent = 0 /\ fin = FALSE
    /\ task = [t \in Tasks |-> "none"]
    /\ handler = NoTask /\ receiver = NoTask /\ ended = FALSE
    /\ queue = [t \in Tasks |-> <<>>] /\ puts = <<>>
    /\ initial = [t \in Tasks |-> 0] /\ finished = [t \in Tasks |-> FALSE]
    /\ waits = [t \in Tasks |-> NoTask] /\ woken = [t \in Tasks |-> FALSE]
    /\ received = [t \in Tasks |-> <<>>] /\ told = [t \in Tasks |-> FALSE]
    /\ started = [t \in Tasks |-> FALSE] /\ wire = <<>>
    /\ failed = {}
    /\ late = FALSE /\ missed = FALSE

(* The next task of the stream is created: a WebSocket's is open until it  *)
(* closes the stream, the others run an application later.                 *)
Create(t, begun) ==
    /\ task[t] = "none"
    /\ \A s \in Tasks : s < t => task[s] # "none"
    /\ task' = [task EXCEPT ![t] = begun]
    /\ handler' = t

(* put wakes the first of those that wait for the queue.  After polls of   *)
(* 0.1 s that may be any of them.                                          *)
PutNowait(q, piece) ==
    /\ queue' = [queue EXCEPT ![q] = Append(@, piece)]
    /\ LET waiting == {t \in Tasks : waits[t] = q /\ ~woken[t]}
       IN  IF waiting = {} THEN UNCHANGED woken
           ELSE \E t \in waiting : woken' = [woken EXCEPT ![t] = TRUE]

-----------------------------------------------------------------------------
(* An ordinary request, or what trailers are taken for on any stream.      *)

HandleRequest(t, end) ==
    /\ kind # "webtransport" /\ (kind # "request" => heads = 1)
    /\ heads < 2 /\ ~fin
    /\ Create(t, "created")
    /\ heads' = heads + 1 /\ fin' = end
    /\ receiver' = t /\ ended' = end
    /\ UNCHANGED <<kind, sent, input, app, output, late, missed>>

(* The client's next piece, or the number 0 for an empty one, with which   *)
(* it only ends its side.                                                  *)
ClientSends(piece, end) ==
    /\ heads > 0 /\ ~fin
    /\ IF piece = 0 THEN end ELSE piece = sent + 1 /\ heads = 1 /\ sent < MaxData
    /\ sent' = IF piece = 0 THEN sent ELSE piece
    /\ fin' = end

(* A stream is in websocket_handlers until its WebSocket closes it.        *)
InWebSocket == \E t \in Tasks : task[t] = "open"

(* Mutant of DataReceived: the end is not remembered.                      *)
DataReceivedUnended(piece, end) ==
    /\ kind # "webtransport" /\ ~InWebSocket
    /\ ClientSends(piece, end)
    /\ IF receiver # NoTask THEN PutNowait(receiver, piece) ELSE UNCHANGED <<queue, woken>>
    /\ UNCHANGED <<kind, heads, task, stream, puts, initial, finished, waits, app, output,
                   late, missed>>

DataReceived(piece, end) ==
    /\ kind # "webtransport" /\ ~InWebSocket
    /\ ClientSends(piece, end)
    /\ IF receiver # NoTask
       THEN PutNowait(receiver, piece) /\ ended' = (ended \/ end)
       ELSE UNCHANGED <<queue, woken, ended>>
    /\ UNCHANGED <<kind, heads, task, handler, receiver, puts, initial, finished,
                   waits, app, output, late, missed>>

RunAsgi(t) ==
    /\ kind # "webtransport" /\ task[t] = "created"
    /\ task' = [task EXCEPT ![t] = "running"]
    /\ UNCHANGED <<kind, client, stream, input, app, output, late, missed>>

(* Mutant of Take: the message is the last as soon as the client has ended. *)
TakeEarly(t, q) ==
    /\ queue[q] # <<>>
    /\ queue' = [queue EXCEPT ![q] = Tail(@)]
    /\ received' = [received EXCEPT ![t] = IF Head(queue[q]) = 0 THEN @ ELSE Append(@, Head(queue[q]))]
    /\ told' = [told EXCEPT ![t] = @ \/ ended]
    /\ task' = [task EXCEPT ![t] = "running"]
    /\ waits' = [waits EXCEPT ![t] = NoTask] /\ woken' = [woken EXCEPT ![t] = FALSE]

(* receive() returns the next piece of queue q, or the empty last message. *)
Take(t, q) ==
    /\ queue[q] # <<>>
    /\ queue' = [queue EXCEPT ![q] = Tail(@)]
    /\ received' = [received EXCEPT ![t] = IF Head(queue[q]) = 0 THEN @ ELSE Append(@, Head(queue[q]))]
    /\ told' = [told EXCEPT ![t] = @ \/ (ended /\ Tail(queue[q]) = <<>>)]
    /\ task' = [task EXCEPT ![t] = "running"]
    /\ waits' = [waits EXCEPT ![t] = NoTask] /\ woken' = [woken EXCEPT ![t] = FALSE]

TakeLast(t) ==
    /\ told' = [told EXCEPT ![t] = TRUE]
    /\ task' = [task EXCEPT ![t] = "running"]
    /\ waits' = [waits EXCEPT ![t] = NoTask] /\ woken' = [woken EXCEPT ![t] = FALSE]
    /\ UNCHANGED <<queue, received>>

Wait(t, q) ==
    /\ task' = [task EXCEPT ![t] = "receiving"]
    /\ waits' = [waits EXCEPT ![t] = q] /\ woken' = [woken EXCEPT ![t] = FALSE]
    /\ UNCHANGED <<queue, app>>

Receive(t) ==
    /\ kind # "webtransport" /\ task[t] = "running"
    /\ \/ /\ receiver = NoTask \/ (ended /\ queue[receiver] = <<>>)
          /\ TakeLast(t)
       \/ receiver # NoTask /\ Take(t, receiver)
       \/ receiver # NoTask /\ ~ended /\ queue[receiver] = <<>> /\ Wait(t, receiver)
    /\ UNCHANGED <<kind, client, stream, puts, initial, finished, output, late, missed>>

(* The wait of queue.get() is over; another task may have been faster.     *)
GetReturns(t) ==
    /\ kind # "webtransport" /\ task[t] = "receiving" /\ woken[t]
    /\ IF queue[waits[t]] = <<>> THEN Wait(t, waits[t]) ELSE Take(t, waits[t])
    /\ UNCHANGED <<kind, client, stream, puts, initial, finished, output, late, missed>>

(* wait_for's timeout, which may come in the same turn of the event loop   *)
(* as the data: then get() is cancelled and the data stays in the queue.   *)
GetTimesOut(t) ==
    /\ kind # "webtransport" /\ task[t] = "receiving"
    /\ IF ended THEN TakeLast(t)
       ELSE IF queue[waits[t]] # <<>> THEN Take(t, waits[t])
       ELSE Wait(t, waits[t])
    /\ late' = (late \/ woken[t])
    /\ UNCHANGED <<kind, client, stream, puts, initial, finished, output, missed>>

-----------------------------------------------------------------------------
(* Responses.  h3 takes one header block, then data, then one block of     *)
(* trailers, and nothing behind the end of the stream.                     *)

HeadsOn(w) == Cardinality({i \in DOMAIN w : w[i] = "head"})
EndedOn(w) == \E i \in DOMAIN w : w[i] = "end"
MaySendHeaders(w) == HeadsOn(w) < 2 /\ ~EndedOn(w)
MaySendData(w) == HeadsOn(w) = 1 /\ ~EndedOn(w)

(* Mutant of SendErrorResponse: the error does not end the stream.          *)
SendErrorUnended(w) ==
    IF ~MaySendHeaders(w) THEN w
    ELSE LET headed == Append(w, "head")
         IN  IF MaySendData(headed) THEN Append(headed, "data") ELSE headed

(* Either block of headers; then the data is refused behind the second.    *)
SendErrorResponse(w) ==
    IF ~MaySendHeaders(w) THEN w
    ELSE LET headed == Append(w, "head")
         IN  IF MaySendData(headed) THEN headed \o <<"data", "end">> ELSE headed

SendStart(t) ==
    /\ kind # "webtransport" /\ task[t] = "running" /\ ~started[t]
    /\ MaySendHeaders(wire)
    /\ started' = [started EXCEPT ![t] = TRUE]
    /\ wire' = Append(wire, "head")
    /\ UNCHANGED <<kind, client, task, stream, input, app, failed, late, missed>>

SendBody(t, body, more) ==
    /\ kind # "webtransport" /\ task[t] = "running" /\ started[t]
    /\ MaySendData(wire) /\ Len(wire) < MaxParts
    /\ body \/ ~more
    /\ wire' = wire \o (IF body THEN <<"data">> ELSE <<>>) \o (IF more THEN <<>> ELSE <<"end">>)
    /\ UNCHANGED <<kind, client, task, stream, input, app, started, failed, late, missed>>

(* Mutant of Cleanup: the queue stays registered.                          *)
CleanupKeepsReceiver(t) ==
    /\ task' = [task EXCEPT ![t] = "done"]
    /\ handler' = NoTask /\ ended' = FALSE
    /\ UNCHANGED receiver

(* finally: whatever is registered for the stream goes, whosever it is.    *)
Cleanup(t) ==
    /\ task' = [task EXCEPT ![t] = "done"]
    /\ handler' = NoTask /\ receiver' = NoTask /\ ended' = FALSE

AppReturns(t) ==
    /\ kind # "webtransport" /\ task[t] = "running" /\ EndedOn(wire)
    /\ Cleanup(t)
    /\ UNCHANGED <<kind, client, input, app, output, late, missed>>

(* The application raises, of itself or of what h3 refuses to send.        *)
AppRaises(t) ==
    /\ kind # "webtransport" /\ task[t] = "running"
    /\ wire' = SendErrorResponse(wire)
    /\ failed' = failed \cup {t}
    /\ Cleanup(t)
    /\ UNCHANGED <<kind, client, input, app, started, late, missed>>

-----------------------------------------------------------------------------
(* WebSockets.  No response is sent for the CONNECT, so h3 refuses every   *)
(* frame, and the close, which swallows that; unless the application of    *)
(* the request that trailers started has sent headers.                     *)

HandleWebsocketConnect(t) ==
    /\ kind = "websocket" /\ heads = 0
    /\ Create(t, "open")
    /\ heads' = 1
    /\ UNCHANGED <<kind, sent, fin, receiver, ended, input, app, output, late, missed>>

(* Data for the handler, whose end goes unnoticed; received is what has    *)
(* been routed to it.                                                      *)
WebsocketData(t, piece, end) ==
    /\ kind = "websocket" /\ task[t] = "open"
    /\ ClientSends(piece, end)
    /\ received' = [received EXCEPT ![t] = IF piece = 0 THEN @ ELSE Append(@, piece)]
    /\ UNCHANGED <<kind, heads, task, stream, input, told, output, late, missed>>

SendFrame(t) ==
    /\ kind = "websocket" /\ task[t] = "open"
    /\ IF MaySendData(wire)
       THEN Len(wire) < MaxParts /\ wire' = Append(wire, "data") /\ UNCHANGED failed
       ELSE failed' = failed \cup {t} /\ UNCHANGED wire
    /\ UNCHANGED <<kind, client, task, stream, input, app, started, late, missed>>

(* close_stream removes whichever task is registered, and no queue.        *)
CloseStream(t) ==
    /\ kind = "websocket" /\ task[t] = "open"
    /\ wire' = IF MaySendData(wire) THEN Append(wire, "end") ELSE wire
    /\ task' = [task EXCEPT ![t] = "done"]
    /\ handler' = NoTask
    /\ UNCHANGED <<kind, client, receiver, ended, input, app, started, failed, late, missed>>

-----------------------------------------------------------------------------
(* WebTransport: the session's CONNECT is accepted at once, its streams of *)
(* data carry no headers.                                                  *)

HandleWebtransportConnect ==
    /\ kind = "session" /\ heads = 0
    /\ heads' = 1
    /\ wire' = Append(wire, "head")
    /\ UNCHANGED <<kind, sent, fin, task, stream, input, app, started, failed, late, missed>>

(* Data of a stream that has a handler whose task has not made its queue   *)
(* yet goes nowhere.                                                       *)
WebtransportData(end) ==
    /\ kind = "webtransport" /\ ~fin /\ sent < MaxData
    /\ sent' = sent + 1 /\ fin' = end
    /\ IF handler = NoTask
       THEN \E t \in Tasks :
               /\ Create(t, "created")
               /\ initial' = [initial EXCEPT ![t] = sent + 1]
               /\ finished' = [finished EXCEPT ![t] = end]
               /\ UNCHANGED <<puts, missed>>
       ELSE /\ IF receiver # NoTask
               THEN puts' = Append(puts, <<receiver, sent + 1>>) /\ UNCHANGED missed
               ELSE missed' = TRUE /\ UNCHANGED puts
            /\ UNCHANGED <<task, handler, initial, finished>>
    /\ UNCHANGED <<kind, heads, receiver, ended, queue, waits, woken, app, output, late>>

(* Mutant of HandleWebtransportStream: the piece it was created for is      *)
(* not put into the queue.                                                 *)
HandleStreamEmpty(t) ==
    /\ kind = "webtransport" /\ task[t] = "created"
    /\ task' = [task EXCEPT ![t] = "running"]
    /\ receiver' = t
    /\ UNCHANGED <<kind, client, handler, ended, queue, puts, initial, finished, waits, woken,
                   app, output, late, missed>>

HandleWebtransportStream(t) ==
    /\ kind = "webtransport" /\ task[t] = "created"
    /\ task' = [task EXCEPT ![t] = "running"]
    /\ queue' = [queue EXCEPT ![t] = <<initial[t]>>]
    /\ receiver' = t
    /\ UNCHANGED <<kind, client, handler, ended, puts, initial, finished, waits, woken,
                   app, output, late, missed>>

PutRuns ==
    /\ puts # <<>>
    /\ puts' = Tail(puts)
    /\ PutNowait(Head(puts)[1], Head(puts)[2])
    /\ UNCHANGED <<kind, client, task, stream, initial, finished, waits, app, output, late, missed>>

StreamReceive(t) ==
    /\ kind = "webtransport" /\ task[t] = "running"
    /\ \/ finished[t] /\ TakeLast(t)
       \/ ~finished[t] /\ Take(t, t)
       \/ ~finished[t] /\ queue[t] = <<>> /\ Wait(t, t)
    /\ UNCHANGED <<kind, client, stream, puts, initial, finished, output, late, missed>>

StreamGetReturns(t) ==
    /\ kind = "webtransport" /\ task[t] = "receiving" /\ woken[t]
    /\ Take(t, t)
    /\ UNCHANGED <<kind, client, stream, puts, initial, finished, output, late, missed>>

(* Nor does a WebTransport stream have headers, so h3 refuses to send on   *)
(* it, and the stream does not count as finished.                          *)
StreamSend(t, end) ==
    /\ kind = "webtransport" /\ task[t] = "running"
    /\ IF MaySendData(wire)
       THEN /\ wire' = Append(wire, IF end THEN "end" ELSE "data")
            /\ finished' = [finished EXCEPT ![t] = @ \/ end]
            /\ UNCHANGED failed
       ELSE failed' = failed \cup {t} /\ UNCHANGED <<wire, finished>>
    /\ UNCHANGED <<kind, client, task, stream, queue, puts, initial, waits, woken,
                   app, started, late, missed>>

StreamHandlerEnds(t) ==
    /\ kind = "webtransport" /\ task[t] = "running"
    /\ Cleanup(t)
    /\ UNCHANGED <<kind, client, input, app, output, late, missed>>

-----------------------------------------------------------------------------
Client ==
    \/ \E t \in Tasks, end \in BOOLEAN : HandleRequest(t, end)
    \/ \E piece \in 0..MaxData, end \in BOOLEAN : DataReceived(piece, end)
    \/ \E t \in Tasks : HandleWebsocketConnect(t)
    \/ \E t \in Tasks, piece \in 0..MaxData, end \in BOOLEAN : WebsocketData(t, piece, end)
    \/ HandleWebtransportConnect
    \/ \E end \in BOOLEAN : WebtransportData(end)

(* What the event loop does for a task, and what its application does.     *)
Loop(t) == RunAsgi(t) \/ GetReturns(t) \/ HandleWebtransportStream(t) \/ StreamGetReturns(t)
Application(t) ==
    \/ Receive(t) \/ SendStart(t)
    \/ \E body \in BOOLEAN, more \in BOOLEAN : SendBody(t, body, more)
    \/ AppReturns(t) \/ AppRaises(t)
    \/ SendFrame(t) \/ CloseStream(t)
    \/ StreamReceive(t) \/ \E end \in BOOLEAN : StreamSend(t, end)
    \/ StreamHandlerEnds(t)

Next ==
    \/ Client
    \/ PutRuns
    \/ \E t \in Tasks : Loop(t) \/ GetTimesOut(t) \/ Application(t)

Spec == Init /\ [][Next]_vars

(* The event loop runs what is ready, and timers expire.                   *)
Fairness ==
    /\ WF_vars(PutRuns)
    /\ \A t \in Tasks : WF_vars(Loop(t)) /\ WF_vars(GetTimesOut(t))
FairSpec == Spec /\ Fairness

-----------------------------------------------------------------------------
Trailed == heads = 2

(* An application is told that its body is complete only when it has got   *)
(* every piece the client sent, in order, whatever the timing of polls and *)
(* datagrams; unless a poll times out in the very turn in which its data   *)
(* came, or trailers have replaced the queue (receive, _handle_request).   *)
WholeBody ==
    kind = "request" =>
        /\ \A i \in DOMAIN received[1] : received[1][i] = i
        /\ told[1] /\ ~late /\ ~Trailed => fin /\ Len(received[1]) = sent

(* A WebTransport application gets the stream without a gap, from the      *)
(* piece its task was started with; unless a piece came before the task    *)
(* had registered its queue (_handle_webtransport_stream_data).  No piece  *)
(* is given to two applications.                                           *)
StreamInOrder ==
    kind = "webtransport" =>
        /\ \A t \in Tasks : \A i, j \in DOMAIN received[t] : i < j => received[t][i] < received[t][j]
        /\ \A s, t \in Tasks : \A i \in DOMAIN received[s], j \in DOMAIN received[t] :
              s < t => received[s][i] < received[t][j]
        /\ \A t \in Tasks : \A i \in DOMAIN received[t] : ~missed => received[t][i] = initial[t] + i - 1

(* What the dictionaries hold belongs to a task in progress, so nothing    *)
(* stays when there is none, whatever trailers have added and whichever of *)
(* two tasks, or close_stream, clears up first.  Without trailers the task *)
(* in progress is always registered (_run_asgi, _handle_websocket_connect, *)
(* _handle_webtransport_stream).                                           *)
RegistryExact ==
    LET live == {t \in Tasks : task[t] \in {"created", "open", "running", "receiving"}}
    IN  /\ {handler, receiver} \ {NoTask} \subseteq live
        /\ ended => receiver # NoTask
        /\ ~Trailed => live = {handler} \ {NoTask}

(* A request whose task is over has been answered with one response, which *)
(* is complete; unless the application failed in the middle of it, or      *)
(* trailers have made two applications write (_run_asgi, _create_sender).  *)
AnsweredOnce ==
    kind = "request" /\ ~Trailed /\ task[1] = "done" =>
        \/ /\ wire # <<>> /\ wire[1] = "head" /\ HeadsOn(wire) = 1
           /\ \A i \in DOMAIN wire : wire[i] = "end" <=> i = Len(wire)
        \/ 1 \in failed /\ started[1]

(* Once the client has ended its request, no receive() waits for ever;     *)
(* unless there were trailers, since the task that ends first also removes *)
(* the mark that the stream has ended (_run_asgi, receive).                *)
ReceiveEnds ==
    \A t \in Tasks :
        (kind = "request" /\ fin /\ ~Trailed /\ task[t] = "receiving") ~> task[t] # "receiving"

=============================================================================
