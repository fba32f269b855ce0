-------------------------- MODULE Http11Connection --------------------------
(***************************************************************************)
(* One HTTP/1.1 connection (asgiri/proto/http11.py): h11's two state       *)
(* machines, the keep-alive cycle, one queue and one application task per  *)
(* request, and the ways a connection is refused, closed or handed to      *)
(* another protocol.                                                       *)
(*                                                                         *)
(* data_received appends a segment to h11's buffer and then takes events   *)
(* out of it in a loop that never suspends.  The loop is modelled event by *)
(* event, with `parsing` TRUE from the segment to the loop's end; while it *)
(* is TRUE nothing else moves.  Sizes are abstracted: a head that exceeds  *)
(* one of the limits can be refused if it is a member of Refused.  h11 is  *)
(* library code, modelled from how http11.py uses it.                      *)
(***************************************************************************)
EXTENDS Naturals, Sequences

CONSTANTS
    N,           \* bound: the requests of the client, numbered from 1
    MaxData,     \* bound: the pieces of a request's body
    MaxOut,      \* bound: the pieces of the responses
    Closing,     \* requests that may have Connection: close
    Refused,     \* requests whose head may exceed a limit
    WebSockets,  \* requests that may be WebSocket upgrades
    Upgrades,    \* requests that may ask for h2c; those in either set do ask
                 \* for a protocol
    Failing,     \* requests whose application may raise
    Early,       \* applications may answer before they have read the body
    Patience,    \* what the client waits for before its next request:
                 \*   "nothing" or the "response"
    Zeros,       \* bodies may contain zero bytes
    Garbage      \* the client may send what h11 does not accept

Requests == 1..N

ASSUME Http11Assumption ==
    /\ N \in Nat /\ MaxData \in Nat /\ MaxOut \in Nat
    /\ Closing \subseteq Requests /\ Refused \subseteq Requests
    /\ WebSockets \subseteq Requests /\ Upgrades \subseteq Requests
    /\ Failing \subseteq Requests
    /\ {Early, Zeros, Garbage} \subseteq BOOLEAN
    /\ Patience \in {"nothing", "response"}

VARIABLES
    transport,  \* "open", "closing" (after close()) or "lost"
    protocol,   \* whose data_received the transport calls
    parsing,    \* the loop of data_received is running
    buffer,     \* h11's receive buffer
    their,      \* h11: their_state
    our,        \* h11: our_state
    keepAlive,  \* h11: the connection may be used again
    current,    \* the request receive_body_queue belongs to, 0 for none
    puts,       \* messages put into the queue of each request
    ended,      \* the sentinel is among them
    queue,      \* the queue of each request; a message is its number
    received,   \* what `receive` has returned to its application
    task,       \* the task of each request
    left,       \* history: the requests whose application returned before
                \*   the end of their body was parsed
    sender,     \* its Sender: "none", "started" or "ended"
    out,        \* history: what was written to the transport
    client      \* the client: its last request, whether the body of that is
                \*   unfinished, how much of each body it has sent, and
                \*   which of the things that are answered with an error

bodies == <<puts, ended, queue, received>>
h11 == <<buffer, their, our, keepAlive>>
tasks == <<task, left>>
vars == <<transport, protocol, parsing, h11, current, bodies, tasks, sender,
          out, client>>

(* "long" is the beginning of a head that already exceeds the limit, "bad" *)
(* is not HTTP/1.1, "preface" is HTTP/2 behind a request for h2c.          *)
Kinds == {"head", "data", "zero", "end", "long", "bad", "preface"}

(* After these the client sends no more.                                   *)
Last == {"long", "bad", "preface"}

TypeOK ==
    /\ transport \in {"open", "closing", "lost"}
    /\ protocol \in {"http11", "websocket", "h2"}
    /\ parsing \in BOOLEAN
    /\ buffer \in Seq(Kinds)
    /\ their \in {"idle", "body", "done", "mustclose", "error"}
    /\ our \in {"idle", "response", "body", "done", "mustclose"}
    /\ keepAlive \in BOOLEAN
    /\ their = "idle" => our = "idle"
    /\ our = "idle" => their \in {"idle", "error"}
    /\ "done" \in {their, our} => keepAlive
    /\ current \in 0..N
    /\ puts \in [Requests -> Nat]
    /\ ended \in [Requests -> BOOLEAN]
    /\ queue \in [Requests -> Seq(Nat)]
    /\ received \in [Requests -> Seq(Nat)]
    /\ task \in [Requests -> {"none", "running", "done"}]
    /\ left \subseteq Requests
    /\ sender \in [Requests -> {"none", "started", "ended"}]
    /\ out \in Seq([req : 0..N, part : {"start", "data", "end", "error",
                                        "switch"}])
    /\ client \in [req : 0..N, open : BOOLEAN, sent : SUBSET (Last \cup {"zero"}),
                   data : [Requests -> 0..MaxData]]

Init ==
    /\ transport = "open"
    /\ protocol = "http11"
    /\ parsing = FALSE
    /\ buffer = <<>>
    /\ their = "idle" /\ our = "idle" /\ keepAlive = TRUE
    /\ current = 0
    /\ puts = [i \in Requests |-> 0]
    /\ ended = [i \in Requests |-> FALSE]
    /\ queue = [i \in Requests |-> <<>>]
    /\ received = [i \in Requests |-> <<>>]
    /\ task = [i \in Requests |-> "none"] /\ left = {}
    /\ sender = [i \in Requests |-> "none"]
    /\ out = <<>>
    /\ client = [req |-> 0, open |-> FALSE, sent |-> {},
                 data |-> [i \in Requests |-> 0]]

-----------------------------------------------------------------------------
(* The client.                                                             *)

(* An upgrade is the client's last request.                                *)
MayAsk(c) ==
    /\ c.req < N
    /\ c.req \notin WebSockets \cup Upgrades
    /\ c.req # 0 /\ Patience # "nothing" =>
          sender[c.req] = "ended" /\ keepAlive

(* What may come next on the wire.                                         *)
Items(c) ==
    IF c.sent \cap Last # {} THEN {}
    ELSE {i \in Kinds :
            \/ i = "end" /\ c.open
            \/ i = "data" /\ c.open /\ c.data[c.req] < MaxData
            \/ i = "zero" /\ c.open /\ c.data[c.req] < MaxData /\ Zeros
            \/ i = "head" /\ ~c.open /\ MayAsk(c)
            \/ i = "long" /\ ~c.open /\ MayAsk(c) /\ c.req + 1 \in Refused
            \/ i = "preface" /\ c.req \in Upgrades
            \/ i = "bad" /\ Garbage}

After(c, item) ==
    CASE item = "head" ->
           [c EXCEPT !.req = @ + 1,
                     !.open = c.req + 1 \notin WebSockets \cup Upgrades]
      [] item = "data" -> [c EXCEPT !.data[c.req] = @ + 1]
      [] item = "zero" -> [c EXCEPT !.data[c.req] = @ + 1,
                                    !.sent = @ \cup {"zero"}]
      [] item = "end" -> [c EXCEPT !.open = FALSE]
      [] OTHER -> [c EXCEPT !.sent = @ \cup {item}]

(* The segments the transport may deliver: one item or two.                *)
Segments ==
    {<<x>> : x \in Items(client)} \cup
    UNION {{<<x, y>> : y \in Items(After(client, x))} : x \in Items(client)}

Sent(segment) ==
    LET c == After(client, segment[1])
    IN  IF Len(segment) = 1 THEN c ELSE After(c, segment[2])

-----------------------------------------------------------------------------
(* h11.                                                                    *)

(* A finished half of a connection that is not kept alive must close.      *)
Done(keep) == IF keep THEN "done" ELSE "mustclose"

Event == Head(buffer)

(* next_event has nothing to give: the buffer is empty, or it holds the    *)
(* beginning of the next request while this one is not over (PAUSED).      *)
NoEvent == buffer = <<>> \/ their = "done"

-----------------------------------------------------------------------------
(* data_received.                                                          *)

Write(part, i) ==
    out' = IF transport = "open" THEN Append(out, [req |-> i, part |-> part])
           ELSE out

(* _send_error_response: raw bytes, whatever h11 and the response in       *)
(* progress are at.                                                        *)
SendErrorResponse ==
    /\ Write("error", 0)
    /\ transport' = "closing"

HasZero(segment) == \E k \in DOMAIN segment : segment[k] = "zero"

(* A segment with a zero byte is refused before h11 sees it.               *)
DataReceived(segment) ==
    /\ transport = "open" /\ protocol = "http11" /\ ~parsing
    /\ client' = Sent(segment)
    /\ IF HasZero(segment)
       THEN SendErrorResponse /\ UNCHANGED <<parsing, buffer>>
       ELSE /\ parsing' = TRUE
            /\ buffer' = buffer \o segment
            /\ UNCHANGED <<transport, out>>
    /\ UNCHANGED <<protocol, their, our, keepAlive, current, bodies, tasks,
                   sender>>

(* NEED_DATA and PAUSED.                                                   *)
LoopEnds ==
    /\ parsing /\ NoEvent
    /\ parsing' = FALSE
    /\ UNCHANGED <<transport, protocol, h11, current, bodies, tasks, sender,
                   out, client>>

(* RemoteProtocolError: bytes that make no sense, any bytes once the       *)
(* client's half must close, or an unfinished head that fills h11's buffer *)
(* (its limit is that of the code's own check, which comes after it).      *)
ProtocolError ==
    /\ parsing /\ ~NoEvent
    /\ their = "mustclose" \/ Event \in {"bad", "long"}
    /\ their' = "error"
    /\ our' = IF our = "done" THEN "mustclose" ELSE our
    /\ SendErrorResponse
    /\ parsing' = FALSE
    /\ UNCHANGED <<protocol, buffer, keepAlive, current, bodies, tasks, sender,
                   client>>

NextRequest == current + 1

(* What h11 does for a head, whatever becomes of the request.              *)
HeadParsed ==
    /\ parsing /\ ~NoEvent
    /\ their = "idle" /\ Event = "head"
    /\ NextRequest \in Requests
    /\ buffer' = Tail(buffer)
    /\ their' = "body" /\ our' = "response"
    /\ \E close \in BOOLEAN :
          /\ close => NextRequest \in Closing
          /\ keepAlive' = (keepAlive /\ ~close)
    /\ current' = NextRequest

(* Mutant: the head of a request is counted with the body before it.       *)
RequestRefusedLater ==
    /\ NextRequest \in Refused \/ (current > 0 /\ puts[current] > 1)
    /\ HeadParsed
    /\ SendErrorResponse
    /\ parsing' = FALSE
    /\ UNCHANGED <<protocol, bodies, tasks, sender, client>>

(* 431 or 414, or 400 for an h2c upgrade whose settings do not decode.     *)
RequestRefused ==
    /\ NextRequest \in Refused
    /\ HeadParsed
    /\ SendErrorResponse
    /\ parsing' = FALSE
    /\ UNCHANGED <<protocol, bodies, tasks, sender, client>>

(* Mutant: the queue of the connection's first request serves them all.    *)
RequestKeepsQueue ==
    /\ NextRequest \notin WebSockets \cup Upgrades
    /\ HeadParsed
    /\ task' = [task EXCEPT ![NextRequest] = "running"]
    /\ queue' = [queue EXCEPT ![NextRequest] =
                   IF current = 0 THEN <<>> ELSE queue[current]]
    /\ UNCHANGED <<transport, protocol, parsing, puts, ended, received, left,
                   sender, out, client>>

(* A new queue and a task for the request.                                 *)
Request ==
    /\ NextRequest \notin WebSockets \cup Upgrades
    /\ HeadParsed
    /\ task' = [task EXCEPT ![NextRequest] = "running"]
    /\ queue' = [queue EXCEPT ![NextRequest] = <<>>]
    /\ UNCHANGED <<transport, protocol, parsing, puts, ended, received, left,
                   sender, out, client>>

(* The transport gets a new protocol; what h11 still holds stays there.    *)
HandleWebsocketUpgrade ==
    /\ NextRequest \in WebSockets
    /\ HeadParsed
    /\ protocol' = "websocket"
    /\ parsing' = FALSE
    /\ UNCHANGED <<transport, bodies, tasks, sender, out, client>>

(* 101, and the request is stream 1 of an Http2Connection.                 *)
HandleH2cUpgrade ==
    /\ NextRequest \in Upgrades
    /\ HeadParsed
    /\ Write("switch", NextRequest)
    /\ protocol' = "h2"
    /\ parsing' = FALSE
    /\ UNCHANGED <<transport, bodies, tasks, sender, client>>

Put(i) ==
    /\ puts' = [puts EXCEPT ![i] = @ + 1]
    /\ queue' = [queue EXCEPT ![i] = Append(@, puts[i] + 1)]
    /\ buffer' = Tail(buffer)
    /\ UNCHANGED received

Data ==
    /\ parsing /\ ~NoEvent
    /\ their = "body" /\ Event = "data"
    /\ Put(current)
    /\ UNCHANGED <<transport, protocol, parsing, their, our, keepAlive,
                   current, ended, tasks, sender, out, client>>

EndOfMessage ==
    /\ parsing /\ ~NoEvent
    /\ their = "body" /\ Event = "end"
    /\ Put(current)
    /\ ended' = [ended EXCEPT ![current] = TRUE]
    /\ their' = Done(keepAlive)
    /\ UNCHANGED <<transport, protocol, parsing, our, keepAlive, current,
                   tasks, sender, out, client>>

(* A half-closed connection is closed altogether by the transport.         *)
EofReceived ==
    /\ transport = "open" /\ protocol = "http11" /\ ~parsing
    /\ transport' = "closing"
    /\ UNCHANGED <<protocol, parsing, h11, current, bodies, tasks, sender, out,
                   client>>

(* Nobody tells the application.                                           *)
ConnectionLost ==
    /\ transport # "lost" /\ protocol = "http11" /\ ~parsing
    /\ transport' = "lost"
    /\ UNCHANGED <<protocol, parsing, h11, current, bodies, tasks, sender, out,
                   client>>

-----------------------------------------------------------------------------
(* _handle_request: the task of request i.                                 *)

Running(i) == ~parsing /\ task[i] = "running"

WholeBodyRead(i) == ended[i] /\ Len(received[i]) = puts[i]

Receive(i) ==
    /\ Running(i) /\ queue[i] # <<>>
    /\ received' = [received EXCEPT ![i] = Append(@, Head(queue[i]))]
    /\ queue' = [queue EXCEPT ![i] = Tail(@)]
    /\ UNCHANGED <<transport, protocol, parsing, h11, current, puts, ended,
                   tasks, sender, out, client>>

(* http.response.start; with a Connection: close of the application's h11  *)
(* gives up keep-alive.                                                    *)
SendStart(i, close) ==
    /\ Running(i) /\ sender[i] = "none" /\ our = "response"
    /\ Early \/ WholeBodyRead(i)
    /\ sender' = [sender EXCEPT ![i] = "started"]
    /\ our' = "body"
    /\ keepAlive' = (keepAlive /\ ~close)
    /\ their' = IF their = "done" THEN Done(keepAlive') ELSE their
    /\ Write("start", i)
    /\ UNCHANGED <<transport, protocol, parsing, buffer, current, bodies, tasks,
                   client>>

(* Mutant: the next cycle is started as soon as the response is sent.      *)
SendBodyRestarts(i, more) ==
    /\ Running(i) /\ sender[i] = "started" /\ our = "body"
    /\ IF more
       THEN /\ Len(out) < MaxOut
            /\ Write("data", i)
            /\ UNCHANGED <<their, our, sender>>
       ELSE /\ sender' = [sender EXCEPT ![i] = "ended"]
            /\ our' = IF their = "done" /\ keepAlive THEN "idle"
                      ELSE Done(keepAlive /\ their # "error")
            /\ their' = IF their = "done" /\ keepAlive THEN "idle" ELSE their
            /\ Write("end", i)
    /\ UNCHANGED <<transport, protocol, parsing, buffer, keepAlive, current,
                   bodies, tasks, client>>

(* Mutant: the end of a response is written by the task's last step.       *)
SendBodyUnended(i, more) ==
    /\ Running(i) /\ sender[i] = "started" /\ our = "body"
    /\ IF more
       THEN Len(out) < MaxOut /\ UNCHANGED <<our, sender>>
       ELSE /\ sender' = [sender EXCEPT ![i] = "ended"]
            /\ our' = Done(keepAlive /\ their # "error")
    /\ Write("data", i)
    /\ UNCHANGED <<transport, protocol, parsing, buffer, their, keepAlive,
                   current, bodies, tasks, client>>

(* http.response.body; the last one is followed by the end of the message. *)
SendBody(i, more) ==
    /\ Running(i) /\ sender[i] = "started" /\ our = "body"
    /\ IF more
       THEN /\ Len(out) < MaxOut
            /\ Write("data", i)
            /\ UNCHANGED <<our, sender>>
       ELSE /\ sender' = [sender EXCEPT ![i] = "ended"]
            /\ our' = Done(keepAlive /\ their # "error")
            /\ Write("end", i)
    /\ UNCHANGED <<transport, protocol, parsing, buffer, their, keepAlive,
                   current, bodies, tasks, client>>

(* The application returns or raises.                                      *)
Returns(i) ==
    /\ Running(i)
    /\ sender[i] = "ended" \/ i \in Failing
    /\ task' = [task EXCEPT ![i] = "done"]
    /\ left' = IF ended[i] THEN left ELSE left \cup {i}

(* Mutant: only the state of the client's half decides on closing.         *)
FinishLooksAtThem(i) ==
    /\ Returns(i)
    /\ IF our = "done" /\ their = "done"
       THEN our' = "idle" /\ their' = "idle" /\ UNCHANGED transport
       ELSE /\ transport' = IF their = "mustclose" /\ transport = "open"
                            THEN "closing" ELSE transport
            /\ UNCHANGED <<our, their>>
    /\ UNCHANGED <<protocol, parsing, buffer, keepAlive, current, bodies,
                   sender, out, client>>

(* Mutant: the connection is never used again.                             *)
FinishOnly(i) ==
    /\ Returns(i)
    /\ transport' = IF "mustclose" \in {our, their} /\ transport = "open"
                    THEN "closing" ELSE transport
    /\ UNCHANGED <<protocol, parsing, h11, current, bodies, sender, out,
                   client>>

(* The application is done, and the finally clause starts the next cycle,  *)
(* closes, or does neither.                                                *)
Finish(i) ==
    /\ Returns(i)
    /\ IF our = "done" /\ their = "done"
       THEN our' = "idle" /\ their' = "idle" /\ UNCHANGED transport
       ELSE /\ transport' = IF "mustclose" \in {our, their}
                                /\ transport = "open"
                            THEN "closing" ELSE transport
            /\ UNCHANGED <<our, their>>
    /\ UNCHANGED <<protocol, parsing, buffer, keepAlive, current, bodies,
                   sender, out, client>>

-----------------------------------------------------------------------------
Parse ==
    \/ LoopEnds \/ ProtocolError
    \/ RequestRefused \/ Request \/ HandleWebsocketUpgrade \/ HandleH2cUpgrade
    \/ Data \/ EndOfMessage

AppStep(i) ==
    \/ Receive(i)
    \/ \E close \in BOOLEAN : SendStart(i, close)
    \/ \E more \in BOOLEAN : SendBody(i, more)
    \/ Finish(i)

Next ==
    \/ \E segment \in Segments : DataReceived(segment)
    \/ Parse
    \/ EofReceived \/ ConnectionLost
    \/ \E i \in Requests : AppStep(i)

Spec == Init /\ [][Next]_vars

(* The loop of data_received ends, and every application reads its body    *)
(* and answers.                                                            *)
Respond(i) ==
    \/ \E close \in BOOLEAN : SendStart(i, close)
    \/ SendBody(i, FALSE)
    \/ Finish(i)

FairSpec ==
    /\ Spec
    /\ WF_vars(Parse)
    /\ \A i \in Requests : WF_vars(Receive(i)) /\ WF_vars(Respond(i))

-----------------------------------------------------------------------------
(* Properties.                                                             *)

(* Sequential request processing (docs/ARCHITECTURE.md): an application    *)
(* runs only while it is its request's turn, when the applications of all  *)
(* earlier requests are done, their responses complete and their bodies    *)
(* read off the wire to the end.                                           *)
Sequential ==
    \A i \in Requests : task[i] = "running" =>
        /\ i = current
        /\ \A j \in 1..(i - 1) :
              task[j] = "done" /\ sender[j] = "ended" /\ ended[j]

(* On the wire the responses follow each other in the order of the         *)
(* requests, each one complete before the next begins, and a switch of     *)
(* protocols comes after all of them.                                      *)
ResponsesInOrder ==
    \A p, q \in DOMAIN out :
        p < q /\ out[p].part # "error" /\ out[q].part # "error"
          /\ out[p].req # out[q].req =>
             /\ out[p].req < out[q].req
             /\ \E r \in p..(q - 1) : out[r] = [req |-> out[p].req,
                                                part |-> "end"]

(* For every request, the queue keeps the promise of RequestBody: nothing  *)
(* is lost, duplicated or reordered, at any length.                        *)
Promise(i) == INSTANCE RequestBody
                 WITH sent <- puts[i], ended <- ended[i],
                      received <- received[i]
ImplementsRequestBody ==
    /\ \A i \in Requests : Promise(i)!Init
    /\ [][\A i \in Requests :
            Promise(i)!Next \/ UNCHANGED <<puts[i], ended[i], received[i]>>]_vars

(* Once a response is complete on a connection that is not kept alive and  *)
(* its application is done, the transport is closed.                       *)
CloseHonoured ==
    \A i \in Requests :
        i = current /\ task[i] = "done" /\ sender[i] = "ended" /\ ~keepAlive
          => transport # "open"

(* Keep-alive (docs/ARCHITECTURE.md: "Handle keep-alive connections"): an  *)
(* open connection on which no application runs waits for a new request,   *)
(* with h11 ready to parse it.  Two cases are excepted, where the finally  *)
(* clause neither starts the next cycle nor closes: an application that    *)
(* returned before the end of its body was parsed on a connection that is  *)
(* kept alive, and one that failed before its response was complete.       *)
ReadyForNext ==
    transport = "open" /\ protocol = "http11" /\ ~parsing
      /\ (\A i \in Requests : task[i] # "running")
    => \/ their = "idle" /\ our = "idle"
       \/ current \in left /\ keepAlive
       \/ current \in Failing /\ sender[current] # "ended"

(* A client is answered with an error only when it gave a reason for it: a *)
(* zero byte (even where HTTP/1.1 allows one, in the body), what is not    *)
(* HTTP/1.1, a head that exceeds a limit, begun or whole, or a request     *)
(* behind the one after which the connection is not kept alive.            *)
Provoked ==
    \/ client.sent \cap {"zero", "bad", "long"} # {}
    \/ current \in Refused
    \/ ~keepAlive /\ client.req > current

NoErrorUnprovoked ==
    (\E p \in DOMAIN out : out[p].part = "error") => Provoked

(* Every complete request of a connection that stays open is answered, or  *)
(* handed to the protocol it asked for.                                    *)
Complete(i) == client.req > i \/ (client.req = i /\ ~client.open)

Answered(i) == sender[i] = "ended" \/ transport # "open" \/ protocol # "http11"

EventuallyAnswered == \A i \in Requests : Complete(i) ~> Answered(i)

=============================================================================
