# asgiri in TLA+

asgiri is an ASGI server in Python: one asyncio process (or several workers)
that speaks HTTP/1.1 (h11), HTTP/2 (h2), HTTP/3 (aioquic), WebSockets over all
three and WebTransport, with hot reload, a lifespan protocol and a few
middlewares. This directory holds TLA+ specifications of its protocol cores,
TLC configurations that check them on small instances, and TLAPS proofs of the
properties that matter most. Everything is translated from `src/asgiri`; where
the code relies on h11, h2 or asyncio, their behaviour is modelled from how the
code uses it and marked external in `PROJECT.json`.

## The system

### Components, their state and their operations

| Component | State | Operations | What makes it correct |
|---|---|---|---|
| HTTP/1.1 connection, `proto/http11.py` | h11's buffer and two state machines, the queue of the current request, one task and one Sender per request | `data_received`, `_send_error_response`, `_handle_request`, `receive`, `Sender`, the two upgrades, `eof_received`, `connection_lost` | requests one at a time, responses in order and whole, bodies to their own request, keep-alive and close honoured, nobody left waiting |
| HTTP/2 request bodies, `proto/http2.py` | a bounded queue per stream, one put task per message | `data_received`'s events, `Receiver`, the application's task | the body arrives whole, in order, last message last |
| HTTP/2 connection, `proto/http2.py` | `stream_states`, flow-control windows, stream and connection states of h2 | the events of `data_received`, `Sender`, `_handle_request`, stream 1 of an upgrade, WebSocket CONNECT | a registry that matches the work in progress, credit that is never lost, responses that reach their end |
| WebSocket handlers, `proto/websocket_handler.py`, `proto/websocket_http11.py` | handshake flags, receive and send queues, application and sender tasks | `handle`, `_run_app`, `_sender_loop`, `data_received`, `_handle_frame`, `_close` | connect, accept, messages, one disconnect; close frames exchanged once |
| WebSocket heartbeat, `proto/websocket_heartbeat.py` | ping task, watchdog task, time of the last ping and of the last activity | start, stop, ping loop, watchdog | a silent peer is closed, and no peer that was heard since the last ping |
| HTTP/3 and WebTransport, `proto/http3.py` | dictionaries by stream id: handler tasks, receivers' queues, ended flags | QUIC events, the polling `receive`, `send`, the clean-up of a task | told that a body is complete only with all of it, a stream's data without a gap, one answer per request, dictionaries that match the tasks |
| Server and lifespan, `server.py` | exit event, pending shutdown, lifespan task and its events, listeners, temporary key files | `run`, `a_run`, `request_shutdown`, signal handlers, lifespan startup and shutdown | whoever asks the server to stop is heard; nobody connects before startup; the application is told to shut down when nobody is connected; nothing is left behind |
| Workers, `workers.py` | table of processes, shutdown event | `spawn_workers`: start, monitor and restart, signal handler | every living worker is in the table, none survives a shutdown |
| Hot reload, `reload.py` | child process and its pipe, reload event, watcher threads, failure count | `run`, watchers, `handle_signal`, the child's listener thread | every change leads to a child that has loaded it; a signal ends it |
| Launching, `cli.py` | which of the three is running | `main`, `worker_process`, the reloadable child | each of the three keeps its promises |
| Sessions, `middlewares/session/*` | session stores with expiry, the session of each request | `get_session`, the session's dictionary, `save_session`, the wrapped `send` | no client sees another's session, a response's session is found by the next request |
| WebSocket frames, protocol detection, proxy and header middlewares, TLS support, small helpers | a parser's buffer; none that outlives a call otherwise | parsing, one choice per connection, key generation | not modelled, see below |

### How they interact

The event loop calls the protocols (`data_received`, `connection_lost`) and
runs the tasks they create. A callback never suspends; a task suspends only in
`await`. So every action below is one callback, or one stretch of a task
between two suspensions. Protocols and applications share state through asyncio
queues (bodies, toward the application) and through the transport and the
library's connection object (responses). `AutoProtocol` and the two upgrades
replace a connection's protocol while it is running. Server, workers and reload
share state between signal handlers, threads and processes.

### What is hard

- Messages put by one task each, on a bounded queue, overtake each other.
- A finally clause that decides once about a connection whose other half may
  change a moment later.
- Data that arrives for a request that is already over.
- Flow control in both directions, and who owes whom a window update.
- A connection that changes its protocol with bytes still in a buffer.
- Applications that stop, raise, or answer before they have read.
- Four parties that may close a WebSocket at once, and watchdogs that outlive
  their ping.
- Polling with a timeout against a queue that is filled meanwhile, and
  dictionaries whose entries two tasks own.
- Signal handlers and threads that come before the state they need, or in the
  middle of the step that makes it.
- Processes that are restarted while they are being terminated, and watchers
  that outlive the child they were started for.
- Requests of one session that overlap and share one object.

`PROJECT.json` lists each hazard at its line, with the properties that watch it
or the reason why none does.

## The modules

| Module | Models | Extends / instances |
|---|---|---|
| `RequestBody` | abstract: what every protocol promises an application about one body | |
| `Http2Body` | one HTTP/2 request body on its way through put tasks, the queue and `receive` | instance of `RequestBody` as refinement target |
| `Http2Body_proof` | proofs | `Http2Body`, TLAPS |
| `Http2Connection` | one HTTP/2 connection: registry, windows, errors, resets, WebSocket CONNECT, stream 1 | |
| `MCHttp2Connection` | model values for TLC | `Http2Connection` |
| `Http2Connection_proof` | proofs | `Http2Connection`, TLAPS |
| `Http11Connection` | one HTTP/1.1 connection | one instance of `RequestBody` per request |
| `Http11Connection_proof` | proofs | `Http11Connection`, TLAPS |
| `WebSocketHeartbeat` | ping task and watchdogs over a clock | |
| `MCWebSocketHeartbeat` | the timing of the repository's test, for TLC | `WebSocketHeartbeat` |
| `WebSocketHeartbeat_proof` | proofs | `WebSocketHeartbeat`, TLAPS |
| `WebSocketHandler` | one WebSocket, over HTTP/1.1 or a stream: frames, sender, application, closing | instance of `WebSocketHeartbeat`, whose actions it drives |
| `MCWebSocketHandler` | instances for TLC | `WebSocketHandler` |
| `WebSocketHandler_proof` | proofs | `WebSocketHandler`, TLAPS; instance of `WebSocketHeartbeat_proof` |
| `Http3` | one HTTP/3 stream: request, WebSocket CONNECT, WebTransport session or stream | |
| `Http3_proof` | proofs | `Http3`, TLAPS |
| `Server` | `run` and `a_run`, lifespan, shutdown requests, signals | |
| `Workers` | the parent of the worker processes | |
| `Reload` | the reload supervisor, its child and its watchers | |
| `Launch` | what the command line starts, one of the three | `Server`; instances of `Workers` and `Reload` |
| `Launch_proof` | proofs about the server, alone and launched, and about the workers | `Launch`, TLAPS |
| `Sessions` | the session middleware over its in-memory and its database store | |
| `Sessions_proof` | proofs | `Sessions`, TLAPS |

Definitions named "Mutant" in a comment are wrong on purpose: each is a
plausible bug of the definition after it, and shows that a property can fail.

### Http2Body

`data_received` is synchronous and cannot await `queue.put`, so the code makes
one task per message. `ready` is the event loop's FIFO of task steps; put task
*i* carries message *i*, and `App` is the application's step. `PutParks` and
`PutStores` are what a put task does on a full queue and on one with room;
`TakeMessage` is `get`, which wakes the putter that parked first. `app` tells
where the application's task is, so that a wakeup in progress (`woken`) differs
from a parked task (`getter`). `StreamReset` covers RST_STREAM and GOAWAY: the
stream leaves `stream_states`, later frames are ignored, tasks are left alone.
Stream 1 of an upgrade gets its one final message from the code (`final`),
while h2 still has the client's half open: DATA that follows adds messages
behind it, and the application is told more than its end. Cancellation does not
occur: nothing in `http2.py` cancels a task.

### Http2Connection

The order of messages is `Http2Body`'s subject; here a body is an amount of
data. `registered` is the key set of `stream_states`, `recv` and `send` the two
halves of each stream as h2 sees them, `task` and `senderEnded` the state of
the application. `inConn`, `inProc` and `late` split the inbound window of the
connection into what the client may still send, what h2 has been told about but
not yet given back, and what nobody acknowledged. `CreditIsDue` is h2's window
manager. `ReceiveDataFails` is an exception of `receive_data`, which the code
logs. `CloseStream` has three outcomes, because `end_stream` may raise before
the pop. The window of a single inbound stream is left out: h2 keeps it like
the connection's and the code acknowledges both in one call.

Stream 1 of an h2c upgrade is a stream that `http2.py:502-512` makes by hand.
Its client's half is open, for only RECV_HEADERS is fed to it, and it has no
`max_outbound_frame_size`. h2 sets that in `_begin_new_stream`, which is
bypassed, or for all streams when SETTINGS with a MAX_FRAME_SIZE arrive
(`SettingsReceived`). `sized` is the set of streams that have one; on another,
`SendStart` is not possible and `SendFails` is, with h2's state moved and
nothing written (`unsent`), and the 500 of `RaiseErrorStream1` fails likewise.
A send also fails on a live stream when the data does not fit the windows: the
code never waits for credit (http2.py:97, 381-383). `refused` records the
streams on which h2 refused a client that was there, `raised` those whose
application raised; the properties name the exceptions they make with these.

### Http11Connection

A segment is put into h11's buffer in one action (`DataReceived`), and the loop
of `data_received` then takes one event per action while `parsing` holds
everything else back, exactly as the synchronous loop does. `their` and `our`
are h11's states; `Done(keepAlive)` is h11's rule that a finished half becomes
MUST_CLOSE when keep-alive has been given up. `current` is the request whose
queue `receive_body_queue` is. Segments carry one or two items, so a head can
share a segment with the end of the body before it, or a preface with the
upgrade request. Limits on sizes are abstracted: `Refused` names the requests
whose head may exceed one, and the item "long" is the beginning of a head that
is already too long, which is refused at the end of the loop (`LoopEnds`). The
constants `Early`, `Patience`, `Zeros`, `Garbage` and `Failing` say what
clients and applications do: `h11_any` allows everything, and `h11_stuck` takes
the client and the applications that give the code the least trouble, a client
that waits for the whole response (`Patience` "response") and applications that
read before they answer. What it waits for is on the wire: whether the server's
task has returned is nothing a client can see.

Two histories let the properties name what the code does not manage. `left`
holds the requests whose application returned before the end of their body was
parsed; if the connection is kept alive, nobody starts the next cycle
afterwards, nor closes. An application that fails before its response is
complete has the same effect. `ReadyForNext` excepts these two cases and no
other. `client.sent` records what the client gave as reasons for an error; a
zero byte in a body is one of them, because the code takes it for one
(http11.py:176-178).

### WebSocketHeartbeat

Time is discrete, and a sleeping task is the time it has left: `pingIn` for the
ping task, `watchdog` for the one `_watchdog_task` refers to, `orphans` for
those a later ping has replaced there. `heard` is the only thing the code asks
of its two timestamps. `Tick` waits for every task that is due, as an event
loop that is not overloaded does. `silence` is a history variable: the time
since the peer was heard. `timing` is any pair the constructor accepts
(`Valid`) but an interval of 0, for which the code pings without a pause; the
command line turns 0 into None (cli.py:323-326).

When the timeout spans two intervals, a watchdog is still asleep when the
second ping after its own goes out, and it compares with the time of that one.
`ClosesOnlySilentPeers` is what the docstring says and what then fails
(`heartbeat_overlap`); `ClosesOnlyUnanswered` is what remains: whoever is given
up has not been heard since the latest ping, and with less than two intervals
was silent for the whole timeout.

### WebSocketHandler

The two classes differ in the handshake (`HandleAccept`, `HandleAccept101`) and
in what their callbacks do when the channel is not open (`Raises`, `Write`);
everything else is the same code and the same action. `ready` holds the tasks
that run to their end in one step of the event loop: `handle` up to its gather,
one per received frame, and those of a close. The application and the sender
suspend, so each of their stretches is an action. `closed` may change between
the sender's look at it and the message it waits for: that is the race
`NothingAfterClose` is about. A frame with data carries its number in place of
its payload, so `MessagesWhole` can say which fragments a message consists of
and what the client meant. `StreamFails` covers a reset stream and a window
that is used up, `ConnectionLost` a transport that is gone: no handler has a
`connection_lost`. Each step of the heartbeat is a step of the handler's:
`DataReceived` records activity, `Handle` starts it, `Cleanup` stops it,
`SendPing` and `OnPingTimeout` are its callbacks. A setting fixes the handler,
the timing of the heartbeat, and how much client and application send.

### Http3

A stream shares nothing with another but dictionaries keyed by stream id, so
one stream stands for a connection, and `kind` says which of the four it is: a
request, a WebSocket CONNECT, the CONNECT of a WebTransport session, or a
stream of such a session. `Create` is `asyncio.create_task`: a
`HeadersReceived` makes one, and so does WebTransport data after the first is
over. A second block of headers, trailers, has no `:method` or `:protocol`, so
on a WebSocket or a session as on a request it starts the task of an ordinary
request (http3.py:94-96, 118-144). Its clean-up, and `close_stream`, then pop
whatever is registered under the stream (204-212); the task "open" of a
WebSocket is the one with a handler. A parked `receive` is `waits`; `woken` and
the action `GetTimesOut` separate what `wait_for` leaves open, a timer that
fires in the very turn of the loop in which the put was made. `ended`,
`receiver` and `handler` are the code's dictionaries; `webtransport_sessions`
is left out, since nothing reads it (and nothing removes from it, 64 and 325).
aioquic's refusals (data before headers, headers a third time) are what `wire`
may not contain.

What the module shows of the code, beyond its properties: a poll that times out
in the turn of the put is told that the body is complete and loses it
(http3.py:538); a WebTransport stream of one segment with FIN is never
delivered, data before its task's first step is dropped, and nothing it sends
can go out, for no headers precede it; a WebSocket CONNECT gets no 200
(`docs/WEBSOCKETS_HTTP3.md:33` shows one), so that every frame is refused; an
application that raises in the middle of its response leaves the stream
unended; lost connections and resets never reach an application.

### Server

`at` is the main thread's place in `run`, `a_run` and the lifespan's
`shutdown`, from building the server to `exited` or `killed`. A step of the
main thread ends where another thread, a signal or the loop can come between:
`LooksForEvent` and `CreatesEvent` are two statements of `a_run`, and so are
the steps of `request_shutdown` in another thread (`SetsPending`, `ShouldExit`,
`CallSoon`). Exit events are named after the thread that makes them, for two
may be made and one is lost. `wanted` and `lifespan` are configurations, chosen
in the initial state; no listener at all may be wanted, as for HTTP/3 without
certificates, which only warns (526-531). The lifespan task is an application
that may complete, fail, raise, return early or be late at every stage.

Connections belong to a listener. The shutdown waits for those of TCP, for at
most its timeout (`ClosingEnds`, 482-485); those of QUIC get a `close()` and
half a second (`SleepEnds`, 492-495). `hurried` holds the listeners whose
connections were still there after their wait, and `LifespanOrder` excepts
exactly these. `held` is the event a thread or `a_run` has got hold of before
it uses it (365): another may take its place meanwhile.

The model shows, and the properties leave out by name: a request made in the
middle of `a_run`'s first steps can be lost (`split`); a signal before there is
an event is lost, and the second ends the process at once (`deaf`); an
application that does not know the lifespan scope and raises makes startup wait
for its 10 s and fail, while `docs/CLI.md:123` says that `auto` detects it;
when one listener fails to start the other stays open during the lifespan's
shutdown (`aborted`); a lifespan task that raises when it is cancelled leaves
the temporary key files (`crashed`).

### Workers

`process` is what the system knows of each child, `worker` the table.
`StartsWorker` and `AddsWorker` are two steps because a signal may come between
them; the handler itself never returns. `multiprocessing.Event.set` waits for
everyone who sleeps in `wait` and takes the lock a sleeper holds: when it
interrupts the main thread in `wait`, it waits for ever (`stuck`), which is the
finding of `workers_shutdown`. A worker that the monitor restarts is forked
with the parent's handler and event (155-161). `WorkerHandlesSignal` is a
signal that reaches it before its server has handlers of its own: it sets the
parent's event and dies of an assertion, because the processes in its copy of
the table are not its children. The parent's loop then ends, without
terminating anybody, and the parent waits for the other workers. `WorkersStop`
therefore starts from the parent's own handler. Left out: signals while the
interpreter exits, and signals before the handlers are set (there the default
ends the parent and orphans its workers: `killed`). `worker_process` calls
`spawn_workers` again, so that n workers start n servers each; one level of it
is what is modelled.

### Reload

A change is a number, `loaded` the one the child has read. Each started child
has a watcher thread of its own, and earlier ones may still be waiting.
`missed` marks the windows in which a change is lost: no watcher is there yet,
the event is cleared behind a child that had loaded already, or a watcher fails
with the only notice of it (`WatcherFails`, reload.py:178-179, which logs and
lets the thread end; later changes are `Unwatched`). A signal during the start
of a child only reaches it through its pipe.

### Launch

`command` is chosen in the initial state and only one of the three modules
moves. It exists so that one run checks all of what the command line may start;
the fairness of the three is stated together.

### Sessions

Requests are numbered, and a number also names the session object a request
makes and the id its response gets. That is no simplification: `is_new` is
never cleared, so every `http.response.start` makes a new id and saves, and the
branches that update, touch or delete cannot be reached (the docstring at
`middlewares/session/__init__.py:180` says "called once for new sessions
only"). The store in memory returns the object itself (`GetShared`), the one in
a database a copy with three keys of its own (`GetCopy`). `modifiable` is what
the middleware freezes after each response; a later request that gets the same
object can read it and not change it. It is a guard of the dictionary's own
methods, so `|=`, which SessionDict does not override, and a change inside a
value get round it: `ChangeFrozen` is one of these, and `thawed` records the
object. `SaveFails` is the error of the database store: `session_id` alone is
the primary key of `session_data`, so only a session of at most one key can be
saved, and none that was loaded before. `Restart` ends the process: what is in
memory is gone, the database stays.

## The runs

| Run | Configuration | Shows |
|---|---|---|
| `body_any` | `Http2Body_any` (queue 2, up to 6 messages) | `NothingLost`, `NoLostWakeup`, `ImplementsRequestBody`, `EventuallyDelivered` |
| `body_truncation` | `Http2Body_truncation` | counterexample: the last message overtakes data |
| `h2_any` | `Http2Connection_any` (two streams of any kind, one of them possibly stream 1 of an upgrade; windows of 2 for bodies of 2 each) | `RegistryExact`, `CreditConserved`, `UpgradeAnswered`, `EventuallyAnswered` |
| `h2_upgrade` | `Http2Connection_upgrade` (stream 1 alone) | counterexample to `UpgradeHandled`: h2 refuses the answer on the hand-made stream |
| `h11_any` | `Http11Connection_any` (3 requests, any client and application: pipelining, zero bytes, garbage, heads too long, early answers, failures) | `Sequential`, `ResponsesInOrder`, `CloseHonoured`, `ReadyForNext`, `NoErrorUnprovoked`, `ImplementsRequestBody` |
| `h11_stuck` | `Http11Connection_stuck` (2 requests, a client that waits for each response) | counterexample to `EventuallyAnswered`: the next request comes before the task has returned |
| `websocket_any` | `WebSocketHandler_any` (both handlers; up to 3 frames or 3 messages; no heartbeat, timeout of one interval, timeout of two) | `EventsInOrder`, `NothingAfterClose`, `MessagesWhole`, `SendsInOrder`, `PeerGivenUp`, `PeerKept`, `LossNoticed`, `CleanedUp` |
| `heartbeat_overlap` | `WebSocketHeartbeat_overlap` (interval 2, timeout 5) | counterexample to `ClosesOnlySilentPeers`: an orphaned watchdog closes a live peer |
| `http3_any` | `Http3_any` (each of the four kinds, 3 pieces of data, 2 tasks) | `WholeBody`, `StreamInOrder`, `RegistryExact`, `AnsweredOnce`, `ReceiveEnds` |
| `launch_any` | `Launch_any` (server, workers or reload; 2 signals, a thread that asks for the shutdown, 1 connection, 2 workers with restarts, 2 changes) | `LifespanOrder`, `CleanExit`, `ShutdownHeard`; `TableExact`, `WorkersStop`; `ChangeIsServed`, `StopsWhenTold` |
| `workers_shutdown` | `Workers_shutdown` (2 workers, 1 signal) | counterexample: the handler waits for the sleeper it has interrupted |
| `sessions_any` | `Sessions_any` (3 requests of 2 clients, 2 keys, 1 change round the freeze, 1 restart, either store) | `Isolation`, `ReadYourWrites` |

Each counterexample is a finding in `PROJECT.json`, with the line of the
repository that says otherwise.

### Bounds

- `Http2Body`: a queue of 2 with 4 to 6 messages has several parked tasks at
  once and parks a woken one again, which is all the code distinguishes; the
  capacity of 32 changes only how long that takes. The theorems hold for every
  capacity and length.
- `Http2Connection`: two streams, because a stream interacts with another only
  through the connection's windows and the registry; windows of 2 with frames
  of 1 let a body fill its stream's window, and two of them ask for twice what
  the connection's grants, so that sends fail for want of credit.
- `Http11Connection`: three requests let one be answered, one be in progress
  and one be buffered; two pieces of a body are enough to lose or swap one;
  `MaxOut` bounds how many pieces a response is cut into.
- `WebSocketHeartbeat`: alone it is run with the timing of
  `tests/test_websocket.py:408-416` in tenths of a second; within the handler
  with timeouts of one and of two intervals. `Horizon` only stops counting a
  silence that is longer than any the properties speak of. The theorems hold
  for every interval and timeout.
- `WebSocketHandler`: the initial state picks one of several `Settings`, each
  small in one direction: three frames from the client (a first, a middle and a
  last fragment, or fragments around a control frame), two sends of the
  application beside a frame, three sends alone, the heartbeat with one of
  each, and the handler on a stream. The accept counts as a send, so three are
  what it takes for two messages to be in an order, or for one to be written
  and one in the queue when the WebSocket is closed.
- `Http3`: three pieces of data let one be received, one be queued and one be
  late; two tasks are a request with trailers, or a WebTransport stream that is
  started again.
- `Launch`: two signals, because the second differs from the first in all three
  modules; one other thread, since `request_shutdown` from several only sets
  the same event again; one connection, of either listener, since the waits
  only ask whether there is any; two workers and four starts, so that each may
  die once; two changes, of which one may come while the child for the other is
  loading; three children, so that a watcher of the first may still wait.
- `Sessions`: three requests, so that two overlap on the session of the first
  or two clients' requests do; two keys, because the database keeps one and
  fails with the second; one change round the freeze (`MaxThaws`), which is
  enough to spoil an object. The theorems hold for any number.

Deadlock is not checked: each of these systems may come to rest (a client that
sends nothing more, applications that are done, connections that are closed).

### Fairness

- `Http2Body.FairSpec`: the event loop runs every step in `ready` (weak
  fairness: asyncio's queue is a FIFO), what the application awaits arrives,
  and the application, whenever it runs again and again, again and again calls
  `receive` (strong fairness: it may await other things in between). Nothing is
  assumed of the client.
- `Http2Connection.FairSpec`: every application gets on with its response.
  Nothing is assumed of the client or of the other streams.
- `Http11Connection.FairSpec`: the loop of `data_received` ends, and every
  application reads what is there, answers and returns. So the counterexample
  of `h11_stuck` is no application that hangs: everything has come to rest, the
  request lies in the buffer, and only more bytes would have it parsed. The
  client is under no fairness, and the property speaks only of requests it has
  completed.
- `WebSocketHandler.FairSpec`: the event loop runs its tasks and timers, and an
  application that has a disconnect to receive returns some time. Nothing is
  assumed of it before, and nothing of the client.
- `Http3.FairSpec`: the event loop runs put tasks and a task's own steps, and a
  poll's timer expires. Applications and the client are free.
- `Launch.LaunchFairness`, the fairness of the three modules: threads that run
  go on and timeouts expire; a cancelled lifespan task ends some time, which
  assumes that an application does not swallow its cancellation; the parent of
  workers, the supervisor, a child that is loading and watchers go on. Nothing
  is assumed of applications otherwise, nor of who sends signals.

## The proofs

All proofs are for every value of the constants that satisfies the named
assumption of the module (`BodyAssumption`, `ConnectionAssumption`,
`Http11Assumption`, `HandlerAssumption`, `Http3Assumption`, `ServerAssumption`,
`LaunchAssumption`, `SessionsAssumption`), which say no more than what kind of
thing each constant is; the heartbeat needs none. They are checked to the last
leaf by TLAPS. Every invariant and every action property that a passing run
checks, and the refinements of `RequestBody`, are stated by a theorem, and no
theorem assumes more than these: where the code breaks a promise, the property
names the case.

- `Http2Body_proof`. `TypeCorrect` is inductive by itself. `InOrderWhileShort`
  is not: it needs `ShortInv`, which says that as long as no more messages
  exist than the queue holds, no put task is parked, the queue continues what
  was received, and the put tasks in `ready` continue the queue in order and
  without a gap. Then the next message stored is always the next number.
  `NothingIsLost` needs `Placed`: of the four sequences `received`, `queue`,
  `putters` and `ready` exactly one holds each message, once, and `ready` holds
  the application's step exactly when `app` says so. Both together give the
  refinement `RequestsImplement`: storing is a stutter of `RequestBody`, taking
  is its `Receive`, because by `ShortInv` the head of the queue is number
  `Len(received) + 1`, or its `ReceiveAny` in a longer request, because by
  `Placed` that message was not received before. `body_truncation` shows that
  the longer requests cannot have the stronger promise. `WakeupsAreNotLost` is
  inductive with `TypeOK` and `ShortInv`; it compares the free places of the
  queue with the put tasks in `ready`, which are counted as a set of positions
  (`PutsOn`), so that what an append and a tail do to the number is a lemma
  about finite sets.
- `Http2Connection_proof`. `CreditConserved` is inductive together with types
  of the three counters; `UploadsNeverStall` follows with the fact that h2's
  processed count stays below half of the window. `RegistryExact` needs that a
  stream that is idle has no task, and that a task exists for whatever is
  registered. `TypeCorrect` needs `CreditInv` for the inbound counters, and for
  the others that a send is refused before a window would run below zero.
  `UpgradeIsAnswered` needs `AnswerInv`: a Sender has ended only after a start,
  or where nobody is left to answer, or where h2 refused it.
- `Http11Connection_proof`. The invariant `Turns` ties h11's states to the
  requests: all requests before `current` are over (task done, response ended,
  body ended), those after it have no task, and the pair of states of h11
  matches sender and task of the current one. `Sequential` and `CloseHonoured`
  follow from it. `BodiesAreDelivered` uses a second invariant: what was
  received, followed by what is queued, is 1, 2, ..., `puts`. `TypeCorrect`
  combines both with what is on the wire. `ResponsesAreInOrder` needs
  `OrderInv`: nothing on the wire belongs to a later request than the current
  one, and a Sender that ended on an open transport has its last piece there.
  `ConnectionsAreReused` needs `ReadyInv`: when the current task is done, the
  next cycle has been started, or the request is in `left` on a connection that
  is kept alive, or its application failed early. `NoErrorIsUnprovoked` needs
  `Fits`: as long as the client has given no reason for an error on the wire,
  what h11 still holds is well-formed, and every head in it is of a request
  behind the current one.
- `WebSocketHeartbeat_proof`. `SilenceIsNoticed` needs `Guarded`: while the
  peer is not heard, some watchdog is asleep that wakes up in time, and while
  it is, the next ping is near. `ActivePeersAreKept` needs `Unanswered`, that a
  peer not heard since the latest ping is silent for at least that ping's age;
  for its part about timeouts of less than two intervals, `Ages` says how old
  each watchdog's ping is, so that an orphan that wakes up after a later ping
  finds a peer that was silent before both.
- `WebSocketHandler_proof`. `Types` is the handler's part of `TypeOK` with what
  bounds the numbers. `EventsInOrder` needs `Order`: `handle()` is the first
  task of `ready` and nothing else has happened before it. `NothingAfterClose`
  needs `Silent`: once the close frame is written the channel is shut, and a
  channel that was shut is never open again (one that was failing may be, but
  it carries no close frame). `SendsAreInOrder` needs `Sequenced`: what waits
  in the send queue is numbered behind all that was written, and an accepted
  connection that is open has its 101. `MessagesAreWhole` needs `Reassembly`,
  which exhibits a number `h`: the first `h` frames with data have been
  handled, the tasks in `ready` carry the frames after them, in order and
  without a gap up to one a jammed parser has dropped (`Pending`), and
  `_message_buffer` is the run of numbers from the last delivered one to `h`,
  none of them a final frame (`Gathered`). The rules of fragmentation then say
  which frame may come next (`Fragment`), and a jammed parser has its error's
  task in `ready` (`Jams`), so that an open WebSocket with nothing ready has
  handled them all. `DrivesHeartbeat` shows that the handler implements
  `WebSocketHeartbeat`; `SilentPeersAreClosed` and `ActivePeersStayOpen` then
  follow from the theorems about the heartbeat alone, the former with
  `GivenUp`: between the watchdog's call and the close there is a task in
  `ready`.
- `Http3_proof`. `RegistryIsExact` rests on the order of tasks: one for each
  block of headers of a request or a WebSocket, and without trailers at most
  one alive, the registered one. `Registered` lets only a task that serves an
  application own a queue (`Served`), while the handler may also be that of an
  open WebSocket (`Live`): whichever of two tasks clears up first, what it
  leaves behind belongs to the other. `RequestIsAnsweredOnce` needs
  `AnswerInv`: the wire is empty before the start, and is one response after
  it. `BodyIsWhole` needs `BodyInv`: what the first task received and what lies
  in its queue is the body from its first piece to the last that has come, then
  the empty piece that ends it; and a task that waits has been woken or its
  queue is empty. A task that trailers made gets the end only.
  `StreamIsInOrder` needs `StreamInv`: the pieces of a task start with the one
  it was created for, the puts still to run continue them, those of a later
  task are all later, and as long as no piece was missed there is no gap
  between what is queued, what is on its way and what comes next.
- `Launch_proof`. `TypeCorrect` needs that an event exists wherever one is
  used: in the last step of `request_shutdown` and when a pending shutdown is
  turned into it. `ExitsAreClean` is inductive by itself, because `ended` is
  entered only from steps that have seen the end of the task.
  `LifespanIsInOrder` needs `OrderInv`: before the application has completed
  its startup nothing listens, and the shutdown message is put only after the
  steps that close each listener and wait for its connections, which are gone
  then or `hurried`, or on the way out of an exception. `LaunchedServer`
  carries both to the server the command line starts. `WorkersAreInTable` needs
  `TableInv`, also with restarted workers that handle signals: a process that
  lives outside the table is the newest and its parent is between starting and
  adding it, or was there when a signal came (`astray`), and an entry is
  overwritten only when its process is dead.
- `Sessions_proof`. `SessionsAreIsolated` needs `Ownership`: every session
  object, record and cookie belongs to one client, the one of the request that
  made it, and all that refers to one (a request to its session, a record to
  its object, a session to its keys) stays with that client. There is one lemma
  for each conjunct and one for each step that joins two of them.
  `SavedSessionsAreRead`, an action property, needs `Frozen`: in memory a sent
  response's id leads to its own object, which nobody can change any more
  unless it was `thawed`, in the database to a row that nobody writes again,
  and both are what was saved.

Only model-checked: every liveness property (`EventuallyDelivered`,
`EventuallyAnswered` of HTTP/2, `LossNoticed`, `CleanedUp`, `ReceiveEnds`,
`ShutdownHeard`, `WorkersStop`, `ChangeIsServed`, `StopsWhenTold`), because
liveness under fairness is out of the prover's reach and stays with TLC.
`Reload` promises nothing else, so no theorem is about it.

## Not modelled, and what may follow

Left out within the modelled components: applications that break the order of
ASGI messages (the Senders raise), Expect: 100-continue, HTTP/1.0, trailers of
HTTP/1.1 and HTTP/2 requests, contents of headers, memory; of the WebSockets,
close codes, text and binary, the cancellation of a handler when the server
stops, and a `ping_interval` of 0; of HTTP/3, the scopes built from headers and
a WebSocket behind its `send_frame`, which is `WebSocketHandler`'s part; of the
server, the checks in its constructor; of hot reload, which paths are watched;
of the sessions, the branches that cannot be reached, the scavenger thread (it
ends at once, for its interval is never set), the redis store (`hset(ex=)`
raises) and the mongodb store (its update conflicts with itself).

What the models also show, without a run of its own:

- data that arrives for an HTTP/2 stream after it has left `stream_states` is
  never acknowledged (`late` in `CreditConserved`);
- a response larger than what the client's window grants fails, because nothing
  waits for WINDOW_UPDATE (http2.py:97);
- an application that returns before the request's body has been parsed, or
  fails before its response is complete, leaves the HTTP/1.1 connection stuck:
  the cycle is neither restarted nor the transport closed (http11.py:380,
  excepted by `ReadyForNext`);
- a zero byte within a well-formed body is answered with 400
  (http11.py:176-178, excepted by `NoErrorUnprovoked`);
- the bytes behind an h2c upgrade stay in h11's buffer;
- pongs and close frames of a WebSocket over HTTP/1.1 may precede its 101;
- trailers on a WebSocket or WebTransport session over HTTP/3 start the
  application a second time, as for a request, and `close_stream` removes that
  task from the dictionaries (http3.py:94-96, 204-212);
- `webtransport_sessions` is only written (http3.py:325);
- HTTP/3 connections are not waited for at the shutdown, whatever its timeout
  (server.py:482-495);
- a signal to a restarted worker can end the parent's loop (workers.py:155);
- a watcher that fails is not replaced before the next child is started
  (reload.py:178);
- a session that has been sent can be changed by `|=` or inside a value
  (session/__init__.py:87-127).

`HTTP2StreamTransport` and `UpgradeStreamSender` in `http2.py` are not used by
anything.

Components without a module: `proto/auto.py` makes one choice per connection,
from ALPN or the first bytes, and only delegates after it; it is sequential and
its segmentations are tested. `proto/websocket_frames.py` parses bytes: what
its users rely on, whole frames in order, is an assumption of
`WebSocketHandler`. `app_loader.py`, `ssl_utils.py`, `extensions/tls.py`, the
proxy and header middlewares, the parsing of arguments and the small helpers
are importing, key generation and string handling around library calls, with no
state that outlives a call.

What may follow: safety facts of `Reload` that its liveness rests on (a change
that no child serves has a watcher or is `missed`), theorems about the other
two processes of `Launch` under `LaunchSpec`, and an abstract WebSocket that
`WebSocketHandler` implements, of which `EventsInOrder`, `MessagesWhole` and
`SendsInOrder` are the parts.
