------------------------------ MODULE Server ------------------------------
(***************************************************************************)
(* A server's life (server.py): run() and a_run(), the lifespan protocol   *)
(* with its application, shutdown requests from other threads and signals. *)
(*                                                                         *)
(* The main thread runs a_run as a coroutine, so the lifespan application, *)
(* connections and scheduled callbacks run only where a_run waits.  Other  *)
(* threads run between any two of its steps, and so do signal handlers.    *)
(***************************************************************************)
EXTENDS Naturals, Sequences, FiniteSets

CONSTANTS
    Threads,     \* threads that call request_shutdown
    MaxSignals,  \* how many signals the process gets
    MaxConns     \* how many connections are accepted

Main == "a_run"
NoEvent == "none"

ASSUME ServerAssumption == MaxSignals \in Nat /\ MaxConns \in Nat /\ NoEvent \notin Threads

(* An exit event is named after the thread that has made it.               *)
Events == Threads \cup {Main}

Listeners == {"tcp", "quic"}

VARIABLES
    at,         \* where the main thread is
    wanted,     \* the listeners the configuration makes the server start
    lifespan,   \* the lifespan policy is not "disabled"
    exit,       \* _should_exit
    isSet,      \* the events that are set
    callbacks,  \* the events whose set() the loop has been asked to call
    pending,    \* _pending_shutdown
    stopping,   \* _shutdown_in_progress
    signals,    \* signals received
    caller,     \* where each thread is in request_shutdown
    held,       \* the event it has got from should_exit, and the one a_run waits for
    listening,  \* the listeners that accept
    conns,      \* connections of each listener that are open
    accepted,   \* connections there have been
    temp,       \* the certificate is in temporary files
    aborted,    \* a_run is on its way out with an exception
    hurried,    \* the listeners whose connections have had their time and are not over
    life,       \* the task of the lifespan application
    queue,      \* lifespan events it has not received
    told,       \* it has received the shutdown
    complete,   \* startup_complete
    bad,        \* startup_failed
    over,       \* shutdown_complete
    cancelled,  \* its task has been cancelled
    crashed,    \* it ended with an exception of its own when it was cancelled
    split,      \* a request_shutdown was in progress when a_run began
    deaf        \* a signal came when no loop, or no event that lasts, was there

exits == <<exit, isSet, callbacks, pending>>
asks == <<stopping, signals, caller, held, split, deaf>>
net == <<listening, conns, accepted>>
app == <<life, queue, told, complete, bad, over, cancelled, crashed>>
config == <<wanted, lifespan>>
vars == <<at, config, exits, asks, net, temp, aborted, hurried, app>>

(* HTTP/3 without certificates is skipped with a warning, so it may be that *)
(* nothing listens at all.                                                 *)
Init ==
    /\ at = "new"
    /\ wanted \in SUBSET Listeners /\ lifespan \in BOOLEAN
    /\ exit = NoEvent /\ isSet = {} /\ callbacks = {} /\ pending = FALSE
    /\ stopping = FALSE /\ signals = 0
    /\ caller = [t \in Threads |-> "idle"] /\ held = [t \in Events |-> NoEvent]
    /\ split = FALSE /\ deaf = FALSE
    /\ listening = {} /\ conns = [l \in Listeners |-> 0] /\ accepted = 0
    /\ temp = FALSE /\ aborted = FALSE /\ hurried = {}
    /\ life = "none" /\ queue = <<>> /\ told = FALSE
    /\ complete = FALSE /\ bad = FALSE /\ over = FALSE
    /\ cancelled = FALSE /\ crashed = FALSE

(* The event loop is running, and _loop says so to other threads.          *)
Before == {"new", "handlers"}
After == {"ended", "exited", "killed"}
LoopRuns == at \notin Before \cup After
(* a_run is suspended, so that the loop runs other tasks.                  *)
Waits == at \in {"startup", "bind", "http3", "serving", "closing", "quic", "shutdown", "awaiting"}

-----------------------------------------------------------------------------
(* request_shutdown, in any thread.                                        *)

RequestShutdown(t) ==
    /\ caller[t] = "idle" /\ at # "killed"
    /\ caller' = [caller EXCEPT ![t] = IF LoopRuns THEN "running" ELSE "early"]
    /\ UNCHANGED <<at, config, exits, stopping, signals, held, split, deaf, net, temp, aborted,
                   hurried, app>>

SetsPending(t) ==
    /\ caller[t] = "early"
    /\ pending' = TRUE
    /\ caller' = [caller EXCEPT ![t] = "done"]
    /\ UNCHANGED <<at, config, exit, isSet, callbacks, stopping, signals, held, split, deaf,
                   net, temp, aborted, hurried, app>>

(* The property should_exit looks whether there is an event, makes one if  *)
(* there is none, and returns what is there then.                          *)
ShouldExit(t) ==
    /\ caller[t] \in {"running", "creating", "reading"}
    /\ caller' = [caller EXCEPT ![t] = CASE @ = "reading" -> "calling"
                                         [] @ = "creating" \/ exit # NoEvent -> "reading"
                                         [] OTHER -> "creating"]
    /\ exit' = IF caller[t] = "creating" THEN t ELSE exit
    /\ held' = IF caller[t] = "reading" THEN [held EXCEPT ![t] = exit] ELSE held
    /\ UNCHANGED <<at, config, isSet, callbacks, pending, stopping, signals, split, deaf,
                   net, temp, aborted, hurried, app>>

CallSoon(t) ==
    /\ caller[t] = "calling"
    /\ callbacks' = callbacks \cup {held[t]}
    /\ caller' = [caller EXCEPT ![t] = "done"] /\ held' = [held EXCEPT ![t] = NoEvent]
    /\ UNCHANGED <<at, config, exit, isSet, pending, stopping, signals, split, deaf,
                   net, temp, aborted, hurried, app>>

Caller(t) == at # "killed" /\ (SetsPending(t) \/ ShouldExit(t) \/ CallSoon(t))

(* A signal: the default action, or the handler, between any two steps.    *)
SignalHandler ==
    /\ signals < MaxSignals /\ at \notin {"exited", "killed"}
    /\ signals' = signals + 1
    /\ at' = IF at = "new" \/ stopping THEN "killed" ELSE at
    /\ stopping' = TRUE
    /\ LET heard == exit # NoEvent /\ LoopRuns
       IN  /\ callbacks' = IF heard /\ ~stopping THEN callbacks \cup {exit} ELSE callbacks
           /\ deaf' = (deaf \/ (~heard /\ ~stopping))
    /\ UNCHANGED <<config, exit, isSet, pending, caller, held, split, net, temp, aborted, hurried, app>>

SetExit(e) ==
    /\ Waits /\ e \in callbacks
    /\ callbacks' = callbacks \ {e} /\ isSet' = isSet \cup {e}
    /\ UNCHANGED <<at, config, exit, pending, asks, net, temp, aborted, hurried, app>>

-----------------------------------------------------------------------------
(* The main thread, up to its wait for the lifespan's startup.             *)

SetupSignalHandlers ==
    /\ at = "new"
    /\ at' = "handlers"
    /\ UNCHANGED <<config, exits, asks, net, temp, aborted, hurried, app>>

Halfway == \E t \in Threads : caller[t] \in {"early", "running", "creating", "reading"}

SetsLoop ==
    /\ at = "handlers"
    /\ at' = "loop"
    /\ split' = (split \/ Halfway)
    /\ UNCHANGED <<config, exits, stopping, signals, caller, held, deaf, net, temp, aborted, hurried, app>>

LooksForEvent ==
    /\ at = "loop"
    /\ at' = IF exit = NoEvent THEN "creating" ELSE "pending"
    /\ UNCHANGED <<config, exits, asks, net, temp, aborted, hurried, app>>

CreatesEvent ==
    /\ at = "creating"
    /\ at' = "pending"
    /\ exit' = Main
    /\ split' = (split \/ Halfway \/ exit # NoEvent)
    /\ deaf' = (deaf \/ (exit # NoEvent /\ stopping))
    /\ UNCHANGED <<config, isSet, callbacks, pending, stopping, signals, caller, held,
                   net, temp, aborted, hurried, app>>

(* Mutant of Startup: the pending request is cleared and not applied.      *)
StartupForgets ==
    /\ at = "pending"
    /\ pending' = FALSE
    /\ IF lifespan
       THEN /\ at' = "startup" /\ life' = "running"
            /\ queue' = <<"startup">> /\ UNCHANGED complete
       ELSE /\ at' = "bind" /\ complete' = TRUE
            /\ UNCHANGED <<life, queue>>
    /\ UNCHANGED <<config, exit, isSet, callbacks, asks, net, temp, aborted, hurried,
                   told, bad, over, cancelled, crashed>>

(* Applies a pending request, then starts the lifespan.                    *)
Startup ==
    /\ at = "pending"
    /\ callbacks' = IF pending THEN callbacks \cup {exit} ELSE callbacks
    /\ pending' = FALSE
    /\ IF lifespan
       THEN /\ at' = "startup" /\ life' = "running"
            /\ queue' = <<"startup">> /\ UNCHANGED complete
       ELSE /\ at' = "bind" /\ complete' = TRUE
            /\ UNCHANGED <<life, queue>>
    /\ UNCHANGED <<config, exit, isSet, asks, net, temp, aborted, hurried,
                   told, bad, over, cancelled, crashed>>

-----------------------------------------------------------------------------
(* The end of a_run.  Its finally clause shuts the lifespan down, whatever *)
(* the listeners do at that time.                                          *)

Unlink == at' = "ended" /\ temp' = FALSE

LifespanShutdown ==
    IF life = "none" THEN Unlink /\ UNCHANGED queue
    ELSE at' = "shutdown" /\ queue' = Append(queue, "shutdown") /\ UNCHANGED temp

Abort == aborted' = TRUE /\ LifespanShutdown

(* wait_for may lose a completion that comes in the turn of its timeout.   *)
StartupTimesOut ==
    /\ at = "startup"
    /\ cancelled' = TRUE
    /\ Abort
    /\ UNCHANGED <<config, exits, asks, net, hurried, life, told, complete, bad, over, crashed>>

StartupCompletes ==
    /\ at = "startup" /\ complete
    /\ IF bad THEN cancelled' = TRUE /\ Abort
       ELSE at' = "bind" /\ UNCHANGED <<cancelled, aborted, queue, temp>>
    /\ UNCHANGED <<config, exits, asks, net, hurried, life, told, complete, bad, over, crashed>>

CreateServer(ok) ==
    /\ at = "bind"
    /\ IF ok \/ "tcp" \notin wanted
       THEN at' = "http3" /\ listening' = wanted \cap {"tcp"} /\ UNCHANGED <<aborted, queue, temp>>
       ELSE Abort /\ UNCHANGED listening
    /\ UNCHANGED <<config, exits, asks, conns, accepted, hurried,
                   life, told, complete, bad, over, cancelled, crashed>>

(* Certificates given as data go to files that aioquic can read.           *)
WritesCertificates ==
    /\ at = "http3" /\ "quic" \in wanted /\ ~temp
    /\ temp' = TRUE
    /\ UNCHANGED <<at, config, exits, asks, net, aborted, hurried, app>>

StartHttp3Server(ok) ==
    /\ at = "http3"
    /\ IF ok \/ "quic" \notin wanted
       THEN /\ at' = "serving" /\ listening' = listening \cup (wanted \cap {"quic"})
            /\ held' = [held EXCEPT ![Main] = exit]
            /\ UNCHANGED <<aborted, queue, temp>>
       ELSE Abort /\ UNCHANGED <<listening, held>>
    /\ UNCHANGED <<config, exits, stopping, signals, caller, split, deaf, conns, accepted, hurried,
                   life, told, complete, bad, over, cancelled, crashed>>

(* close() of the HTTP/3 server sends every connection a close.  Nobody    *)
(* waits for what their tasks still do.                                    *)
CloseHttp3 ==
    IF "quic" \in wanted
    THEN at' = "quic" /\ listening' = {} /\ UNCHANGED <<queue, temp>>
    ELSE LifespanShutdown /\ listening' = {}

HearsExit ==
    /\ at = "serving" /\ held[Main] \in isSet
    /\ IF "tcp" \in wanted
       THEN at' = "closing" /\ listening' = listening \ {"tcp"} /\ UNCHANGED <<queue, temp>>
       ELSE CloseHttp3
    /\ UNCHANGED <<config, exits, asks, conns, accepted, aborted, hurried,
                   life, told, complete, bad, over, cancelled, crashed>>

Late(l) == IF conns[l] > 0 THEN {l} ELSE {}

(* Mutant of ClosingEnds: nobody waits for the open connections.           *)
ClosingEndsAtOnce(timeout) ==
    /\ at = "closing"
    /\ CloseHttp3
    /\ hurried' = hurried \cup (IF timeout THEN Late("tcp") ELSE {})
    /\ UNCHANGED <<config, exits, asks, conns, accepted, aborted,
                   life, told, complete, bad, over, cancelled, crashed>>

(* TCP connections are waited for, up to the timeout.                      *)
ClosingEnds(timeout) ==
    /\ at = "closing"
    /\ timeout \/ conns["tcp"] = 0
    /\ CloseHttp3
    /\ hurried' = hurried \cup Late("tcp")
    /\ UNCHANGED <<config, exits, asks, conns, accepted, aborted,
                   life, told, complete, bad, over, cancelled, crashed>>

(* HTTP/3 connections have half a second, no more and no less.             *)
SleepEnds ==
    /\ at = "quic"
    /\ LifespanShutdown
    /\ hurried' = hurried \cup Late("quic")
    /\ UNCHANGED <<config, exits, asks, net, aborted,
                   life, told, complete, bad, over, cancelled, crashed>>

(* Mutant of ShutdownEnds: the task is not awaited once it has answered.   *)
ShutdownEndsEarly(timeout) ==
    /\ at = "shutdown"
    /\ timeout \/ over
    /\ IF life = "done" \/ over THEN Unlink /\ UNCHANGED cancelled
       ELSE at' = "awaiting" /\ cancelled' = TRUE /\ UNCHANGED temp
    /\ UNCHANGED <<config, exits, asks, net, aborted, hurried,
                   life, queue, told, complete, bad, over, crashed>>

(* The application has answered, or 10 s are over.                         *)
ShutdownEnds(timeout) ==
    /\ at = "shutdown"
    /\ timeout \/ over
    /\ IF life = "done" THEN Unlink /\ UNCHANGED cancelled
       ELSE at' = "awaiting" /\ cancelled' = TRUE /\ UNCHANGED temp
    /\ UNCHANGED <<config, exits, asks, net, aborted, hurried,
                   life, queue, told, complete, bad, over, crashed>>

(* An exception of the cancelled task leaves the finally clause early.     *)
TaskAwaited ==
    /\ at = "awaiting" /\ life = "done"
    /\ IF crashed THEN at' = "ended" /\ UNCHANGED temp ELSE Unlink
    /\ UNCHANGED <<config, exits, asks, net, aborted, hurried, app>>

(* run() restores the handlers and cancels the tasks that are left.        *)
RestoreSignalHandlers ==
    /\ at = "ended"
    /\ at' = "exited"
    /\ conns' = [l \in Listeners |-> 0] /\ listening' = {}
    /\ UNCHANGED <<config, exits, asks, accepted, temp, aborted, hurried, app>>

-----------------------------------------------------------------------------
Connect(l) ==
    /\ Waits /\ l \in listening /\ accepted < MaxConns
    /\ conns' = [conns EXCEPT ![l] = @ + 1] /\ accepted' = accepted + 1
    /\ UNCHANGED <<at, config, exits, asks, listening, temp, aborted, hurried, app>>

(* A connection is over with the last task that serves it.                 *)
Disconnect(l) ==
    /\ Waits /\ conns[l] > 0
    /\ conns' = [conns EXCEPT ![l] = @ - 1]
    /\ UNCHANGED <<at, config, exits, asks, listening, accepted, temp, aborted, hurried, app>>

(* The lifespan application may do as it likes.                            *)
LifespanReceive ==
    /\ Waits /\ life = "running" /\ queue # <<>>
    /\ told' = (told \/ Head(queue) = "shutdown") /\ queue' = Tail(queue)
    /\ UNCHANGED <<at, config, exits, asks, net, temp, aborted, hurried,
                   life, complete, bad, over, cancelled, crashed>>

LifespanSend(message) ==
    /\ Waits /\ life = "running"
    /\ complete' = (complete \/ message \in {"complete", "failed"})
    /\ bad' = (bad \/ message = "failed")
    /\ over' = (over \/ message = "shutdown")
    /\ UNCHANGED <<at, config, exits, asks, net, temp, aborted, hurried,
                   life, queue, told, cancelled, crashed>>

(* It returns or raises, of itself or because it was cancelled.            *)
LifespanEnds(raises) ==
    /\ Waits /\ life = "running"
    /\ life' = "done"
    /\ crashed' = (raises /\ cancelled)
    /\ UNCHANGED <<at, config, exits, asks, net, temp, aborted, hurried,
                   queue, told, complete, bad, over, cancelled>>

CancelledEnds == cancelled /\ \E raises \in BOOLEAN : LifespanEnds(raises)

-----------------------------------------------------------------------------
Timeouts == StartupTimesOut \/ ClosingEnds(TRUE) \/ ShutdownEnds(TRUE)
Run ==
    \/ SetupSignalHandlers \/ SetsLoop \/ LooksForEvent \/ CreatesEvent \/ Startup
    \/ StartupCompletes
    \/ \E ok \in BOOLEAN : CreateServer(ok) \/ StartHttp3Server(ok)
    \/ HearsExit \/ ClosingEnds(FALSE) \/ SleepEnds
    \/ ShutdownEnds(FALSE) \/ TaskAwaited \/ RestoreSignalHandlers

Callbacks == \E e \in Events : SetExit(e)
Callers == \E t \in Threads : Caller(t)

Next ==
    \/ Run \/ Timeouts \/ WritesCertificates
    \/ \E t \in Threads : RequestShutdown(t)
    \/ Callers \/ Callbacks
    \/ SignalHandler
    \/ \E l \in Listeners : Connect(l) \/ Disconnect(l)
    \/ LifespanReceive
    \/ \E message \in {"complete", "failed", "shutdown"} : LifespanSend(message)
    \/ \E raises \in BOOLEAN : LifespanEnds(raises)

Spec == Init /\ [][Next]_vars

(* The main thread, its loop and other threads go on, timeouts expire, and *)
(* an application whose task is cancelled ends some time.                  *)
Fairness ==
    /\ WF_vars(Run) /\ WF_vars(Timeouts)
    /\ WF_vars(Callbacks) /\ WF_vars(Callers) /\ WF_vars(CancelledEnds)
FairSpec == Spec /\ Fairness

-----------------------------------------------------------------------------
ServerTypeOK ==
    /\ exit \in Events \cup {NoEvent} /\ isSet \subseteq Events /\ callbacks \subseteq Events
    /\ caller \in [Threads -> {"idle", "early", "running", "creating", "reading", "calling", "done"}]
    /\ held \in [Events -> Events \cup {NoEvent}]
    /\ listening \subseteq wanted /\ conns \in [Listeners -> 0..accepted]
    /\ life \in {"none", "running", "done"}
    /\ signals \in 0..MaxSignals

(* Connections are accepted only when the application has started up, and  *)
(* the application is told to shut down only when nobody can connect any   *)
(* more and the open connections are over or have had their time: those of *)
(* TCP the shutdown timeout, those of HTTP/3, which have been sent a       *)
(* close, half a second.  When a listener fails to start, the other one is *)
(* left open (a_run).                                                      *)
LifespanOrder ==
    /\ accepted > 0 => complete
    /\ told /\ ~aborted => listening = {} /\ \A l \in Listeners : conns[l] = 0 \/ l \in hurried

(* A server that has ended has no lifespan task left, and no private key   *)
(* in a temporary file unless that task failed when it was cancelled.      *)
CleanExit == at \in {"ended", "exited"} => life # "running" /\ (temp => crashed)

(* Whoever asks the server to stop is heard, before it has started, while  *)
(* it starts up or serves: unless the request was made in the middle of    *)
(* a_run's first steps, where it may replace the event that a_run is about *)
(* to wait for, or the signal came before there was an event to set        *)
(* (request_shutdown, should_exit, _signal_handler).                       *)
ShutdownHeard ==
    /\ (\E t \in Threads : caller[t] = "done") ~> (at \in {"exited", "killed"} \/ split)
    /\ stopping ~> (at \in {"exited", "killed"} \/ deaf \/ split)

=============================================================================
