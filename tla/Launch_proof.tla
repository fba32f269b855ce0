---------------------------- MODULE Launch_proof ----------------------------
(***************************************************************************)
(* Proofs about Server, alone and started by Launch, for any threads,      *)
(* signals and connections, and about Workers for any number of them.      *)
(***************************************************************************)
EXTENDS Launch, TLAPS

(* The server's variables keep their types; in particular nothing that is  *)
(* not an event is ever set, whatever threads and signals do.              *)
TypeInv ==
    /\ ServerTypeOK
    /\ accepted \in Nat
    /\ at \notin {"new", "handlers", "loop", "creating", "killed"} => exit # NoEvent
    /\ \A t \in Threads : caller[t] = "reading" => exit # NoEvent
    /\ \A t \in Threads : caller[t] = "calling" => held[t] # NoEvent

(* For any threads, signals and connections (Server).                      *)
THEOREM TypeCorrect == Spec => []ServerTypeOK
<1>1. Init => TypeInv
  BY ServerAssumption DEF Init, TypeInv, ServerTypeOK, Events
<1>2. TypeInv /\ [Next]_vars => TypeInv'
  <2> SUFFICES ASSUME TypeInv, [Next]_vars PROVE TypeInv'
    OBVIOUS
  <2> USE ServerAssumption DEF TypeInv, ServerTypeOK, Events, exits, asks, net, app, config
  <2>1. ASSUME NEW t \in Threads, RequestShutdown(t) PROVE TypeInv'
    BY <2>1 DEF RequestShutdown
  <2>2. ASSUME NEW t \in Threads, SetsPending(t) PROVE TypeInv'
    BY <2>2 DEF SetsPending
  <2>3. ASSUME NEW t \in Threads, ShouldExit(t) PROVE TypeInv'
    <3>1. t # NoEvent
      OBVIOUS
    <3>2. CASE caller[t] = "creating"
      BY <2>3, <3>1, <3>2 DEF ShouldExit
    <3>3. CASE caller[t] = "running"
      BY <2>3, <3>3 DEF ShouldExit
    <3>4. CASE caller[t] = "reading"
      BY <2>3, <3>4 DEF ShouldExit
    <3> QED
      BY <2>3, <3>2, <3>3, <3>4 DEF ShouldExit
  <2>4. ASSUME NEW t \in Threads, CallSoon(t) PROVE TypeInv'
    BY <2>4 DEF CallSoon
  <2>5. CASE SignalHandler
    BY <2>5 DEF SignalHandler
  <2>6. ASSUME NEW e \in Events, SetExit(e) PROVE TypeInv'
    BY <2>6 DEF SetExit
  <2>7. CASE SetupSignalHandlers \/ SetsLoop \/ LooksForEvent
    BY <2>7 DEF SetupSignalHandlers, SetsLoop, LooksForEvent
  <2>8. CASE CreatesEvent
    BY <2>8 DEF CreatesEvent, Main, NoEvent
  <2>9. CASE Startup
    BY <2>9 DEF Startup
  <2>10. CASE StartupTimesOut \/ StartupCompletes
    BY <2>10 DEF StartupTimesOut, StartupCompletes, Abort, LifespanShutdown, Unlink
  <2>11. ASSUME NEW fine \in BOOLEAN, CreateServer(fine) PROVE TypeInv'
    BY <2>11 DEF CreateServer, Abort, LifespanShutdown, Unlink
  <2>12. ASSUME NEW fine \in BOOLEAN, StartHttp3Server(fine) PROVE TypeInv'
    BY <2>12 DEF StartHttp3Server, Abort, LifespanShutdown, Unlink
  <2>13. CASE WritesCertificates
    BY <2>13 DEF WritesCertificates
  <2>14. CASE HearsExit
    BY <2>14 DEF HearsExit, CloseHttp3, LifespanShutdown, Unlink
  <2>15. ASSUME NEW timeout \in BOOLEAN, ClosingEnds(timeout) PROVE TypeInv'
    BY <2>15 DEF ClosingEnds, CloseHttp3, LifespanShutdown, Unlink
  <2>16. CASE SleepEnds \/ TaskAwaited
    BY <2>16 DEF SleepEnds, TaskAwaited, LifespanShutdown, Unlink
  <2>17. ASSUME NEW timeout \in BOOLEAN, ShutdownEnds(timeout) PROVE TypeInv'
    BY <2>17 DEF ShutdownEnds, Unlink
  <2>18. CASE RestoreSignalHandlers
    BY <2>18 DEF RestoreSignalHandlers
  <2>19. ASSUME NEW l \in Listeners, Connect(l) PROVE TypeInv'
    BY <2>19 DEF Connect
  <2>20. ASSUME NEW l \in Listeners, Disconnect(l) PROVE TypeInv'
    BY <2>20 DEF Disconnect
  <2>21. CASE LifespanReceive
    BY <2>21 DEF LifespanReceive
  <2>22. ASSUME NEW said, LifespanSend(said) PROVE TypeInv'
    BY <2>22 DEF LifespanSend
  <2>23. ASSUME NEW raises \in BOOLEAN, LifespanEnds(raises) PROVE TypeInv'
    BY <2>23 DEF LifespanEnds
  <2>24. CASE UNCHANGED vars
    BY <2>24 DEF vars
  <2> QED
    BY <2>1, <2>2, <2>3, <2>4, <2>5, <2>6, <2>7, <2>8, <2>9, <2>10, <2>11, <2>12, <2>13, <2>14,
       <2>15, <2>16, <2>17, <2>18, <2>19, <2>20, <2>21, <2>22, <2>23, <2>24
    DEF Next, Run, Timeouts, Callers, Caller, Callbacks
<1> QED
  BY <1>1, <1>2, PTL DEF Spec, TypeInv

-----------------------------------------------------------------------------
(* However a server ends, its lifespan task has ended before, and no       *)
(* private key stays in a file unless that task failed when it was         *)
(* cancelled (a_run's finally clause, shutdown).                           *)
THEOREM ExitsAreClean == Spec => []CleanExit
<1>1. Init => CleanExit
  BY DEF Init, CleanExit
<1>2. CleanExit /\ [Next]_vars => CleanExit'
  <2> SUFFICES ASSUME CleanExit, [Next]_vars PROVE CleanExit'
    OBVIOUS
  <2> USE DEF CleanExit, exits, asks, net, app, config
  <2>1. ASSUME NEW t \in Threads, RequestShutdown(t) \/ Caller(t) PROVE CleanExit'
    BY <2>1 DEF RequestShutdown, Caller, SetsPending, ShouldExit, CallSoon
  <2>2. CASE SignalHandler
    BY <2>2 DEF SignalHandler
  <2>3. CASE Callbacks \/ SetupSignalHandlers \/ SetsLoop \/ LooksForEvent \/ CreatesEvent
    BY <2>3 DEF Callbacks, SetExit, SetupSignalHandlers, SetsLoop, LooksForEvent, CreatesEvent
  <2>4. CASE Startup
    BY <2>4 DEF Startup
  <2>5. CASE StartupTimesOut \/ StartupCompletes
    BY <2>5 DEF StartupTimesOut, StartupCompletes, Abort, LifespanShutdown, Unlink
  <2>6. ASSUME NEW fine \in BOOLEAN, CreateServer(fine) \/ StartHttp3Server(fine) PROVE CleanExit'
    BY <2>6 DEF CreateServer, StartHttp3Server, Abort, LifespanShutdown, Unlink
  <2>7. CASE WritesCertificates
    BY <2>7 DEF WritesCertificates
  <2>8. CASE HearsExit \/ SleepEnds \/ TaskAwaited
    BY <2>8 DEF HearsExit, SleepEnds, TaskAwaited, CloseHttp3, LifespanShutdown, Unlink
  <2>9. ASSUME NEW timeout \in BOOLEAN, ClosingEnds(timeout) \/ ShutdownEnds(timeout)
        PROVE  CleanExit'
    BY <2>9 DEF ClosingEnds, ShutdownEnds, CloseHttp3, LifespanShutdown, Unlink
  <2>10. CASE RestoreSignalHandlers
    BY <2>10 DEF RestoreSignalHandlers
  <2>11. CASE LifespanReceive \/ \E l \in Listeners : Connect(l) \/ Disconnect(l)
    BY <2>11 DEF Connect, Disconnect, LifespanReceive
  <2>12. ASSUME NEW said, LifespanSend(said) PROVE CleanExit'
    BY <2>12 DEF LifespanSend
  <2>13. ASSUME NEW raises \in BOOLEAN, LifespanEnds(raises) PROVE CleanExit'
    BY <2>13 DEF LifespanEnds, Waits
  <2>14. CASE UNCHANGED vars
    BY <2>14 DEF vars
  <2> QED
    BY <2>1, <2>2, <2>3, <2>4, <2>5, <2>6, <2>7, <2>8, <2>9, <2>10, <2>11, <2>12, <2>13, <2>14
    DEF Next, Run, Timeouts, Callers
<1> QED
  BY <1>1, <1>2, PTL DEF Spec

-----------------------------------------------------------------------------
(* When the application may have been told to shut down, and what then is  *)
(* true of the listeners.                                                  *)
Serving == {"bind", "http3", "serving", "closing", "quic"}
Leaving == {"shutdown", "awaiting", "ended", "exited"}
Queued == \E i \in DOMAIN queue : queue[i] = "shutdown"
Over(l) == conns[l] = 0 \/ l \in hurried
Closed == listening = {} /\ Over("tcp") /\ Over("quic")

OrderInv ==
    /\ queue \in Seq({"startup", "shutdown"})
    /\ wanted \subseteq Listeners /\ conns \in [Listeners -> Nat] /\ accepted \in Nat
    /\ at \in Serving \/ listening # {} \/ accepted > 0 => complete
    /\ told \/ Queued => at \in Leaving \cup {"killed"}
    /\ at \in Leaving \/ told \/ Queued => aborted \/ Closed
    /\ at = "closing" => "tcp" \notin listening
    /\ at = "quic" => listening = {} /\ Over("tcp")
    /\ \A l \in Listeners : l \notin wanted => conns[l] = 0
    /\ at \in {"new", "handlers", "loop", "creating", "pending", "startup", "bind"} => listening = {}
    /\ listening \subseteq wanted

(* What is queued after an event has been added to the queue or taken.     *)
LEMMA QueuedAfterAppend ==
    ASSUME NEW q \in Seq({"startup", "shutdown"})
    PROVE  /\ Append(q, "shutdown") \in Seq({"startup", "shutdown"})
           /\ q # <<>> => /\ Tail(q) \in Seq({"startup", "shutdown"})
                          /\ (\E i \in DOMAIN Tail(q) : Tail(q)[i] = "shutdown")
                                => \E i \in DOMAIN q : q[i] = "shutdown"
                          /\ Head(q) = "shutdown" => \E i \in DOMAIN q : q[i] = "shutdown"
<1>1. Append(q, "shutdown") \in Seq({"startup", "shutdown"})
  OBVIOUS
<1>2. ASSUME q # <<>>
      PROVE  /\ Tail(q) \in Seq({"startup", "shutdown"})
             /\ \A i \in DOMAIN Tail(q) : i + 1 \in DOMAIN q /\ Tail(q)[i] = q[i + 1]
             /\ 1 \in DOMAIN q /\ Head(q) = q[1]
  BY <1>2
<1> QED
  BY <1>1, <1>2

(* The way into the lifespan's shutdown: with no lifespan task the server  *)
(* ends at once.                                                           *)
LEMMA LifespanShutdownLeaves ==
    ASSUME OrderInv, LifespanShutdown
    PROVE  /\ at' \in Leaving
           /\ queue' \in Seq({"startup", "shutdown"})
BY QueuedAfterAppend DEF OrderInv, LifespanShutdown, Unlink, Leaving

LEMMA OrderInvInit == Init => OrderInv
BY DEF Init, OrderInv, Queued, Serving, Leaving, Listeners

(* Steps of the callers, of signals and of a_run before the lifespan.      *)
Starting == {"new", "handlers", "loop", "creating", "pending"}
LEMMA OrderInvKept ==
    ASSUME OrderInv,
           UNCHANGED <<queue, told, wanted, conns, accepted, listening, aborted, hurried,
                       complete>>,
           at' = at \/ at' = "killed" \/ (at \in Starting /\ at' \in Starting)
    PROVE  OrderInv'
BY DEF OrderInv, Queued, Closed, Over, Serving, Leaving, Starting

LEMMA OrderInvNext == OrderInv /\ [Next]_vars => OrderInv'
<1> SUFFICES ASSUME OrderInv, [Next]_vars PROVE OrderInv'
  OBVIOUS
<1> USE DEF exits, asks, net, app, config, Serving, Leaving, Closed, Over, Late, Listeners, Queued
<1>1. ASSUME NEW t \in Threads, RequestShutdown(t) \/ Caller(t) PROVE OrderInv'
  <2>1. CASE RequestShutdown(t)
    BY <2>1, OrderInvKept DEF RequestShutdown
  <2>2. CASE SetsPending(t)
    BY <2>2, OrderInvKept DEF SetsPending
  <2>3. CASE ShouldExit(t)
    BY <2>3, OrderInvKept DEF ShouldExit
  <2>4. CASE CallSoon(t)
    BY <2>4, OrderInvKept DEF CallSoon
  <2> QED
    BY <1>1, <2>1, <2>2, <2>3, <2>4 DEF Caller
<1>2. CASE SignalHandler
  BY <1>2, OrderInvKept DEF SignalHandler
<1>3. CASE Callbacks \/ SetupSignalHandlers \/ SetsLoop \/ LooksForEvent \/ CreatesEvent
  <2> USE DEF Starting
  <2>1. CASE Callbacks
    BY <2>1, OrderInvKept DEF Callbacks, SetExit
  <2>2. CASE SetupSignalHandlers
    BY <2>2, OrderInvKept DEF SetupSignalHandlers
  <2>3. CASE SetsLoop
    BY <2>3, OrderInvKept DEF SetsLoop
  <2>4. CASE LooksForEvent
    BY <2>4, OrderInvKept DEF LooksForEvent
  <2>5. CASE CreatesEvent
    BY <2>5, OrderInvKept DEF CreatesEvent
  <2> QED
    BY <1>3, <2>1, <2>2, <2>3, <2>4, <2>5
<1>4. CASE Startup
  <2>1. CASE lifespan
    <3>1. queue' = <<"startup">> /\ at' = "startup" /\ complete' = complete
      BY <1>4, <2>1 DEF Startup
    <3>2. queue' \in Seq({"startup", "shutdown"}) /\ \A i \in DOMAIN queue' : queue'[i] = "startup"
      BY <3>1
    <3> QED
      BY <1>4, <3>1, <3>2 DEF OrderInv, Startup
  <2>2. CASE ~lifespan
    BY <1>4, <2>2 DEF OrderInv, Startup
  <2> QED
    BY <2>1, <2>2
<1>5. CASE StartupTimesOut \/ StartupCompletes
  <2>1. CASE Abort
    <3>1. at' \in Leaving /\ queue' \in Seq({"startup", "shutdown"})
      BY <2>1, LifespanShutdownLeaves DEF Abort
    <3> QED
      BY <1>5, <2>1, <3>1 DEF OrderInv, StartupTimesOut, StartupCompletes, Abort
  <2>2. CASE /\ StartupCompletes /\ ~bad
    BY <2>2 DEF OrderInv, StartupCompletes
  <2> QED
    BY <1>5, <2>1, <2>2 DEF StartupTimesOut, StartupCompletes
<1>6. ASSUME NEW fine \in BOOLEAN, CreateServer(fine) \/ StartHttp3Server(fine) PROVE OrderInv'
  <2>1. CASE Abort /\ UNCHANGED listening
    <3>1. at' \in Leaving /\ queue' \in Seq({"startup", "shutdown"})
      BY <2>1, LifespanShutdownLeaves DEF Abort
    <3> QED
      BY <1>6, <2>1, <3>1 DEF OrderInv, CreateServer, StartHttp3Server, Abort
  <2>2. CASE CreateServer(fine) /\ at' = "http3" /\ listening' = wanted \cap {"tcp"}
             /\ UNCHANGED <<aborted, queue>>
    BY <2>2 DEF OrderInv, CreateServer
  <2>3. CASE StartHttp3Server(fine) /\ at' = "serving" /\ listening' = listening \cup (wanted \cap {"quic"})
             /\ UNCHANGED <<aborted, queue>>
    BY <2>3 DEF OrderInv, StartHttp3Server
  <2> QED
    BY <1>6, <2>1, <2>2, <2>3 DEF CreateServer, StartHttp3Server
<1>7. CASE WritesCertificates
  BY <1>7 DEF OrderInv, WritesCertificates
<1>8. CASE HearsExit
  <2>1. CASE "tcp" \in wanted
    BY <1>8, <2>1 DEF OrderInv, HearsExit
  <2>2. CASE "tcp" \notin wanted /\ "quic" \in wanted
    BY <1>8, <2>2 DEF OrderInv, HearsExit, CloseHttp3
  <2>3. CASE "tcp" \notin wanted /\ "quic" \notin wanted
    <3>1. LifespanShutdown /\ listening' = {}
      BY <1>8, <2>3 DEF HearsExit, CloseHttp3
    <3>2. at' \in Leaving /\ queue' \in Seq({"startup", "shutdown"})
      BY <3>1, LifespanShutdownLeaves
    <3> QED
      BY <1>8, <2>3, <3>1, <3>2 DEF OrderInv, HearsExit
  <2> QED
    BY <2>1, <2>2, <2>3
<1>9. ASSUME NEW timeout \in BOOLEAN, ClosingEnds(timeout) PROVE OrderInv'
  <2>1. CASE "quic" \in wanted
    BY <1>9, <2>1 DEF OrderInv, ClosingEnds, CloseHttp3
  <2>2. CASE "quic" \notin wanted
    <3>1. LifespanShutdown /\ listening' = {}
      BY <1>9, <2>2 DEF ClosingEnds, CloseHttp3
    <3>2. at' \in Leaving /\ queue' \in Seq({"startup", "shutdown"})
      BY <3>1, LifespanShutdownLeaves
    <3> QED
      BY <1>9, <2>2, <3>1, <3>2 DEF OrderInv, ClosingEnds
  <2> QED
    BY <2>1, <2>2
<1>10. CASE SleepEnds
  <2>1. at' \in Leaving /\ queue' \in Seq({"startup", "shutdown"})
    BY <1>10, LifespanShutdownLeaves DEF SleepEnds
  <2> QED
    BY <1>10, <2>1 DEF OrderInv, SleepEnds
<1>11. ASSUME NEW timeout \in BOOLEAN, ShutdownEnds(timeout) PROVE OrderInv'
  BY <1>11 DEF OrderInv, ShutdownEnds, Unlink
<1>12. CASE TaskAwaited \/ RestoreSignalHandlers
  <2>1. CASE TaskAwaited
    BY <2>1 DEF OrderInv, TaskAwaited, Unlink
  <2>2. CASE RestoreSignalHandlers
    BY <2>2 DEF OrderInv, RestoreSignalHandlers
  <2> QED
    BY <1>12, <2>1, <2>2
<1>13. ASSUME NEW l \in Listeners, Connect(l) \/ Disconnect(l) PROVE OrderInv'
  <2>1. CASE Connect(l)
    <3>1. conns' \in [Listeners -> Nat] /\ accepted' \in Nat /\ l \in wanted
      BY <2>1 DEF OrderInv, Connect
    <3>2. complete /\ listening # {}
      BY <2>1 DEF OrderInv, Connect
    <3>3. ~Closed /\ (at \in Leaving \/ told \/ Queued => aborted)
      BY <3>2 DEF OrderInv
    <3> QED
      BY <2>1, <3>1, <3>2, <3>3 DEF OrderInv, Connect
  <2>2. CASE Disconnect(l)
    BY <2>2 DEF OrderInv, Disconnect
  <2> QED
    BY <1>13, <2>1, <2>2
<1>14. CASE LifespanReceive
  BY <1>14, QueuedAfterAppend DEF OrderInv, LifespanReceive
<1>15. ASSUME NEW said, LifespanSend(said) PROVE OrderInv'
  BY <1>15 DEF OrderInv, LifespanSend
<1>16. ASSUME NEW raises \in BOOLEAN, LifespanEnds(raises) PROVE OrderInv'
  BY <1>16 DEF OrderInv, LifespanEnds
<1>17. CASE UNCHANGED vars
  BY <1>17 DEF OrderInv, vars
<1> QED
  BY <1>1, <1>2, <1>3, <1>4, <1>5, <1>6, <1>7, <1>8, <1>9, <1>10, <1>11, <1>12, <1>13, <1>14,
     <1>15, <1>16, <1>17
  DEF Next, Run, Timeouts, Callers

(* Connections are accepted only after the application's startup, and it   *)
(* is told to shut down only when nobody can connect and the connections   *)
(* are over or have had their time, in every order of threads, signals,    *)
(* timeouts and failures (a_run, startup, shutdown).                       *)
THEOREM LifespanIsInOrder == Spec => []LifespanOrder
<1>1. OrderInv => LifespanOrder
  BY DEF OrderInv, LifespanOrder, Closed, Over, Listeners
<1> QED
  BY <1>1, OrderInvInit, OrderInvNext, PTL DEF Spec

(* The command line adds nothing to what its server does.                  *)
LEMMA LaunchedServer == LaunchSpec => Spec
<1>1. LaunchInit => Init
  BY DEF LaunchInit
<1>2. [LaunchNext]_launchVars => [Next]_vars
  BY DEF LaunchNext, launchVars, Serves, Spawns, Reloads
<1> QED
  BY <1>1, <1>2, PTL DEF LaunchSpec, Spec

(* Connections are accepted only after the startup, and the application is *)
(* told to shut down only afterwards, in whatever the command line starts  *)
(* (main, a_run).                                                          *)
THEOREM LaunchKeepsOrder == LaunchSpec => []LifespanOrder
BY LaunchedServer, LifespanIsInOrder, PTL

(* However a server ends, its lifespan task has ended before, in whatever  *)
(* the command line starts (main, a_run).                                  *)
THEOREM LaunchExitsAreClean == LaunchSpec => []CleanExit
BY LaunchedServer, ExitsAreClean, PTL

-----------------------------------------------------------------------------
(* Workers.                                                                *)
Slots == 1..NumWorkers
Processes == 1..MaxStarts

LEMMA WorkerNumbers ==
    /\ NumWorkers \in Nat /\ 1 \in Slots /\ Slots \subseteq Nat /\ Processes \subseteq Nat
    /\ W!Slots = Slots /\ W!Processes = Processes /\ W!NoProcess = 0 /\ 0 \notin Processes
BY LaunchAssumption DEF Slots, Processes, W!Slots, W!Processes, W!NoProcess

WorkerTypes ==
    /\ slot \in Slots
    /\ worker \in [Slots -> Processes \cup {0}]
    /\ process \in [Processes -> {"none", "alive", "dead"}]

(* Processes are started in order; the newest is the last one started.     *)
InOrder == \A p, q \in Processes : q < p /\ process[p] # "none" => process[q] # "none"
IsNewest(p) == process[p] # "none" /\ \A q \in Processes : p < q => process[q] = "none"

(* The table has no process twice.  A process is outside it only while it  *)
(* is being started, or if a signal came at that moment; and an entry is   *)
(* overwritten only if there is no living process in it.                   *)
TableInv ==
    /\ WorkerTypes /\ InOrder
    /\ \A i \in Slots : worker[i] # 0 => process[worker[i]] # "none"
    /\ \A i, j \in Slots : worker[i] # 0 /\ worker[i] = worker[j] => i = j
    /\ \A p \in Processes :
          process[p] = "alive" /\ (\A i \in Slots : worker[i] # p) =>
             IsNewest(p) /\ (main \in {"started", "restarted", "killed"} \/ astray)
    /\ main \in {"started", "restarted"} =>
          \E p \in Processes : IsNewest(p) /\ \A i \in Slots : worker[i] # p
    /\ main \in {"start", "started"} => \A i \in Slots : slot <= i => worker[i] = 0
    /\ main \in {"restart", "restarted"} => worker[slot] = 0 \/ process[worker[slot]] # "alive"
    /\ astray => main \in {"setting", "terminating", "joining", "exiting", "exited", "stuck"}

LEMMA NewestIsLast ==
    ASSUME WorkerTypes, NEW p \in Processes, IsNewest(p)
    PROVE  W!Newest = p
<1> DEFINE P(x) == process[x] # "none" /\ \A q \in Processes : q > x => process[q] = "none"
<1>1. P(p)
  BY WorkerNumbers DEF IsNewest
<1>2. \A x \in Processes : P(x) => x = p
  BY WorkerNumbers DEF IsNewest
<1>3. W!Newest = CHOOSE x \in Processes : P(x)
  BY WorkerNumbers DEF W!Newest
<1> HIDE DEF P
<1> QED
  BY <1>1, <1>2, <1>3

LEMMA TableInvInit == LaunchInit => TableInv
BY WorkerNumbers DEF LaunchInit, W!Init, TableInv, WorkerTypes, InOrder, IsNewest

(* A process is started, for a slot in which nothing lives.                *)
LEMMA TableStarts ==
    ASSUME TableInv, NEW to \in {"started", "restarted"}, W!StartWorker(to),
           \/ main = "start" /\ to = "started"
           \/ main = "restart" /\ to = "restarted",
           UNCHANGED <<slot, worker, astray>>
    PROVE  TableInv'
<1> USE WorkerNumbers
<1>1. PICK p \in Processes :
        /\ process[p] = "none" /\ \A q \in Processes : q < p => process[q] # "none"
        /\ process' = [process EXCEPT ![p] = "alive"] /\ main' = to
  BY DEF W!StartWorker
<1>2. /\ WorkerTypes /\ InOrder /\ ~astray
      /\ \A i \in Slots : worker[i] # p
      /\ \A q \in Processes : process[q] = "alive" => \E i \in Slots : worker[i] = q
  BY <1>1 DEF TableInv
<1>3. WorkerTypes'
  BY <1>1, <1>2 DEF WorkerTypes
<1>4. /\ process'[p] = "alive" /\ \A q \in Processes : q # p => process'[q] = process[q]
  BY <1>1, <1>2 DEF WorkerTypes
<1>5. \A q \in Processes : p < q => process[q] = "none"
  BY <1>1, <1>2 DEF InOrder
<1>6. InOrder'
  BY <1>1, <1>2, <1>4, <1>5 DEF InOrder
<1>7. IsNewest(p)'
  BY <1>4, <1>5 DEF IsNewest
<1> QED
  BY <1>1, <1>2, <1>3, <1>4, <1>6, <1>7 DEF TableInv, WorkerTypes

(* Its entry into the table.                                               *)
LEMMA TableEnters ==
    ASSUME TableInv, main \in {"started", "restarted"},
           worker' = [worker EXCEPT ![slot] = W!Newest],
           UNCHANGED <<process, astray>>,
           slot' \in Slots,
           \/ main' = "start" /\ main = "started" /\ slot' = slot + 1
           \/ main' \in {"register", "scan"}
    PROVE  TableInv'
<1> USE WorkerNumbers
<1>1. PICK p \in Processes : IsNewest(p) /\ \A i \in Slots : worker[i] # p
  BY DEF TableInv
<1>2. W!Newest = p
  BY <1>1, NewestIsLast DEF TableInv
<1>3. /\ WorkerTypes /\ InOrder /\ ~astray /\ slot \in Slots
  BY DEF TableInv, WorkerTypes
<1>4. worker'[slot] = p /\ \A i \in Slots : i # slot => worker'[i] = worker[i]
  BY <1>2, <1>3 DEF WorkerTypes
<1>5. WorkerTypes' /\ InOrder'
  BY <1>2, <1>3 DEF WorkerTypes, InOrder
<1>6. worker[slot] = 0 \/ process[worker[slot]] # "alive"
  BY <1>3 DEF TableInv
<1>7. /\ \A i \in Slots : worker'[i] # 0 => process[worker'[i]] # "none"
      /\ \A i, j \in Slots : worker'[i] # 0 /\ worker'[i] = worker'[j] => i = j
  BY <1>1, <1>4 DEF TableInv, IsNewest
<1>8. ASSUME NEW q \in Processes, process[q] = "alive" PROVE \E i \in Slots : worker'[i] = q
  <2>1. CASE q = p
    BY <1>3, <1>4, <2>1
  <2>2. CASE q # p
    <3>1. ~IsNewest(q)
      BY <1>1, <2>2 DEF IsNewest
    <3>2. PICK i \in Slots : worker[i] = q
      BY <1>8, <3>1 DEF TableInv
    <3> QED
      BY <1>4, <1>6, <1>8, <3>2
  <2> QED
    BY <2>1, <2>2
<1>9. main' = "start" => \A i \in Slots : slot' <= i => worker'[i] = 0
  <2> SUFFICES ASSUME main' = "start", NEW i \in Slots, slot' <= i PROVE worker'[i] = 0
    OBVIOUS
  <2>1. slot <= i /\ i # slot
    BY <1>3
  <2> QED
    BY <1>4, <2>1 DEF TableInv
<1> QED
  BY <1>3, <1>5, <1>7, <1>8, <1>9 DEF TableInv

(* A worker dies or is killed.                                             *)
LEMMA TableLoses ==
    ASSUME TableInv, NEW p \in Processes, process[p] = "alive",
           process' = [process EXCEPT ![p] = "dead"],
           UNCHANGED <<main, slot, worker, astray>>
    PROVE  TableInv'
<1>1. /\ \A q \in Processes : /\ process'[q] = "none" <=> process[q] = "none"
                              /\ process'[q] = "alive" => process[q] = "alive"
      /\ WorkerTypes'
  BY DEF TableInv, WorkerTypes
<1>2. \A q \in Processes : IsNewest(q)' <=> IsNewest(q)
  BY <1>1 DEF IsNewest
<1>3. InOrder'
  BY <1>1 DEF TableInv, InOrder
<1>4. \A i \in Slots : worker[i] # 0 => worker[i] \in Processes
  BY DEF TableInv, WorkerTypes
<1> QED
  BY <1>1, <1>2, <1>3, <1>4 DEF TableInv, WorkerTypes

(* Steps that move the parent alone.                                       *)
LEMMA TableKept ==
    ASSUME TableInv, UNCHANGED <<worker, process>>, slot' \in Slots,
           main' \notin {"start", "started", "restarted"},
           main' = "restart" => worker[slot'] = 0 \/ process[worker[slot']] # "alive",
           main \in {"started", "restarted"} => main' = "killed" \/ astray',
           main = "killed" => main' = "killed",
           astray => astray',
           astray' => main' \in {"setting", "terminating", "joining", "exiting", "exited", "stuck"}
    PROVE  TableInv'
<1>1. WorkerTypes' /\ InOrder'
  BY DEF TableInv, WorkerTypes, InOrder
<1>2. \A p \in Processes : IsNewest(p)' <=> IsNewest(p)
  BY DEF IsNewest
<1>3. main \in {"started", "restarted", "killed"} \/ astray => main' = "killed" \/ astray'
  OBVIOUS
<1> QED
  BY <1>1, <1>2, <1>3 DEF TableInv

LEMMA TableInvStep == TableInv /\ [LaunchNext]_launchVars => TableInv'
<1> SUFFICES ASSUME TableInv, W!Next \/ UNCHANGED <<main, slot, worker, process, astray>>
             PROVE  TableInv'
  BY DEF LaunchNext, launchVars, workers, Serves, Spawns, Reloads
<1> USE WorkerNumbers DEF W!table
<1>1. /\ slot \in Slots /\ WorkerTypes
      /\ astray => main \in {"setting", "terminating", "joining", "exiting", "exited", "stuck"}
  BY DEF TableInv, WorkerTypes
<1>2. slot < NumWorkers => slot + 1 \in Slots
  BY <1>1, LaunchAssumption DEF Slots
<1>3. CASE W!StartsWorker
  BY <1>3, TableStarts DEF W!StartsWorker
<1>4. CASE W!RestartsWorker
  BY <1>4, TableStarts DEF W!RestartsWorker
<1>5. CASE W!AddsWorker
  BY <1>1, <1>2, <1>5, TableEnters DEF W!AddsWorker
<1>6. CASE W!ReplacesWorker
  BY <1>1, <1>6, TableEnters DEF W!ReplacesWorker
<1>7. CASE W!RegistersHandlers \/ W!LooksAtEvent \/ W!WaitEnds
  BY <1>1, <1>7, TableKept DEF W!RegistersHandlers, W!LooksAtEvent, W!WaitEnds
<1>8. CASE W!LooksAtWorker
  <2>1. ~W!Alive(worker[slot]) => worker[slot] = 0 \/ process[worker[slot]] # "alive"
    BY DEF W!Alive
  <2> QED
    BY <1>1, <1>2, <1>8, <2>1, TableKept DEF W!LooksAtWorker
<1>9. CASE W!SetsEvent \/ W!TerminatesAll \/ W!Joins \/ W!Exits
  BY <1>1, <1>2, <1>9, TableKept DEF W!SetsEvent, W!TerminatesAll, W!Joins, W!Exits
<1>10. CASE W!JoinTimesOut
  <2>1. worker[slot] \in Processes /\ process[worker[slot]] = "alive"
    BY <1>1, <1>10 DEF W!JoinTimesOut, W!Alive, WorkerTypes
  <2> QED
    BY <1>10, <2>1, TableLoses DEF W!JoinTimesOut
<1>11. CASE W!SignalArrives
  BY <1>1, <1>11, TableKept DEF W!SignalArrives
<1>12. ASSUME NEW p \in Processes, W!WorkerDies(p) PROVE TableInv'
  BY <1>12, TableLoses DEF W!WorkerDies
<1>13. ASSUME NEW p \in Processes, W!WorkerHandlesSignal(p) PROVE TableInv'
  BY <1>13, TableLoses DEF W!WorkerHandlesSignal
<1>14. CASE UNCHANGED <<main, slot, worker, process, astray>>
  BY <1>14 DEF TableInv, WorkerTypes, InOrder, IsNewest
<1> QED
  BY <1>3, <1>4, <1>5, <1>6, <1>7, <1>8, <1>9, <1>10, <1>11, <1>12, <1>13, <1>14
     DEF W!Next, W!Parent

(* For any number of workers, restarts and signals: every worker that      *)
(* lives is in the table, under one number, so that the signal handler     *)
(* finds it; unless it was just started when a signal came (start_worker,  *)
(* signal_handler).                                                        *)
THEOREM WorkersAreInTable == LaunchSpec => []TableExact
<1>1. TableInv => TableExact
  <2> SUFFICES ASSUME TableInv PROVE W!TableExact
    BY DEF TableExact
  <2>1. \A p \in Processes : IsNewest(p) => W!Newest = p
    BY NewestIsLast DEF TableInv
  <2> QED
    BY <2>1, WorkerNumbers DEF TableInv, W!TableExact, W!Alive, W!Living
<1> QED
  BY <1>1, TableInvInit, TableInvStep, PTL DEF LaunchSpec

=============================================================================
