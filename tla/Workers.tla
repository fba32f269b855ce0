------------------------------ MODULE Workers -----------------------------
(***************************************************************************)
(* spawn_workers (workers.py): the parent starts its workers, restarts     *)
(* those that die, and terminates all of them when it gets a signal.       *)
(*                                                                         *)
(* The signal handler runs in the main thread, between any two steps of    *)
(* the loop, and never returns: it ends in sys.exit.  What it interrupts   *)
(* matters: multiprocessing's Event.set waits for everyone who sleeps in   *)
(* Event.wait to wake up, and the one that sleeps is the main thread.      *)
(***************************************************************************)
EXTENDS Naturals, FiniteSets

CONSTANTS
    NumWorkers,  \* how many workers there are to be, two or more
    MaxStarts,   \* how many processes are started
    MaxSignals   \* how many signals the parent gets

Slots == 1..NumWorkers
Processes == 1..MaxStarts
NoProcess == 0

VARIABLES
    main,        \* where the main thread is
    slot,        \* the worker it is busy with
    worker,      \* worker_processes: the process of each worker
    process,     \* what has become of each process
    terminated,  \* processes that have been sent SIGTERM
    event,       \* shutdown_event is set
    alarms,      \* signals received
    astray       \* a signal came between a restart and its entry in the table

table == <<worker, process, terminated>>
vars == <<main, slot, table, event, alarms, astray>>

Init ==
    /\ main = "start" /\ slot = 1
    /\ worker = [i \in Slots |-> NoProcess]
    /\ process = [p \in Processes |-> "none"]
    /\ terminated = {} /\ event = FALSE /\ alarms = 0 /\ astray = FALSE

Alive(p) == p # NoProcess /\ process[p] = "alive"
Living == {p \in Processes : process[p] = "alive"}

(* Process.start() forks; the table learns of the process a step later.    *)
StartWorker(to) ==
    \E p \in Processes :
        /\ process[p] = "none" /\ \A q \in Processes : q < p => process[q] # "none"
        /\ process' = [process EXCEPT ![p] = "alive"]
        /\ main' = to

Newest == CHOOSE p \in Processes :
            process[p] # "none" /\ \A q \in Processes : q > p => process[q] = "none"

StartsWorker ==
    /\ main = "start"
    /\ StartWorker("started")
    /\ UNCHANGED <<slot, worker, terminated, event, alarms, astray>>

(* Mutant of AddsWorker: every process is entered as the first worker's.   *)
AddsFirstWorker ==
    /\ main = "started"
    /\ worker' = [worker EXCEPT ![1] = Newest]
    /\ IF slot < NumWorkers THEN slot' = slot + 1 /\ main' = "start"
       ELSE slot' = 1 /\ main' = "register"
    /\ UNCHANGED <<process, terminated, event, alarms, astray>>

AddsWorker ==
    /\ main = "started"
    /\ worker' = [worker EXCEPT ![slot] = Newest]
    /\ IF slot < NumWorkers THEN slot' = slot + 1 /\ main' = "start"
       ELSE slot' = 1 /\ main' = "register"
    /\ UNCHANGED <<process, terminated, event, alarms, astray>>

RegistersHandlers ==
    /\ main = "register"
    /\ main' = "loop"
    /\ UNCHANGED <<slot, table, event, alarms, astray>>

(* is_set() of the loop.  The handler does not come back, so that the loop *)
(* finds the event set only by a worker; it then ends, and leaves the      *)
(* other workers alone.                                                    *)
LooksAtEvent ==
    /\ main = "loop"
    /\ main' = IF event THEN "exiting" ELSE "scan"
    /\ slot' = 1
    /\ UNCHANGED <<table, event, alarms, astray>>

LooksAtWorker ==
    /\ main = "scan"
    /\ IF ~Alive(worker[slot])
       THEN main' = (IF event THEN "setting" ELSE "restart") /\ UNCHANGED slot
       ELSE IF slot < NumWorkers THEN slot' = slot + 1 /\ UNCHANGED main
       ELSE main' = "wait" /\ UNCHANGED slot
    /\ UNCHANGED <<table, event, alarms, astray>>

RestartsWorker ==
    /\ main = "restart"
    /\ StartWorker("restarted")
    /\ UNCHANGED <<slot, worker, terminated, event, alarms, astray>>

ReplacesWorker ==
    /\ main = "restarted"
    /\ worker' = [worker EXCEPT ![slot] = Newest]
    /\ main' = "scan"
    /\ UNCHANGED <<slot, process, terminated, event, alarms, astray>>

WaitEnds ==
    /\ main = "wait"
    /\ main' = "loop"
    /\ UNCHANGED <<slot, table, event, alarms, astray>>

-----------------------------------------------------------------------------
(* Before the handlers are registered a signal ends the parent.  During    *)
(* the wait, the handler's own set() waits for the wait to end; and it     *)
(* cannot get the event's lock where is_set() or another set() holds it.   *)
(* Signals while the interpreter exits are left out.                       *)
SignalArrives ==
    /\ alarms < MaxSignals /\ main \notin {"exiting", "exited", "killed"}
    /\ alarms' = alarms + 1
    /\ \/ main \in {"start", "started", "register"} /\ main' = "killed"
       \/ main \in {"wait", "loop", "setting", "stuck"} /\ main' = "stuck"
       \/ main \notin {"start", "started", "register", "wait", "stuck"} /\ main' = "setting"
    /\ astray' = (astray \/ main = "restarted")
    /\ UNCHANGED <<slot, table, event>>

SetsEvent ==
    /\ main = "setting"
    /\ main' = "terminating" /\ event' = TRUE
    /\ UNCHANGED <<slot, table, alarms, astray>>

TerminatesAll ==
    /\ main = "terminating"
    /\ terminated' = terminated \cup {p \in Living : \E i \in Slots : worker[i] = p}
    /\ main' = "joining" /\ slot' = 1
    /\ UNCHANGED <<worker, process, event, alarms, astray>>

Joins ==
    /\ main = "joining" /\ ~Alive(worker[slot])
    /\ IF slot < NumWorkers THEN slot' = slot + 1 /\ UNCHANGED main
       ELSE main' = "exiting" /\ UNCHANGED slot
    /\ UNCHANGED <<table, event, alarms, astray>>

(* Mutant of JoinTimesOut: the worker is left alone.                       *)
JoinGivesUp ==
    /\ main = "joining" /\ Alive(worker[slot])
    /\ IF slot < NumWorkers THEN slot' = slot + 1 /\ UNCHANGED main
       ELSE main' = "exiting" /\ UNCHANGED slot
    /\ UNCHANGED <<table, event, alarms, astray>>

(* After 5 s the worker is killed.                                         *)
JoinTimesOut ==
    /\ main = "joining" /\ Alive(worker[slot])
    /\ process' = [process EXCEPT ![worker[slot]] = "dead"]
    /\ UNCHANGED <<main, slot, worker, terminated, event, alarms, astray>>

(* At its end, multiprocessing joins whatever child there still is.        *)
Exits ==
    /\ main = "exiting" /\ Living = {}
    /\ main' = "exited"
    /\ UNCHANGED <<slot, table, event, alarms, astray>>

-----------------------------------------------------------------------------
WorkerDies(p) ==
    /\ process[p] = "alive"
    /\ process' = [process EXCEPT ![p] = "dead"]
    /\ UNCHANGED <<main, slot, worker, terminated, event, alarms, astray>>

(* A restarted worker is forked with the parent's handler and event.  A    *)
(* signal that reaches it while the server has not set handlers of its own *)
(* sets that event; then the handler fails, since the processes in its     *)
(* copy of the table are not its children.  Its set() waits for the lock.  *)
WorkerHandlesSignal(p) ==
    /\ process[p] = "alive" /\ p > NumWorkers /\ main # "stuck"
    /\ event' = TRUE
    /\ process' = [process EXCEPT ![p] = "dead"]
    /\ UNCHANGED <<main, slot, worker, terminated, alarms, astray>>

Parent ==
    \/ StartsWorker \/ AddsWorker \/ RegistersHandlers
    \/ LooksAtEvent \/ LooksAtWorker \/ RestartsWorker \/ ReplacesWorker \/ WaitEnds
    \/ SetsEvent \/ TerminatesAll \/ Joins \/ JoinTimesOut \/ Exits

Next == Parent \/ SignalArrives \/ \E p \in Processes : WorkerDies(p) \/ WorkerHandlesSignal(p)

(* The parent goes on.  A worker may ignore SIGTERM.                       *)
Spec == Init /\ [][Next]_vars /\ WF_vars(Parent)

-----------------------------------------------------------------------------
(* Every worker that lives is in the table, under one number, so that the  *)
(* handler finds it; unless it was just started when a signal came         *)
(* (start_worker, signal_handler).                                         *)
TableExact ==
    /\ \A i, j \in Slots : Alive(worker[i]) /\ worker[i] = worker[j] => i = j
    /\ \A p \in Living :
          (\A i \in Slots : worker[i] # p) =>
             p = Newest /\ (main \in {"started", "restarted", "killed"} \/ astray)

(* Once the handler has set its event, every worker comes to its end, also *)
(* one that ignores SIGTERM, and then the parent; unless the signal came   *)
(* in the middle of a restart, or one more in the middle of a set().  If   *)
(* a restarted worker has set the event, the parent just waits.            *)
WorkersStop == (main = "terminating" /\ ~astray) ~> main \in {"exited", "stuck"}

(* What the comment "Setup signal handlers for graceful shutdown" promises *)
(* and spawn_workers does not keep: from then on every signal ends it.     *)
GracefulShutdown ==
    (alarms > 0 /\ main \notin {"start", "started", "register", "killed"}) ~> main = "exited"

=============================================================================
