------------------------------ MODULE Launch ------------------------------
(***************************************************************************)
(* What the command line starts (cli.py, main): the reload supervisor, a   *)
(* number of workers, or, for one worker, the server in this process.  A   *)
(* worker is started by spawn_workers with a function that calls it again, *)
(* and a reloaded child runs a server: each of those processes behaves as  *)
(* the module of its own kind says, so one of each is enough here.         *)
(***************************************************************************)
EXTENDS Server

CONSTANTS NumWorkers, MaxStarts, MaxRestarts, MaxChanges, MaxChildren, MaxAlarms

ASSUME LaunchAssumption == NumWorkers \in Nat \ {0} /\ MaxStarts \in Nat

VARIABLES
    command,  \* what has been started
    main, slot, worker, process, terminated, event, alarms, astray,
    step, child, state, ok, message, begun, source, loaded, watcher, reload,
    failures, requested, rings, missed

W == INSTANCE Workers
R == INSTANCE Reload

workers == <<main, slot, worker, process, terminated, event, alarms, astray>>
reloader == <<step, child, state, ok, message, begun, source, loaded, watcher, reload,
              failures, requested, rings, missed>>
launchVars == <<command, vars, workers, reloader>>

LaunchInit ==
    /\ command \in {"server", "workers", "reload"}
    /\ Init /\ (command = "server" \/ (wanted = {"tcp"} /\ ~lifespan))
    /\ W!Init
    /\ R!Init

Serves(A) == command = "server" /\ A /\ UNCHANGED <<command, workers, reloader>>
Spawns(A) == command = "workers" /\ A /\ UNCHANGED <<command, vars, reloader>>
Reloads(A) == command = "reload" /\ A /\ UNCHANGED <<command, vars, workers>>

LaunchNext == Serves(Next) \/ Spawns(W!Next) \/ Reloads(R!Next)

(* The fairness of each module.  Only one of them runs, so that weak       *)
(* fairness of a disjunction is that of the part which belongs to it.      *)
LaunchFairness ==
    /\ WF_launchVars(Serves(Run) \/ Spawns(W!Parent) \/ Reloads(R!Supervisor))
    /\ WF_launchVars(Serves(Timeouts) \/ Reloads(R!Loads))
    /\ WF_launchVars(Serves(Callbacks) \/ Reloads(R!Watchers))
    /\ WF_launchVars(Serves(Callers))
    /\ WF_launchVars(Serves(CancelledEnds))

LaunchSpec == LaunchInit /\ [][LaunchNext]_launchVars /\ LaunchFairness

-----------------------------------------------------------------------------
(* Every worker that lives is in the table, under one number, unless a     *)
(* signal came while it was being started (workers.py, start_worker).      *)
TableExact == W!TableExact

(* Once the signal handler has set its event, every worker and then the    *)
(* parent come to their end (workers.py, signal_handler).                  *)
WorkersStop == W!WorkersStop

(* A change of the source is followed by a child that has loaded it, or by *)
(* the supervisor's end, outside two windows of time (reload.py, run).     *)
ChangeIsServed == R!ChangeIsServed

(* A signal that is handled ends the reload supervisor, also when the      *)
(* child does not listen (reload.py, handle_signal).                       *)
StopsWhenTold == R!StopsWhenTold

=============================================================================
