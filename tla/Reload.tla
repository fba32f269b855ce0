------------------------------ MODULE Reload ------------------------------
(***************************************************************************)
(* The hot-reload supervisor (reload.py): a child process that serves, one *)
(* watcher thread for each child that was started, and the main thread,    *)
(* which polls both and may be interrupted by a signal at any time.        *)
(*                                                                         *)
(* The source is a number that grows with every change that is not to be   *)
(* ignored.  A child serves what it found when it loaded the application.  *)
(***************************************************************************)
EXTENDS Naturals

CONSTANTS
    MaxRestarts,  \* failures in a row before the supervisor gives up
    MaxChanges,   \* changes of the source
    MaxChildren,  \* how many children are started
    MaxAlarms     \* signals the supervisor gets

Children == 1..MaxChildren

VARIABLES
    step,      \* where the main thread is
    child,     \* the latest child's number, and how many there have been
    state,     \* what it is doing
    ok,        \* the exit code with which it has ended is 0
    message,   \* the supervisor has sent it a message
    begun,     \* the child that is being started is not yet process
    source,    \* changes so far
    loaded,    \* the source the child has loaded
    watcher,   \* the watcher thread that was started after each child
    reload,    \* reload_event
    failures,  \* consecutive_failures
    requested, \* _shutdown_requested
    rings,     \* signals received
    missed     \* a change came that nobody was there to see, or to remember

kid == <<child, state, ok, message, begun, loaded>>
seen == <<source, watcher, reload, missed>>
rest == <<failures, requested, rings>>
superVars == <<step, kid, seen, rest>>

Init ==
    /\ step = "start" /\ child = 0 /\ state = "none" /\ ok = TRUE
    /\ message = FALSE /\ begun = FALSE
    /\ source = 0 /\ loaded = 0 /\ watcher = [c \in Children |-> "none"]
    /\ reload = FALSE /\ failures = 0 /\ requested = FALSE /\ rings = 0
    /\ missed = FALSE

Alive == state \in {"starting", "serving"}
Ended == step \in {"exited", "killed"}

(* Some watcher will still set the event, or it is set.                    *)
Noticed == reload \/ \E c \in Children : watcher[c] = "noticed"

-----------------------------------------------------------------------------
(* The main thread.                                                        *)

(* A pipe and a process; the event is cleared behind them (but not for the *)
(* first child, whose event is new).                                       *)
StartChild ==
    /\ step \in {"start", "restart"} /\ child < MaxChildren
    /\ child' = child + 1 /\ state' = "starting" /\ message' = FALSE
    /\ begun' = TRUE
    /\ step' = IF step = "start" THEN "watch" ELSE "clear"
    /\ UNCHANGED <<ok, loaded, seen, rest>>

ClearsEvent ==
    /\ step = "clear"
    /\ step' = "watch"
    /\ missed' = (missed \/ (reload /\ state = "serving" /\ loaded < source))
    /\ reload' = FALSE /\ begun' = FALSE
    /\ UNCHANGED <<child, state, ok, message, loaded, source, watcher, rest>>

(* Mutant of StartsWatcher: only the first child gets a watcher.           *)
StartsWatcherOnce ==
    /\ step = "watch"
    /\ watcher' = [watcher EXCEPT ![1] = IF child = 1 THEN "started" ELSE @]
    /\ step' = IF child = 1 THEN "handlers" ELSE "poll"
    /\ begun' = FALSE
    /\ UNCHANGED <<child, state, ok, message, loaded, source, reload, missed, rest>>

StartsWatcher ==
    /\ step = "watch"
    /\ watcher' = [watcher EXCEPT ![child] = "started"]
    /\ step' = IF child = 1 THEN "handlers" ELSE "poll"
    /\ begun' = FALSE
    /\ UNCHANGED <<child, state, ok, message, loaded, source, reload, missed, rest>>

SetsHandlers ==
    /\ step = "handlers"
    /\ step' = "poll"
    /\ UNCHANGED <<kid, seen, rest>>

(* The child has exited.                                                   *)
ChildExited ==
    /\ step = "poll" /\ ~Alive
    /\ failures' = IF ok THEN 0 ELSE failures + 1
    /\ step' = IF (~ok /\ failures + 1 >= MaxRestarts) \/ requested THEN "exited" ELSE "restart"
    /\ UNCHANGED <<kid, seen, requested, rings>>

ReloadRequested ==
    /\ step = "poll" /\ Alive /\ ~requested /\ reload
    /\ message' = TRUE
    /\ step' = "reloading"
    /\ UNCHANGED <<child, state, ok, begun, loaded, seen, rest>>

(* Mutant of Escalates: a child that survives the SIGTERM is left alone.   *)
EscalatesOnce ==
    /\ Alive
    /\ \/ step = "reloading" /\ step' = "terminating"
       \/ step = "stopping" /\ step' = "stopTerminating"
    /\ UNCHANGED <<kid, seen, rest>>

(* The joins with their timeouts: shutdown_timeout, then 5 s after the     *)
(* SIGTERM, then SIGKILL.                                                  *)
Escalates ==
    /\ Alive
    /\ \/ step = "reloading" /\ step' = "terminating" /\ UNCHANGED <<state, ok>>
       \/ step = "stopping" /\ step' = "stopTerminating" /\ UNCHANGED <<state, ok>>
       \/ step \in {"terminating", "stopTerminating"} /\ state' = "ended" /\ ok' = FALSE
          /\ UNCHANGED step
    /\ UNCHANGED <<child, message, begun, loaded, seen, rest>>

ReloadEnds ==
    /\ step \in {"reloading", "terminating"} /\ ~Alive
    /\ reload' = FALSE
    /\ step' = "poll"
    /\ UNCHANGED <<kid, source, watcher, missed, rest>>

StopEnds ==
    /\ step \in {"stopping", "stopTerminating"} /\ ~Alive
    /\ step' = "exited"
    /\ UNCHANGED <<kid, seen, rest>>

(* handle_signal runs between any two steps, and ends in sys.exit.  While  *)
(* a child is being started it joins the one before, which is dead; but    *)
(* its message goes into the new child's pipe, and at its end the process  *)
(* joins the new child without a timeout, its signal handlers restored.    *)
HandleSignal ==
    /\ rings < MaxAlarms /\ ~Ended
    /\ rings' = rings + 1
    /\ IF step \in {"start", "handlers", "leaving"} \/ (step = "watch" /\ child = 1)
       THEN step' = "killed" /\ UNCHANGED <<requested, message>>
       ELSE requested' = TRUE /\ message' = TRUE
            /\ step' = IF begun THEN "leaving" ELSE "stopping"
    /\ UNCHANGED <<child, state, ok, begun, loaded, seen, failures>>

Leaves ==
    /\ step = "leaving" /\ ~Alive
    /\ step' = "exited"
    /\ UNCHANGED <<kid, seen, rest>>

-----------------------------------------------------------------------------
(* The child.  Its server may fail to stop when it is asked to.            *)

Loads ==
    /\ state = "starting"
    /\ state' = "serving" /\ loaded' = source
    /\ UNCHANGED <<step, child, ok, message, begun, seen, rest>>

ChildEnds(code) ==
    /\ Alive
    /\ state' = "ended" /\ ok' = code
    /\ UNCHANGED <<step, child, message, begun, loaded, seen, rest>>

HearsMessage == message /\ state = "serving" /\ ChildEnds(TRUE)

-----------------------------------------------------------------------------
(* The watchers.                                                           *)

(* The latest child's watcher does not watch yet, or has failed, and there *)
(* is no other.                                                            *)
Unwatched ==
    /\ \A c \in Children : watcher[c] # "watching"
    /\ step \in {"clear", "watch"} \/ watcher[child] \in {"started", "failed"}

Change ==
    /\ source < MaxChanges
    /\ source' = source + 1
    /\ watcher' = [c \in Children |-> IF watcher[c] = "watching" THEN "noticed" ELSE watcher[c]]
    /\ missed' = (missed \/ (state = "serving" /\ ~Noticed /\ Unwatched))
    /\ UNCHANGED <<step, kid, reload, rest>>

Watches(c) ==
    /\ watcher[c] = "started"
    /\ watcher' = [watcher EXCEPT ![c] = IF requested THEN "done" ELSE "watching"]
    /\ UNCHANGED <<step, kid, source, reload, missed, rest>>

Notices(c) ==
    /\ watcher[c] = "noticed"
    /\ watcher' = [watcher EXCEPT ![c] = "done"]
    /\ reload' = TRUE
    /\ UNCHANGED <<step, kid, source, missed, rest>>

StopsWatching(c) ==
    /\ watcher[c] = "watching" /\ requested
    /\ watcher' = [watcher EXCEPT ![c] = "done"]
    /\ UNCHANGED <<step, kid, source, reload, missed, rest>>

(* watch, or what looks at the paths of a change, raises; or there is no   *)
(* watch.  The thread ends, and nobody starts another before the next      *)
(* child.                                                                  *)
WatcherFails(c) ==
    /\ watcher[c] \in {"started", "watching", "noticed"}
    /\ watcher' = [watcher EXCEPT ![c] = "failed"]
    /\ UNCHANGED <<step, kid, source, reload, rest>>
    /\ missed' = (missed \/ (watcher[c] = "noticed" /\ state = "serving" /\ ~Noticed'))

-----------------------------------------------------------------------------
Supervisor ==
    \/ StartChild \/ ClearsEvent \/ StartsWatcher \/ SetsHandlers
    \/ ChildExited \/ ReloadRequested \/ Escalates \/ ReloadEnds \/ StopEnds \/ Leaves

Watchers == \E c \in Children : Notices(c)

Next ==
    \/ Supervisor \/ HandleSignal
    \/ Loads \/ \E code \in BOOLEAN : ChildEnds(code) \/ HearsMessage
    \/ Change
    \/ Watchers \/ \E c \in Children : Watches(c) \/ StopsWatching(c) \/ WatcherFails(c)

(* The main thread and the watchers go on; a child that starts comes to    *)
(* serve, or ends.                                                         *)
Fairness ==
    /\ WF_superVars(Supervisor) /\ WF_superVars(Loads) /\ WF_superVars(Watchers)
Spec == Init /\ [][Next]_superVars /\ Fairness

-----------------------------------------------------------------------------
(* A change of the source is followed by a child that has loaded it, or by *)
(* the end of the supervisor: unless it came where no watcher watched, its *)
(* watcher failed, or the event that stood for it was cleared behind the   *)
(* start of a child that had already loaded (run, _watcher).  MaxChildren  *)
(* ends the model's interest.                                              *)
ChangeIsServed ==
    (source > 0 /\ ~missed) ~>
        \/ state = "serving" /\ loaded = source
        \/ Ended \/ missed \/ requested \/ child = MaxChildren

(* A signal that is handled ends the supervisor, also when the child does  *)
(* not listen; unless the child was just being started: that one is only   *)
(* asked, in its pipe (handle_signal, _stop_child).                        *)
StopsWhenTold == requested ~> (Ended \/ step = "leaving")

=============================================================================
