------------------------- MODULE WebSocketHeartbeat -------------------------
(***************************************************************************)
(* The keep-alive of a WebSocket (asgiri/proto/websocket_heartbeat.py): a  *)
(* task that pings every ping_interval, and after each ping a watchdog     *)
(* task that closes the connection when nothing was heard for              *)
(* ping_timeout.                                                           *)
(*                                                                         *)
(* Time is discrete and relative: a sleeping task is the time it has left  *)
(* to sleep.  The clock does not tick while a task is due, so a timer is   *)
(* never late by a whole tick.  With ping_interval None nothing of this    *)
(* happens.                                                                *)
(***************************************************************************)
EXTENDS Naturals

CONSTANT
    Timings      \* pairs of ping_interval and ping_timeout, in ticks

VARIABLES
    timing,      \* the element of Timings
    loop,        \* the ping task: "new", "running", or "stopped" (_closed)
    pingIn,      \* time until it wakes up
    watchdog,    \* _watchdog_task: {} or the time its task has left
    orphans,     \* watchdogs that a later ping has put out of reach
    heard,       \* _last_activity_at >= _last_ping_sent_at
    expired,     \* the close callback has been called
    silence      \* history: time since the peer was last heard, or the start

vars == <<timing, loop, pingIn, watchdog, orphans, heard, expired, silence>>

Interval == timing.interval
Timeout == timing.timeout

(* Negative values are refused (ValueError).  With an interval of 0 the    *)
(* task would ping without a pause, which is not modelled.                 *)
Valid(t) == t.interval \in Nat \ {0} /\ t.timeout \in Nat

Horizon == Interval + Timeout + 1   \* bound: silence is not counted further

TypeOK ==
    /\ Valid(timing)
    /\ loop \in {"new", "running", "stopped"}
    /\ pingIn \in 0..Interval
    /\ watchdog \subseteq 0..Timeout
    /\ orphans \subseteq 0..Timeout
    /\ heard \in BOOLEAN
    /\ expired \in BOOLEAN
    /\ silence \in 0..Horizon

Init ==
    /\ timing \in {t \in Timings : Valid(t)}
    /\ loop = "new"
    /\ pingIn = Interval
    /\ watchdog = {}
    /\ orphans = {}
    /\ heard = TRUE
    /\ expired = FALSE
    /\ silence = 0

Start ==
    /\ loop = "new"
    /\ loop' = "running"
    /\ silence' = 0
    /\ UNCHANGED <<pingIn, watchdog, orphans, heard, expired>>

(* stop cancels the watchdog it knows; the others find _closed set.        *)
Stop ==
    /\ loop' = "stopped"
    /\ watchdog' = {}
    /\ UNCHANGED <<pingIn, orphans, heard, expired, silence>>

(* Mutant: only the time is recorded, the watchdog's task goes on.         *)
RecordActivityOnly ==
    /\ heard' = TRUE
    /\ silence' = 0
    /\ UNCHANGED <<loop, pingIn, watchdog, orphans, expired>>

(* record_activity.                                                        *)
RecordActivity ==
    /\ heard' = TRUE
    /\ watchdog' = {}
    /\ silence' = 0
    /\ UNCHANGED <<loop, pingIn, orphans, expired>>

(* Mutant: the time of the ping is not recorded.                           *)
PingUnrecorded ==
    /\ loop = "running" /\ pingIn = 0
    /\ orphans' = orphans \cup watchdog
    /\ watchdog' = {Timeout}
    /\ pingIn' = Interval
    /\ UNCHANGED <<loop, heard, expired, silence>>

(* The ping task wakes up, pings, and replaces the watchdog by a new one.  *)
Ping ==
    /\ loop = "running" /\ pingIn = 0
    /\ heard' = FALSE
    /\ orphans' = orphans \cup watchdog
    /\ watchdog' = {Timeout}
    /\ pingIn' = Interval
    /\ UNCHANGED <<loop, expired, silence>>

(* A watchdog wakes up.  The last ping it looks at need not be its own.    *)
TimedOut == loop # "stopped" /\ ~heard

Watchdog ==
    /\ \/ 0 \in watchdog /\ watchdog' = {} /\ UNCHANGED orphans
       \/ 0 \in orphans /\ orphans' = orphans \ {0} /\ UNCHANGED watchdog
    /\ expired' = (expired \/ TimedOut)
    /\ UNCHANGED <<loop, pingIn, heard, silence>>

-----------------------------------------------------------------------------
Elapsed(timers) == {t - 1 : t \in timers}

Due == (loop = "running" /\ pingIn = 0) \/ 0 \in watchdog \cup orphans

Tick ==
    /\ ~Due
    /\ pingIn' = IF loop = "running" THEN pingIn - 1 ELSE pingIn
    /\ watchdog' = Elapsed(watchdog)
    /\ orphans' = Elapsed(orphans)
    /\ silence' = IF silence < Horizon THEN silence + 1 ELSE silence
    /\ UNCHANGED <<loop, heard, expired>>

Next ==
    /\ Start \/ Stop \/ RecordActivity \/ Ping \/ Watchdog \/ Tick
    /\ UNCHANGED timing

Spec == Init /\ [][Next]_vars

-----------------------------------------------------------------------------
(* Properties.                                                             *)

(* The connection is closed only if the peer was silent for ping_timeout   *)
(* (websocket_heartbeat.py:12-14: "closes the connection if no frame (any  *)
(* frame, including a pong) is received within ping_timeout seconds").     *)
ClosesOnlySilentPeers == [][expired' # expired => silence >= Timeout]_vars

(* What the code keeps of that, whatever the timing: a peer that is given  *)
(* up has not been heard since the last ping was sent; and when a watchdog *)
(* sleeps for less than two intervals, not for the whole timeout.          *)
ClosesOnlyUnanswered ==
    [][expired' # expired =>
          /\ silence >= Interval - pingIn
          /\ Timeout < 2 * Interval => silence >= Timeout]_vars

(* A silent peer is given up: no later than one interval and one timeout   *)
(* after it was last heard.                                                *)
SilenceIsNoticed ==
    loop = "running" /\ ~expired => silence <= Interval + Timeout

=============================================================================
