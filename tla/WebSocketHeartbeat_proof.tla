----------------------- MODULE WebSocketHeartbeat_proof -----------------------
(***************************************************************************)
(* Proofs about WebSocketHeartbeat, for every interval and timeout.        *)
(***************************************************************************)
EXTENDS WebSocketHeartbeat, TLAPS

(* The heartbeat's state is always of its type; in particular no task      *)
(* sleeps for longer than it was told to.                                  *)
THEOREM TypeCorrect == Spec => []TypeOK
<1>1. Init => TypeOK
  <2> SUFFICES ASSUME Init PROVE TypeOK
    OBVIOUS
  <2>1. Valid(timing)
    BY DEF Init
  <2>2. Interval \in 0..Interval /\ 0 \in 0..Horizon
    BY <2>1 DEF Horizon, Valid, Interval, Timeout
  <2> QED
    BY <2>1, <2>2 DEF Init, TypeOK
<1>2. TypeOK /\ [Next]_vars => TypeOK'
  <2> SUFFICES ASSUME TypeOK, [Next]_vars PROVE TypeOK'
    OBVIOUS
  <2>0. /\ Interval \in Nat /\ Interval > 0 /\ Timeout \in Nat
        /\ timing' = timing /\ Interval' = Interval /\ Timeout' = Timeout
        /\ Valid(timing) /\ Valid(timing')
    BY DEF TypeOK, Valid, Interval, Timeout, Next, vars
  <2>h. Horizon = Interval + Timeout + 1 /\ Horizon' = Horizon
    BY <2>0 DEF Horizon
  <2> USE <2>0, <2>h DEF TypeOK
  <2>1. CASE Start
    BY <2>1 DEF Start
  <2>2. CASE Stop
    BY <2>2 DEF Stop
  <2>3. CASE RecordActivity
    BY <2>3 DEF RecordActivity
  <2>4. CASE Ping
    <3>1. {Timeout} \subseteq 0..Timeout /\ Interval \in 0..Interval
      OBVIOUS
    <3>2. watchdog' \subseteq 0..Timeout /\ orphans' \subseteq 0..Timeout
      BY <2>4, <3>1 DEF Ping
    <3> QED
      BY <2>4, <3>1, <3>2 DEF Ping
  <2>5. CASE Watchdog
    BY <2>5 DEF Watchdog, TimedOut
  <2>6. CASE Tick
    <3>1. Elapsed(watchdog) \subseteq 0..Timeout /\ Elapsed(orphans) \subseteq 0..Timeout
      BY <2>6 DEF Tick, Due, Elapsed
    <3>2. pingIn' \in 0..Interval
      BY <2>6 DEF Tick, Due
    <3> QED
      BY <2>6, <3>1, <3>2 DEF Tick
  <2>7. CASE UNCHANGED vars
    BY <2>7 DEF vars
  <2> QED
    BY <2>1, <2>2, <2>3, <2>4, <2>5, <2>6, <2>7 DEF Next
<1> QED
  BY <1>1, <1>2, PTL DEF Spec

(* What the type invariant says of the timing, which never changes.        *)
LEMMA Timed ==
    ASSUME TypeOK, [Next]_vars
    PROVE  /\ Interval \in Nat /\ Interval > 0 /\ Timeout \in Nat
           /\ Interval' = Interval /\ Timeout' = Timeout
BY DEF TypeOK, Valid, Interval, Timeout, Next, vars

-----------------------------------------------------------------------------
(* While the peer has not been heard since the last ping, a watchdog is on *)
(* its way that will wake up in time; once it is heard, the next ping is.  *)
Guarded ==
    loop = "running" /\ ~expired =>
        IF heard
        THEN silence + pingIn <= Interval
        ELSE \E t \in watchdog \cup orphans : silence + t <= Interval + Timeout

Waiting == loop = "new" => watchdog = {} /\ orphans = {} /\ pingIn = Interval /\ heard

(* A silent peer is given up after one interval and one timeout at the     *)
(* latest, however pings and watchdogs follow on each other                *)
(* (_run_heartbeat, _run_watchdog).                                        *)
THEOREM SilentPeersAreGivenUp == Spec => []SilenceIsNoticed
<1>1. Init => Waiting /\ Guarded
  BY DEF Init, Guarded, Waiting
<1>2. TypeOK /\ Waiting /\ Guarded /\ [Next]_vars => Waiting' /\ Guarded'
  <2> SUFFICES ASSUME TypeOK, Waiting, Guarded, [Next]_vars
               PROVE  Waiting' /\ Guarded'
    OBVIOUS
  <2>0. /\ Interval \in Nat /\ Interval > 0 /\ Timeout \in Nat
        /\ Interval' = Interval /\ Timeout' = Timeout
    BY Timed
  <2> USE <2>0 DEF TypeOK, Horizon, Guarded, Waiting
  <2>1. CASE Start
    BY <2>1 DEF Start
  <2>2. CASE Stop
    BY <2>2 DEF Stop
  <2>3. CASE RecordActivity
    BY <2>3 DEF RecordActivity
  <2>4. CASE Ping
    <3>1. CASE heard
      BY <2>4, <3>1 DEF Ping
    <3>2. CASE ~heard
      BY <2>4, <3>2 DEF Ping
    <3> QED
      BY <3>1, <3>2
  <2>5. CASE Watchdog
    BY <2>5 DEF Watchdog, TimedOut
  <2>6. CASE Tick
    <3>1. silence' <= silence + 1
      BY <2>6 DEF Tick
    <3>2. ASSUME NEW t \in watchdog \cup orphans
          PROVE  t - 1 \in watchdog' \cup orphans'
      BY <2>6 DEF Tick, Elapsed
    <3>3. Waiting'
      BY <2>6 DEF Tick, Elapsed
    <3>4. CASE heard
      BY <2>6, <3>1, <3>3, <3>4 DEF Tick, Due
    <3>5. CASE ~heard /\ loop = "running" /\ ~expired
      <4>1. PICK t \in watchdog \cup orphans : silence + t <= Interval + Timeout
        BY <3>5
      <4>2. t - 1 \in watchdog' \cup orphans' /\ t \in Nat
        BY <3>2
      <4>3. silence' + (t - 1) <= Interval + Timeout
        BY <2>6, <3>1, <4>1, <4>2 DEF Tick
      <4> QED
        BY <2>6, <3>3, <4>2, <4>3 DEF Tick
    <3>6. CASE ~(loop = "running" /\ ~expired)
      BY <2>6, <3>3, <3>6 DEF Tick
    <3> QED
      BY <3>4, <3>5, <3>6
  <2>7. CASE UNCHANGED vars
    BY <2>7 DEF vars
  <2> QED
    BY <2>1, <2>2, <2>3, <2>4, <2>5, <2>6, <2>7 DEF Next
<1>3. TypeOK /\ Guarded => SilenceIsNoticed
  BY DEF TypeOK, Guarded, SilenceIsNoticed, Valid, Interval, Timeout
<1> QED
  BY <1>1, <1>2, <1>3, TypeCorrect, PTL DEF Spec

-----------------------------------------------------------------------------
(* The age of the last ping.  A peer not heard since then is silent at     *)
(* least as long.                                                          *)
Age == Interval - pingIn

Unanswered == loop = "running" /\ ~heard => silence >= Age

(* The last ping is the one _watchdog_task belongs to; an orphan belongs   *)
(* to the one before, and to none older when two intervals are longer than *)
(* the timeout.  It is there only if that ping was not answered before the *)
(* next.                                                                   *)
Ages ==
    loop = "running" /\ Timeout < 2 * Interval =>
        /\ \A t \in watchdog : ~heard /\ t + Age = Timeout
        /\ \A t \in orphans :
              /\ t + Age + Interval = Timeout
              /\ ~heard => silence >= Age + Interval

(* Whatever the interval and the timeout: a peer that is given up has not  *)
(* been heard since the last ping; and with two intervals longer than the  *)
(* timeout, not for the whole timeout.  (With a longer timeout an orphan   *)
(* compares the answer to its own ping with a later one.)                  *)
THEOREM ActivePeersAreKept == Spec => ClosesOnlyUnanswered
<1>1. Init => Waiting /\ Unanswered /\ Ages
  BY DEF Init, Unanswered, Ages, Waiting
<1>2. TypeOK /\ Waiting /\ Unanswered /\ Ages /\ [Next]_vars
        => Waiting' /\ Unanswered' /\ Ages'
  <2> SUFFICES ASSUME TypeOK, Waiting, Unanswered, Ages, [Next]_vars
               PROVE  Waiting' /\ Unanswered' /\ Ages'
    OBVIOUS
  <2>0. /\ Interval \in Nat /\ Interval > 0 /\ Timeout \in Nat
        /\ Interval' = Interval /\ Timeout' = Timeout
    BY Timed
  <2> USE <2>0 DEF TypeOK, Horizon, Unanswered, Ages, Age, Waiting
  <2>1. CASE Start
    BY <2>1 DEF Start
  <2>2. CASE Stop
    BY <2>2 DEF Stop
  <2>3. CASE RecordActivity
    BY <2>3 DEF RecordActivity
  <2>4. CASE Ping
    <3>1. Waiting' /\ Unanswered'
      BY <2>4 DEF Ping
    <3>2. ASSUME Timeout < 2 * Interval PROVE Ages'
      <4>1. orphans = {}
        BY <2>4, <3>2 DEF Ping
      <4> QED
        BY <2>4, <3>2, <4>1 DEF Ping
    <3> QED
      BY <3>1, <3>2
  <2>5. CASE Watchdog
    BY <2>5 DEF Watchdog
  <2>6. CASE Tick
    <3>1. CASE loop = "running"
      <4>1. Waiting' /\ Unanswered'
        BY <2>6, <3>1 DEF Tick, Due
      <4>2. Ages'
        BY <2>6, <3>1 DEF Tick, Due, Elapsed
      <4> QED
        BY <4>1, <4>2
    <3>2. CASE loop # "running"
      BY <2>6, <3>2 DEF Tick, Elapsed
    <3> QED
      BY <3>1, <3>2
  <2>7. CASE UNCHANGED vars
    BY <2>7 DEF vars
  <2> QED
    BY <2>1, <2>2, <2>3, <2>4, <2>5, <2>6, <2>7 DEF Next
<1>3. TypeOK /\ Waiting /\ Unanswered /\ Ages /\ [Next]_vars
        => [expired' # expired => /\ silence >= Interval - pingIn
                                  /\ Timeout < 2 * Interval => silence >= Timeout]_vars
  <2> SUFFICES ASSUME TypeOK, Waiting, Unanswered, Ages, Next, expired' # expired
               PROVE  /\ silence >= Interval - pingIn
                      /\ Timeout < 2 * Interval => silence >= Timeout
    BY DEF vars
  <2>1. Watchdog /\ loop = "running" /\ ~heard
    BY DEF Next, Start, Stop, RecordActivity, Ping, Tick, Watchdog, TimedOut,
           TypeOK, Waiting
  <2>2. Interval \in Nat /\ Interval > 0 /\ Timeout \in Nat
    BY Timed
  <2>3. silence >= Interval - pingIn
    BY <2>1 DEF Unanswered, Age
  <2> QED
    BY <2>1, <2>2, <2>3 DEF Watchdog, Ages, Age, TypeOK, Horizon
<1> QED
  BY <1>1, <1>2, <1>3, TypeCorrect, PTL DEF Spec, ClosesOnlyUnanswered

=============================================================================
