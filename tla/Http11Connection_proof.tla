----------------------- MODULE Http11Connection_proof -----------------------
(***************************************************************************)
(* For every number of requests, every size of their bodies and every kind *)
(* of client and application: an HTTP/1.1 connection works on one request  *)
(* at a time, answers in order, closes when it must, and keeps the promise *)
(* of RequestBody.  It is reused but for two cases, and it reports no      *)
(* error without a reason.                                                 *)
(*                                                                         *)
(* All of it rests on one invariant about whose turn it is: what h11's two *)
(* states say about the request that is current, and that everything       *)
(* before it is over and nothing after it has begun.                       *)
(***************************************************************************)
EXTENDS Http11Connection, FiniteSetTheorems, TLAPS

Typed ==
    /\ transport \in {"open", "closing", "lost"}
    /\ parsing \in BOOLEAN
    /\ their \in {"idle", "body", "done", "mustclose", "error"}
    /\ our \in {"idle", "response", "body", "done", "mustclose"}
    /\ keepAlive \in BOOLEAN
    /\ current \in 0..N
    /\ ended \in [Requests -> BOOLEAN]
    /\ task \in [Requests -> {"none", "running", "done"}]
    /\ sender \in [Requests -> {"none", "started", "ended"}]

(* h11's states go together.                                               *)
Coherent ==
    /\ their = "idle" => our = "idle"
    /\ our = "idle" => their \in {"idle", "error"}
    /\ ~keepAlive => their # "done" /\ our # "done"
    /\ current = 0 => our = "idle"

(* What is over, and what has not begun.                                   *)
Over(i) == task[i] = "done" /\ sender[i] = "ended" /\ ended[i]

Past == \A i \in Requests : i < current => Over(i)

Future ==
    \A i \in Requests :
        current < i => task[i] = "none" /\ sender[i] = "none" /\ ~ended[i]

(* What h11's states say of the current request.                           *)
Present ==
    current \in Requests =>
        /\ their = "idle" => Over(current)
        /\ their = "body" => ~ended[current]
        /\ their = "done" => ended[current]
        /\ our = "done" => sender[current] = "ended"
        /\ task[current] = "running" =>
              /\ sender[current] = "started" => our = "body"
              /\ sender[current] = "ended" => our \in {"done", "mustclose"}
        /\ task[current] = "done" /\ sender[current] = "ended" /\ ~keepAlive
              => transport # "open"

Turns == Typed /\ Coherent /\ Past /\ Future /\ Present

LEMMA TurnsInit == Init => Turns
<1> SUFFICES ASSUME Init PROVE Turns
  OBVIOUS
<1>0. N \in Nat
  BY Http11Assumption
<1>1. Typed
  <2>1. current \in 0..N
    BY <1>0 DEF Init
  <2>2. /\ ended \in [Requests -> BOOLEAN]
        /\ task \in [Requests -> {"none", "running", "done"}]
        /\ sender \in [Requests -> {"none", "started", "ended"}]
    BY DEF Init
  <2>3. QED
    BY <2>1, <2>2 DEF Init, Typed
<1>2. Coherent
  BY SMT DEF Init, Coherent
<1>3. Past
  BY <1>0, SMT DEF Init, Past, Requests
<1>4. Future
  BY <1>0, SMT DEF Init, Future, Requests
<1>5. Present
  BY <1>0, SMT DEF Init, Present, Requests
<1>6. QED
  BY <1>1, <1>2, <1>3, <1>4, <1>5 DEF Turns

(* Steps that touch none of the variables the invariant is about.          *)
turnVars == <<their, our, keepAlive, current, ended, task, sender>>

LEMMA TurnsUnchanged ==
    ASSUME Turns, UNCHANGED turnVars,
           parsing' \in BOOLEAN,
           transport' \in {"open", "closing", "lost"},
           transport # "open" => transport' # "open"
    PROVE  Turns'
BY DEF turnVars, Turns, Typed, Coherent, Past, Future, Present, Over

(* The first event of a request makes it current; the one before is over.  *)
LEMMA TurnsHead ==
    ASSUME Turns, HeadParsed, UNCHANGED <<ended, sender>>,
           parsing' \in BOOLEAN,
           transport' \in {"open", "closing", "lost"},
           \/ task' = task
           \/ task' = [task EXCEPT ![NextRequest] = "running"]
    PROVE  Turns'
<1>0. N \in Nat /\ current \in 0..N /\ current + 1 \in Requests
  BY Http11Assumption DEF Turns, Typed, HeadParsed, NextRequest
<1>1. /\ current' = current + 1 /\ their = "idle" /\ their' = "body"
      /\ our' = "response" /\ ended' = ended /\ sender' = sender
      /\ keepAlive' \in BOOLEAN
  BY DEF HeadParsed, NextRequest, Turns, Typed
<1>2. \A i \in Requests : i # current + 1 => task'[i] = task[i]
  BY DEF NextRequest, Turns, Typed
<1>3. /\ task' \in [Requests -> {"none", "running", "done"}]
      /\ task'[current + 1] \in {"none", "running"}
  BY <1>0, SMT DEF NextRequest, Turns, Typed, Future, Requests
<1>4. Typed'
  BY <1>0, <1>1, <1>3, SMT DEF Turns, Typed, Requests
<1>5. Coherent'
  BY <1>0, <1>1, SMT DEF Coherent, Requests
<1>6. Past'
  <2> SUFFICES ASSUME NEW i \in Requests, i < current + 1
               PROVE  task'[i] = "done" /\ sender[i] = "ended" /\ ended[i]
    BY <1>1 DEF Past, Over
  <2>1. i # current + 1 /\ (i < current \/ i = current)
    BY <1>0, SMT DEF Requests
  <2>2. Over(i)
    BY <2>1, <1>1 DEF Turns, Past, Present
  <2>3. QED
    BY <2>1, <2>2, <1>2 DEF Over
<1>7. Future'
  <2> SUFFICES ASSUME NEW i \in Requests, current + 1 < i
               PROVE  task'[i] = "none" /\ sender[i] = "none" /\ ~ended[i]
    BY <1>1 DEF Future
  <2>1. i # current + 1 /\ current < i
    BY <1>0, SMT DEF Requests
  <2>2. QED
    BY <2>1, <1>2 DEF Turns, Future
<1>8. Present'
  <2>1. sender[current + 1] = "none" /\ ~ended[current + 1]
    BY <1>0, SMT DEF Turns, Future, Requests
  <2>2. QED
    BY <1>1, <1>3, <2>1 DEF Present, Over
<1>9. QED
  BY <1>4, <1>5, <1>6, <1>7, <1>8 DEF Turns

(* A step of the current request's task or of the parser, which changes    *)
(* nothing of the other requests.                                          *)
LEMMA TurnsCurrent ==
    ASSUME Turns, current \in Requests, current' = current,
           Typed', Coherent', Present',
           \A i \in Requests : i # current =>
               /\ task'[i] = task[i] /\ sender'[i] = sender[i]
               /\ ended'[i] = ended[i]
    PROVE  Turns'
<1>0. N \in Nat /\ \A i \in Requests : (i < current \/ current < i) => i # current
  BY Http11Assumption, SMT DEF Requests
<1>1. Past'
  BY <1>0 DEF Turns, Past, Over
<1>2. Future'
  BY <1>0 DEF Turns, Future
<1>3. QED
  BY <1>1, <1>2 DEF Turns

(* Only the current request's application can be running.                  *)
LEMMA OnlyCurrentRuns ==
    ASSUME Turns, NEW i \in Requests, task[i] = "running"
    PROVE  i = current /\ current \in Requests
<1>0. N \in Nat /\ current \in 0..N /\ i \in 1..N
  BY Http11Assumption DEF Turns, Typed, Requests
<1>1. ~(i < current)
  BY DEF Turns, Past, Over
<1>2. ~(current < i)
  BY DEF Turns, Future
<1>3. i = current
  BY <1>0, <1>1, <1>2, SMT
<1>4. QED
  BY <1>3

LEMMA TurnsStep == Turns /\ [Next]_vars => Turns'
<1> SUFFICES ASSUME Turns, [Next]_vars PROVE Turns'
  OBVIOUS
<1> USE DEF tasks
<1>0. N \in Nat /\ current \in 0..N
  BY Http11Assumption DEF Turns, Typed
<1>t. Typed
  BY DEF Turns
<1>1. ASSUME NEW segment \in Segments, DataReceived(segment) PROVE Turns'
  <2>1. UNCHANGED turnVars
    BY <1>1 DEF DataReceived, turnVars, bodies
  <2>2. /\ parsing' \in BOOLEAN /\ transport' \in {"open", "closing", "lost"}
        /\ transport # "open" => transport' # "open"
    BY <1>1, <1>t DEF DataReceived, SendErrorResponse, Typed
  <2>3. QED
    BY <2>1, <2>2, TurnsUnchanged
<1>2. CASE LoopEnds \/ EofReceived \/ ConnectionLost
  <2>1. UNCHANGED turnVars
    BY <1>2 DEF LoopEnds, EofReceived, ConnectionLost, turnVars, bodies, h11
  <2>2. /\ parsing' \in BOOLEAN /\ transport' \in {"open", "closing", "lost"}
        /\ transport # "open" => transport' # "open"
    BY <1>2, <1>t DEF LoopEnds, EofReceived, ConnectionLost, Typed
  <2>3. QED
    BY <2>1, <2>2, TurnsUnchanged
<1>3. CASE ProtocolError
  <2>1. /\ their' = "error" /\ transport' = "closing" /\ parsing' = FALSE
        /\ our' = IF our = "done" THEN "mustclose" ELSE our
        /\ UNCHANGED <<keepAlive, current, ended, task, sender>>
    BY <1>3 DEF ProtocolError, SendErrorResponse, bodies
  <2>2. Typed'
    BY <2>1, <1>t DEF Typed
  <2>3. Coherent'
    BY <2>1 DEF Turns, Coherent
  <2>4. Present'
    BY <2>1 DEF Turns, Present
  <2>5. QED
    BY <2>1, <2>2, <2>3, <2>4 DEF Turns, Past, Future, Over
<1>4. CASE RequestRefused \/ HandleWebsocketUpgrade \/ HandleH2cUpgrade
  <2>1. HeadParsed /\ UNCHANGED <<ended, sender, task>>
    BY <1>4 DEF RequestRefused, HandleWebsocketUpgrade, HandleH2cUpgrade,
                bodies
  <2>2. /\ parsing' \in BOOLEAN /\ transport' \in {"open", "closing", "lost"}
    BY <1>4, <1>t DEF RequestRefused, HandleWebsocketUpgrade,
                      HandleH2cUpgrade, SendErrorResponse, Typed
  <2>3. QED
    BY <2>1, <2>2, TurnsHead
<1>5. CASE Request
  <2>1. /\ HeadParsed /\ UNCHANGED <<ended, sender, transport, parsing>>
        /\ task' = [task EXCEPT ![NextRequest] = "running"]
    BY <1>5 DEF Request
  <2>2. QED
    BY <2>1, <1>t, TurnsHead DEF Typed
<1>6. CASE Data
  <2>1. UNCHANGED turnVars /\ UNCHANGED <<parsing, transport>>
    BY <1>6 DEF Data, turnVars
  <2>2. QED
    BY <2>1, <1>t, TurnsUnchanged DEF Typed
<1>7. CASE EndOfMessage
  <2>1. /\ their = "body" /\ their' = Done(keepAlive)
        /\ ended' = [ended EXCEPT ![current] = TRUE]
        /\ UNCHANGED <<transport, parsing, our, keepAlive, current, task,
                       sender>>
    BY <1>7 DEF EndOfMessage
  <2>2. current \in Requests
    BY <2>1, <1>0, SMT DEF Turns, Coherent, Requests
  <2>3. /\ ended' \in [Requests -> BOOLEAN] /\ ended'[current] = TRUE
        /\ \A i \in Requests : i # current => ended'[i] = ended[i]
    BY <2>1, <2>2, <1>t DEF Typed
  <2>4. Typed'
    BY <2>1, <2>3, <1>t DEF Typed, Done
  <2>5. Coherent'
    BY <2>1 DEF Turns, Coherent, Done
  <2>6. Present'
    BY <2>1, <2>3 DEF Turns, Present, Done
  <2>7. QED
    BY <2>1, <2>2, <2>3, <2>4, <2>5, <2>6, TurnsCurrent
<1>8. ASSUME NEW i \in Requests, Receive(i) PROVE Turns'
  <2>1. UNCHANGED turnVars /\ UNCHANGED <<parsing, transport>>
    BY <1>8 DEF Receive, turnVars, h11
  <2>2. QED
    BY <2>1, <1>t, TurnsUnchanged DEF Typed
<1>9. ASSUME NEW i \in Requests, NEW close \in BOOLEAN, SendStart(i, close)
      PROVE  Turns'
  <2>1. /\ task[i] = "running" /\ sender[i] = "none" /\ our = "response"
        /\ sender' = [sender EXCEPT ![i] = "started"] /\ our' = "body"
        /\ keepAlive' = (keepAlive /\ ~close)
        /\ their' = IF their = "done" THEN Done(keepAlive') ELSE their
        /\ UNCHANGED <<transport, parsing, current, task, ended>>
    BY <1>9 DEF SendStart, Running, bodies
  <2>2. i = current /\ current \in Requests
    BY <2>1, OnlyCurrentRuns
  <2>3. /\ sender' \in [Requests -> {"none", "started", "ended"}]
        /\ sender'[current] = "started"
        /\ \A j \in Requests : j # current => sender'[j] = sender[j]
    BY <2>1, <2>2, <1>t DEF Typed
  <2>4. Typed'
    BY <2>1, <2>3, <1>t DEF Typed, Done
  <2>5. Coherent'
    BY <2>1 DEF Turns, Coherent, Done
  <2>6. Present'
    BY <2>1, <2>2, <2>3 DEF Turns, Coherent, Present, Done, Over
  <2>7. QED
    BY <2>1, <2>2, <2>3, <2>4, <2>5, <2>6, TurnsCurrent
<1>10. ASSUME NEW i \in Requests, NEW more \in BOOLEAN, SendBody(i, more)
       PROVE  Turns'
  <2>1. /\ task[i] = "running" /\ sender[i] = "started" /\ our = "body"
        /\ UNCHANGED <<transport, parsing, their, keepAlive, current, task,
                       ended>>
        /\ \/ UNCHANGED <<our, sender>>
           \/ /\ sender' = [sender EXCEPT ![i] = "ended"]
              /\ our' = Done(keepAlive /\ their # "error")
    BY <1>10 DEF SendBody, Running, bodies
  <2>2. i = current /\ current \in Requests
    BY <2>1, OnlyCurrentRuns
  <2>3. CASE UNCHANGED <<our, sender>>
    BY <2>1, <2>3, <1>t, TurnsUnchanged DEF turnVars, Typed
  <2>4. CASE /\ sender' = [sender EXCEPT ![i] = "ended"]
             /\ our' = Done(keepAlive /\ their # "error")
    <3>1. /\ sender' \in [Requests -> {"none", "started", "ended"}]
          /\ sender'[current] = "ended"
          /\ \A j \in Requests : j # current => sender'[j] = sender[j]
      BY <2>4, <2>2, <1>t DEF Typed
    <3>2. Typed'
      BY <2>1, <2>4, <3>1, <1>t DEF Typed, Done
    <3>3. Coherent'
      BY <2>1, <2>4 DEF Turns, Coherent, Done
    <3>4. Present'
      BY <2>1, <2>2, <2>4, <3>1 DEF Turns, Coherent, Present, Done, Over
    <3>5. QED
      BY <2>1, <2>2, <3>1, <3>2, <3>3, <3>4, TurnsCurrent
  <2>5. QED
    BY <2>1, <2>3, <2>4
<1>11. ASSUME NEW i \in Requests, Finish(i) PROVE Turns'
  <2>1. /\ task[i] = "running"
        /\ task' = [task EXCEPT ![i] = "done"]
        /\ UNCHANGED <<parsing, keepAlive, current, ended, sender>>
        /\ IF our = "done" /\ their = "done"
           THEN our' = "idle" /\ their' = "idle" /\ transport' = transport
           ELSE /\ transport' = IF "mustclose" \in {our, their}
                                    /\ transport = "open"
                                THEN "closing" ELSE transport
                /\ our' = our /\ their' = their
    BY <1>11 DEF Finish, Returns, Running, bodies
  <2>2. i = current /\ current \in Requests
    BY <2>1, OnlyCurrentRuns
  <2>3. /\ task' \in [Requests -> {"none", "running", "done"}]
        /\ task'[current] = "done"
        /\ \A j \in Requests : j # current => task'[j] = task[j]
    BY <2>1, <2>2, <1>t DEF Typed
  <2>4. Typed'
    BY <2>1, <2>3, <1>t DEF Typed
  <2>5. Coherent'
    BY <2>1, <1>0, <2>2, SMT DEF Turns, Coherent, Requests
  <2>6. CASE our = "done" /\ their = "done"
    <3>1. Present'
      BY <2>1, <2>2, <2>3, <2>6 DEF Turns, Coherent, Present, Over
    <3>2. QED
      BY <2>1, <2>2, <2>3, <2>4, <2>5, <3>1, TurnsCurrent
  <2>7. CASE ~(our = "done" /\ their = "done")
    <3>1. Present'
      BY <2>1, <2>2, <2>3, <2>7 DEF Turns, Coherent, Present, Over
    <3>2. QED
      BY <2>1, <2>2, <2>3, <2>4, <2>5, <3>1, TurnsCurrent
  <2>8. QED
    BY <2>6, <2>7
<1>12. CASE UNCHANGED vars
  BY <1>12, <1>t, TurnsUnchanged DEF vars, turnVars, h11, bodies, Typed
<1>13. QED
  BY <1>1, <1>2, <1>3, <1>4, <1>5, <1>6, <1>7, <1>8, <1>9, <1>10, <1>11, <1>12
     DEF Next, Parse, AppStep

LEMMA TurnsInvariant == Spec => []Turns
BY TurnsInit, TurnsStep, PTL DEF Spec

(* Requests are processed one at a time: an application runs only when     *)
(* those of all earlier requests are done and have been answered.          *)
THEOREM RequestsAreSequential == Spec => []Sequential
<1>1. Turns => Sequential
  <2> SUFFICES ASSUME Turns, NEW i \in Requests, task[i] = "running",
                      NEW j \in 1..(i - 1)
               PROVE  /\ i = current
                      /\ task[j] = "done" /\ sender[j] = "ended" /\ ended[j]
    BY Zenon, OnlyCurrentRuns, Http11Assumption DEF Sequential
  <2>1. i = current
    BY OnlyCurrentRuns
  <2>2. j \in Requests /\ j < current
    BY <2>1, Http11Assumption DEF Requests
  <2>3. QED
    BY <2>1, <2>2 DEF Turns, Past, Over
<1>2. QED
  BY <1>1, TurnsInvariant, PTL

(* A connection that is not kept alive is closed when its last response is *)
(* complete and the application done.                                      *)
THEOREM ClosesAreHonoured == Spec => []CloseHonoured
<1>1. Turns => CloseHonoured
  BY DEF Turns, Present, CloseHonoured
<1>2. QED
  BY <1>1, TurnsInvariant, PTL

-----------------------------------------------------------------------------
(* The bodies.  What a request's queue holds continues what its            *)
(* application has received, and ends with the last message put.           *)

Continues(r, q, n) ==
    /\ Len(r) + Len(q) = n
    /\ \A k \in 1..Len(q) : q[k] = Len(r) + k

LEMMA EmptyContinues == <<>> \in Seq(Nat) /\ Continues(<<>>, <<>>, 0)
<1>1. <<>> \in Seq(Nat) /\ Len(<<>>) = 0
  OBVIOUS
<1>2. 1..Len(<<>>) = {}
  BY <1>1
<1>3. Len(<<>>) + Len(<<>>) = 0
  BY <1>1
<1>4. QED
  BY <1>1, <1>2, <1>3 DEF Continues

LEMMA AppendContinues ==
    ASSUME NEW r \in Seq(Nat), NEW q \in Seq(Nat), NEW n \in Nat,
           Continues(r, q, n)
    PROVE  /\ Append(q, n + 1) \in Seq(Nat)
           /\ Continues(r, Append(q, n + 1), n + 1)
<1> DEFINE a == Append(q, n + 1)
<1>1. Len(r) \in Nat /\ Len(q) \in Nat /\ n + 1 \in Nat
  OBVIOUS
<1>2. /\ a \in Seq(Nat) /\ Len(a) = Len(q) + 1 /\ a[Len(q) + 1] = n + 1
      /\ \A k \in 1..Len(q) : a[k] = q[k]
  BY <1>1
<1>3. Len(r) + Len(q) = n /\ \A k \in 1..Len(q) : q[k] = Len(r) + k
  BY DEF Continues
<1>4. Len(r) + (Len(q) + 1) = n + 1
  BY <1>1, <1>3
<1> HIDE DEF a
<1>5. ASSUME NEW k \in 1..(Len(q) + 1) PROVE a[k] = Len(r) + k
  <2>1. CASE k \in 1..Len(q)
    BY <2>1, <1>2, <1>3
  <2>2. CASE k = Len(q) + 1
    BY <2>2, <1>1, <1>2, <1>4
  <2>3. QED
    BY <2>1, <2>2, <1>1
<1>6. Continues(r, a, n + 1)
  BY <1>2, <1>4, <1>5 DEF Continues
<1>7. QED
  BY <1>2, <1>6 DEF a

LEMMA TakeContinues ==
    ASSUME NEW r \in Seq(Nat), NEW q \in Seq(Nat), NEW n \in Nat,
           Continues(r, q, n), q # <<>>
    PROVE  /\ Append(r, Head(q)) \in Seq(Nat) /\ Tail(q) \in Seq(Nat)
           /\ Head(q) = Len(r) + 1 /\ Len(r) < n
           /\ Continues(Append(r, Head(q)), Tail(q), n)
<1> DEFINE t == Tail(q)
<1> DEFINE a == Append(r, Head(q))
<1>1. Len(r) \in Nat /\ Len(q) \in Nat /\ Len(q) >= 1 /\ 1 \in 1..Len(q)
  OBVIOUS
<1>2. Len(r) + Len(q) = n /\ \A k \in 1..Len(q) : q[k] = Len(r) + k
  BY DEF Continues
<1>3. Head(q) = q[1] /\ q[1] = Len(r) + 1 /\ Head(q) \in Nat
  BY <1>1, <1>2
<1>4. a \in Seq(Nat) /\ Len(a) = Len(r) + 1
  BY <1>3
<1>5. /\ t \in Seq(Nat) /\ Len(t) = Len(q) - 1
      /\ \A k \in 1..(Len(q) - 1) : t[k] = q[k + 1]
  <2>1. t \in Seq(Nat) /\ Len(t) = Len(q) - 1
    BY <1>1
  <2>2. \A k \in 1..(Len(q) - 1) : Tail(q)[k] = q[k + 1]
    BY <1>1
  <2>3. QED
    BY <2>1, <2>2
<1> HIDE DEF t, a
<1>6. Len(a) + Len(t) = n
  <2>1. (Len(r) + 1) + (Len(q) - 1) = n
    <3>1. \A x, y \in Nat : x + y = n => (x + 1) + (y - 1) = n
      OBVIOUS
    <3> QED
      BY <1>1, <1>2, <3>1
  <2>2. QED
    BY <2>1, <1>4, <1>5
<1>7. ASSUME NEW k \in 1..Len(t) PROVE t[k] = Len(a) + k
  <2>1. k \in 1..(Len(q) - 1) /\ k + 1 \in 1..Len(q)
    BY <1>1, <1>5
  <2>2. t[k] = Len(r) + (k + 1)
    BY <2>1, <1>2, <1>5
  <2>3. QED
    BY <2>1, <2>2, <1>1, <1>4
<1>8. Continues(a, t, n)
  BY <1>6, <1>7 DEF Continues
<1>9. Len(r) < n
  BY <1>1, <1>2
<1>10. QED
  BY <1>3, <1>4, <1>5, <1>8, <1>9 DEF t, a

Handed(i) == Continues(received[i], queue[i], puts[i])

Handing ==
    /\ puts \in [Requests -> Nat]
    /\ queue \in [Requests -> Seq(Nat)]
    /\ received \in [Requests -> Seq(Nat)]
    /\ \A i \in Requests : Handed(i)
    /\ \A i \in Requests : current < i => queue[i] = <<>>

LEMMA HandingInit == Init => Handing
<1> SUFFICES ASSUME Init PROVE Handing
  OBVIOUS
<1>1. <<>> \in Seq(Nat) /\ Continues(<<>>, <<>>, 0) /\ 0 \in Nat
  BY EmptyContinues
<1>2. /\ puts \in [Requests -> Nat] /\ queue \in [Requests -> Seq(Nat)]
      /\ received \in [Requests -> Seq(Nat)]
  BY <1>1 DEF Init
<1>3. \A i \in Requests : puts[i] = 0 /\ queue[i] = <<>> /\ received[i] = <<>>
  BY DEF Init
<1>4. \A i \in Requests : Handed(i)
  BY <1>1, <1>3 DEF Handed
<1>5. QED
  BY <1>2, <1>3, <1>4 DEF Handing

PromiseStep ==
    \A i \in Requests :
        Promise(i)!Next \/ UNCHANGED <<puts[i], ended[i], received[i]>>

(* A put extends the queue of the current request, and no other.           *)
LEMMA PutStep ==
    ASSUME Turns, Handing, their = "body", current' = current, Put(current),
           \/ ended' = ended
           \/ ended' = [ended EXCEPT ![current] = TRUE]
    PROVE  Handing' /\ PromiseStep
<1>0. N \in Nat /\ current \in 0..N /\ current \in Requests
  BY Http11Assumption, SMT DEF Turns, Typed, Coherent, Requests
<1>1. ~ended[current]
  BY <1>0 DEF Turns, Present
<1>2. /\ puts' = [puts EXCEPT ![current] = puts[current] + 1]
      /\ queue' = [queue EXCEPT ![current] =
                     Append(queue[current], puts[current] + 1)]
      /\ received' = received
  BY DEF Put
<1>3. /\ puts[current] \in Nat /\ queue[current] \in Seq(Nat)
      /\ received[current] \in Seq(Nat) /\ Handed(current)
  BY <1>0 DEF Handing
<1>4. /\ puts'[current] = puts[current] + 1
      /\ queue'[current] = Append(queue[current], puts[current] + 1)
  BY <1>0, <1>2 DEF Handing
<1>5. \A i \in Requests : i # current =>
         puts'[i] = puts[i] /\ queue'[i] = queue[i] /\ ended'[i] = ended[i]
  BY <1>2 DEF Handing, Turns, Typed
<1>k. /\ Append(queue[current], puts[current] + 1) \in Seq(Nat)
      /\ Continues(received[current],
                   Append(queue[current], puts[current] + 1),
                   puts[current] + 1)
  BY <1>3, AppendContinues DEF Handed
<1>6. /\ puts' \in [Requests -> Nat] /\ queue' \in [Requests -> Seq(Nat)]
      /\ received' \in [Requests -> Seq(Nat)]
  <2>1. puts[current] + 1 \in Nat
    BY <1>3
  <2>2. QED
    BY <2>1, <1>2, <1>k DEF Handing
<1>7. Handed(current)'
  BY <1>2, <1>4, <1>k DEF Handed
<1>8. \A i \in Requests : Handed(i)'
  BY <1>2, <1>5, <1>7 DEF Handing, Handed
<1>9. Handing'
  <2>1. \A i \in Requests : current < i => i # current
    BY <1>0, SMT DEF Requests
  <2>2. QED
    BY <2>1, <1>5, <1>6, <1>8 DEF Handing
<1>10. PromiseStep
  <2> SUFFICES ASSUME NEW i \in Requests
               PROVE  Promise(i)!Next
                      \/ UNCHANGED <<puts[i], ended[i], received[i]>>
    BY DEF PromiseStep
  <2>1. CASE i # current
    BY <2>1, <1>2, <1>5
  <2>2. CASE i = current /\ ended' = ended
    BY <2>2, <1>1, <1>2, <1>4 DEF Promise!Next, Promise!Send
  <2>3. CASE i = current /\ ended' = [ended EXCEPT ![current] = TRUE]
    <3>1. ended'[i] = TRUE
      BY <2>3, <1>0 DEF Turns, Typed
    <3>2. QED
      BY <2>3, <3>1, <1>1, <1>2, <1>4 DEF Promise!Next, Promise!SendLast
  <2>4. QED
    BY <2>1, <2>2, <2>3
<1>11. QED
  BY <1>9, <1>10

LEMMA ReceiveStep ==
    ASSUME Turns, Handing, NEW j \in Requests, Receive(j)
    PROVE  Handing' /\ PromiseStep
<1> DEFINE q == queue[j]
<1> DEFINE r == received[j]
<1>1. /\ q # <<>> /\ received' = [received EXCEPT ![j] = Append(r, Head(q))]
      /\ queue' = [queue EXCEPT ![j] = Tail(q)]
      /\ UNCHANGED <<puts, ended, current>>
  BY DEF Receive
<1>2. q \in Seq(Nat) /\ r \in Seq(Nat) /\ puts[j] \in Nat /\ Handed(j)
  BY DEF Handing
<1>3. /\ Append(r, Head(q)) \in Seq(Nat) /\ Tail(q) \in Seq(Nat)
      /\ Head(q) = Len(r) + 1 /\ Len(r) < puts[j]
      /\ Continues(Append(r, Head(q)), Tail(q), puts[j])
  BY <1>1, <1>2, TakeContinues DEF Handed
<1>7. /\ received'[j] = Append(r, Head(q)) /\ queue'[j] = Tail(q)
      /\ \A i \in Requests : i # j =>
            received'[i] = received[i] /\ queue'[i] = queue[i]
  BY <1>1 DEF Handing
<1>8. /\ queue' \in [Requests -> Seq(Nat)]
      /\ received' \in [Requests -> Seq(Nat)]
  BY <1>1, <1>3 DEF Handing
<1>9. Handed(j)'
  BY <1>1, <1>3, <1>7 DEF Handed
<1>10. \A i \in Requests : current < i => queue'[i] = <<>>
  <2> SUFFICES ASSUME NEW i \in Requests, current < i PROVE queue'[i] = <<>>
    OBVIOUS
  <2>1. queue[i] = <<>>
    BY DEF Handing
  <2>2. i # j
    BY <2>1, <1>1
  <2>3. QED
    BY <2>1, <2>2, <1>7
<1>11. Handing'
  BY <1>1, <1>7, <1>8, <1>9, <1>10 DEF Handing, Handed
<1>12. Promise(j)!Receive
  BY <1>1, <1>3, <1>7 DEF Promise!Receive
<1>13. PromiseStep
  BY <1>1, <1>7, <1>12 DEF PromiseStep, Promise!Next
<1>14. QED
  BY <1>11, <1>13

(* Every other step leaves the bodies alone; a new request's queue is      *)
(* empty as it was.                                                        *)
LEMMA BodiesUnchanged ==
    ASSUME Turns, Handing, UNCHANGED bodies,
           current' = current \/ current' = current + 1
    PROVE  Handing' /\ PromiseStep
<1>0. N \in Nat /\ current \in 0..N
  BY Http11Assumption DEF Turns, Typed
<1>1. \A i \in Requests : current' < i => current < i
  BY <1>0, SMT DEF Requests
<1>2. QED
  BY <1>1 DEF bodies, Handing, Handed, PromiseStep

LEMMA BodiesStep ==
    ASSUME Turns, Handing, [Next]_vars
    PROVE  Handing' /\ PromiseStep
<1>0. N \in Nat /\ current \in 0..N
  BY Http11Assumption DEF Turns, Typed
<1>1. ASSUME NEW segment \in Segments, DataReceived(segment)
      PROVE  Handing' /\ PromiseStep
  BY <1>1, BodiesUnchanged DEF DataReceived
<1>2. CASE LoopEnds \/ EofReceived \/ ConnectionLost \/ ProtocolError
  BY <1>2, BodiesUnchanged DEF LoopEnds, EofReceived, ConnectionLost,
                               ProtocolError
<1>3. CASE RequestRefused \/ HandleWebsocketUpgrade \/ HandleH2cUpgrade
  BY <1>3, BodiesUnchanged DEF RequestRefused, HandleWebsocketUpgrade,
                               HandleH2cUpgrade, HeadParsed, NextRequest
<1>4. CASE Request
  <2>1. /\ current' = current + 1 /\ current + 1 \in Requests
        /\ queue' = [queue EXCEPT ![current + 1] = <<>>]
        /\ UNCHANGED <<puts, ended, received>>
    BY <1>4 DEF Request, HeadParsed, NextRequest
  <2>2. queue[current + 1] = <<>>
    BY <2>1, <1>0 DEF Handing
  <2>3. queue' = queue
    BY <2>1, <2>2 DEF Handing
  <2>4. QED
    BY <2>1, <2>3, BodiesUnchanged DEF bodies
<1>5. CASE Data
  BY <1>5, PutStep DEF Data
<1>6. CASE EndOfMessage
  BY <1>6, PutStep DEF EndOfMessage
<1>7. ASSUME NEW i \in Requests, AppStep(i)
      PROVE  Handing' /\ PromiseStep
  <2>1. CASE Receive(i)
    BY <2>1, ReceiveStep
  <2>2. CASE Finish(i)
    BY <2>2, BodiesUnchanged DEF Finish
  <2>3. ASSUME NEW close \in BOOLEAN, SendStart(i, close)
        PROVE  Handing' /\ PromiseStep
    BY <2>3, BodiesUnchanged DEF SendStart
  <2>4. ASSUME NEW more \in BOOLEAN, SendBody(i, more)
        PROVE  Handing' /\ PromiseStep
    BY <2>4, BodiesUnchanged DEF SendBody
  <2>5. QED
    BY <1>7, <2>1, <2>2, <2>3, <2>4 DEF AppStep
<1>8. CASE UNCHANGED vars
  BY <1>8, BodiesUnchanged DEF vars
<1>9. QED
  BY <1>1, <1>2, <1>3, <1>4, <1>5, <1>6, <1>7, <1>8 DEF Next, Parse

(* The receive path of HTTP/1.1 keeps the promise of RequestBody for every *)
(* request, however long its body.                                         *)
THEOREM BodiesAreDelivered == Spec => ImplementsRequestBody
<1>1. Init => \A i \in Requests : Promise(i)!Init
  BY DEF Init, Promise!Init
<1>2. Turns /\ Handing /\ [Next]_vars => Handing'
  BY BodiesStep
<1>3. Turns /\ Handing /\ [Next]_vars =>
        [\A i \in Requests :
            Promise(i)!Next \/ UNCHANGED <<puts[i], ended[i], received[i]>>]_vars
  BY BodiesStep DEF PromiseStep
<1>4. QED
  BY <1>1, <1>2, <1>3, HandingInit, TurnsInvariant, PTL
     DEF Spec, ImplementsRequestBody

-----------------------------------------------------------------------------
(* What TypeOK says of the wire; h11 and the requests are in Turns, the    *)
(* bodies in Handing.                                                      *)
Client == [req : 0..N, open : BOOLEAN, sent : SUBSET (Last \cup {"zero"}),
           data : [Requests -> 0..MaxData]]

Written == [req : 0..N, part : {"start", "data", "end", "error", "switch"}]

Wire ==
    /\ protocol \in {"http11", "websocket", "h2"}
    /\ buffer \in Seq(Kinds)
    /\ out \in Seq(Written)
    /\ client \in Client
    /\ left \subseteq Requests

LEMMA AfterTyped ==
    ASSUME NEW c \in Client, NEW item \in Items(c)
    PROVE  item \in Kinds /\ After(c, item) \in Client
<1>0. N \in Nat /\ MaxData \in Nat
  BY Http11Assumption
<1>1. item \in Kinds
  BY DEF Items
<1>2. CASE item = "head"
  <2>1. MayAsk(c)
    BY <1>2 DEF Items
  <2>2. c.req + 1 \in 0..N
    BY <1>0, <2>1 DEF MayAsk, Client
  <2>3. After(c, item) = [c EXCEPT !.req = c.req + 1,
                                   !.open = c.req + 1 \notin WebSockets \cup Upgrades]
    BY <1>2 DEF After
  <2> QED
    BY <1>1, <2>2, <2>3 DEF Client
<1>3. CASE item \in {"data", "zero"}
  <2>1. c.data[c.req] < MaxData
    BY <1>3 DEF Items
  <2> DEFINE more == [c.data EXCEPT ![c.req] = c.data[c.req] + 1]
             sent == IF item = "zero" THEN c.sent \cup {"zero"} ELSE c.sent
  <2>2. After(c, item) = [[c EXCEPT !.data = more] EXCEPT !.sent = sent]
    <3>1. CASE item = "data"
      BY <3>1 DEF After, Client
    <3>2. CASE item = "zero"
      BY <3>2 DEF After, Client
    <3> QED
      BY <1>3, <3>1, <3>2
  <2>3. [c.data EXCEPT ![c.req] = c.data[c.req] + 1] \in [Requests -> 0..MaxData]
    <3>1. c.data \in [Requests -> 0..MaxData]
      BY DEF Client
    <3>2. CASE c.req \in Requests
      <4>1. c.data[c.req] + 1 \in 0..MaxData
        BY <1>0, <2>1, <3>1, <3>2
      <4> QED
        BY <3>1, <4>1
    <3>3. CASE c.req \notin Requests
      BY <3>1, <3>3
    <3> QED
      BY <3>2, <3>3
  <2>4. sent \in SUBSET (Last \cup {"zero"})
    BY DEF Client
  <2> HIDE DEF more, sent
  <2> QED
    BY <1>1, <2>2, <2>3, <2>4 DEF Client, more
<1>4. CASE item = "end"
  BY <1>1, <1>4 DEF After, Client
<1>5. CASE item \in Last
  <2>1. After(c, item) = [c EXCEPT !.sent = c.sent \cup {item}]
    BY <1>5 DEF After, Last
  <2>2. c.sent \cup {item} \in SUBSET (Last \cup {"zero"})
    BY <1>5 DEF Client
  <2> QED
    BY <1>1, <2>1, <2>2 DEF Client
<1> QED
  BY <1>1, <1>2, <1>3, <1>4, <1>5 DEF Kinds, Last

LEMMA SegmentTyped ==
    ASSUME client \in Client, NEW segment \in Segments
    PROVE  segment \in Seq(Kinds) /\ Sent(segment) \in Client
<1>1. CASE \E x \in Items(client) : segment = <<x>>
  <2>1. PICK x \in Items(client) : segment = <<x>>
    BY <1>1
  <2>2. x \in Kinds /\ After(client, x) \in Client
    BY AfterTyped
  <2>3. Len(segment) = 1 /\ segment[1] = x /\ segment \in Seq(Kinds)
    BY <2>1, <2>2
  <2>4. Sent(segment) = After(client, x)
    BY <2>3 DEF Sent
  <2> QED
    BY <2>2, <2>3, <2>4
<1>2. CASE \E x \in Items(client) : \E y \in Items(After(client, x)) : segment = <<x, y>>
  <2>1. PICK x \in Items(client) : \E y \in Items(After(client, x)) : segment = <<x, y>>
    BY <1>2
  <2>2. PICK y \in Items(After(client, x)) : segment = <<x, y>>
    BY <2>1
  <2>3. x \in Kinds /\ After(client, x) \in Client
    BY AfterTyped
  <2>4. y \in Kinds /\ After(After(client, x), y) \in Client
    BY <2>3, AfterTyped
  <2>5. Len(segment) = 2 /\ segment[1] = x /\ segment[2] = y /\ segment \in Seq(Kinds)
    BY <2>2, <2>3, <2>4
  <2>6. Sent(segment) = After(After(client, x), y)
    BY <2>5 DEF Sent
  <2> QED
    BY <2>4, <2>5, <2>6
<1> QED
  BY <1>1, <1>2 DEF Segments

LEMMA WriteTyped ==
    ASSUME out \in Seq(Written), NEW i \in 0..N,
           NEW part \in {"start", "data", "end", "error", "switch"}, Write(part, i)
    PROVE  out' \in Seq(Written)
<1>1. [req |-> i, part |-> part] \in Written
  BY DEF Written
<1> QED
  BY <1>1 DEF Write

LEMMA WireStep ==
    ASSUME Wire, Turns, [Next]_vars
    PROVE  Wire'
<1> USE DEF h11, bodies, tasks
<1>0. N \in Nat /\ 0 \in 0..N /\ current \in 0..N
  BY Http11Assumption DEF Turns, Typed
<1>1. ASSUME NEW segment \in Segments, DataReceived(segment) PROVE Wire'
  <2>1. segment \in Seq(Kinds) /\ client' \in Client
    BY <1>1, SegmentTyped DEF Wire, DataReceived
  <2>2. buffer' \in Seq(Kinds)
    <3>1. CASE HasZero(segment)
      BY <1>1, <3>1 DEF Wire, DataReceived
    <3>2. CASE ~HasZero(segment)
      <4>1. buffer' = buffer \o segment
        BY <1>1, <3>2, Zenon DEF DataReceived
      <4>2. buffer \in Seq(Kinds)
        BY DEF Wire
      <4>3. \A p, q \in Seq(Kinds) : p \o q \in Seq(Kinds)
        OBVIOUS
      <4> QED
        BY <2>1, <4>1, <4>2, <4>3, Zenon
    <3> QED
      BY <3>1, <3>2
  <2>3. out' \in Seq(Written)
    <3>1. out' = out \/ Write("error", 0)
      BY <1>1 DEF DataReceived, SendErrorResponse
    <3> QED
      BY <1>0, <3>1, WriteTyped DEF Wire
  <2> QED
    BY <1>1, <2>1, <2>2, <2>3 DEF Wire, DataReceived
<1>2. CASE LoopEnds \/ EofReceived \/ ConnectionLost \/ UNCHANGED vars
  BY <1>2 DEF LoopEnds, EofReceived, ConnectionLost, vars, Wire
<1>3. CASE ProtocolError
  <2>1. out' \in Seq(Written)
    BY <1>0, <1>3, WriteTyped DEF Wire, ProtocolError, SendErrorResponse
  <2> QED
    BY <1>3, <2>1 DEF Wire, ProtocolError
<1>4. CASE RequestRefused \/ Request \/ HandleWebsocketUpgrade \/ HandleH2cUpgrade
  <2>1. HeadParsed /\ NextRequest \in 0..N
    BY <1>0, <1>4 DEF RequestRefused, Request, HandleWebsocketUpgrade, HandleH2cUpgrade,
                      HeadParsed, NextRequest, Requests
  <2>2. buffer' \in Seq(Kinds)
    BY <2>1 DEF Wire, HeadParsed, NoEvent
  <2>3. out' \in Seq(Written)
    <3>1. \/ out' = out \/ Write("error", 0) \/ Write("switch", NextRequest)
      BY <1>4 DEF RequestRefused, Request, HandleWebsocketUpgrade, HandleH2cUpgrade,
                  SendErrorResponse
    <3> QED
      BY <1>0, <2>1, <3>1, WriteTyped DEF Wire
  <2>4. protocol' \in {"http11", "websocket", "h2"} /\ client' = client
    BY <1>4 DEF Wire, RequestRefused, Request, HandleWebsocketUpgrade, HandleH2cUpgrade
  <2>5. left' = left
    BY <1>4 DEF RequestRefused, Request, HandleWebsocketUpgrade, HandleH2cUpgrade
  <2> QED
    BY <2>2, <2>3, <2>4, <2>5 DEF Wire
<1>5. CASE Data \/ EndOfMessage
  <2>1. buffer' = Tail(buffer) /\ buffer # <<>> /\ UNCHANGED <<protocol, out, client, left>>
    BY <1>5 DEF Data, EndOfMessage, NoEvent, Put
  <2> QED
    BY <2>1 DEF Wire
<1>6. ASSUME NEW i \in Requests, AppStep(i) PROVE Wire'
  <2>1. UNCHANGED <<protocol, buffer, client>>
    BY <1>6 DEF AppStep, Receive, SendStart, SendBody, Finish
  <2>2. i \in 0..N
    BY <1>0 DEF Requests
  <2>3. \/ out' = out
        \/ \E part \in {"start", "data", "end"} : Write(part, i)
    BY <1>6 DEF AppStep, Receive, SendStart, SendBody, Finish
  <2>4. out' \in Seq(Written)
    BY <2>2, <2>3, WriteTyped DEF Wire
  <2>5. left' \subseteq Requests
    BY <1>6 DEF AppStep, Receive, SendStart, SendBody, Finish, Returns, Wire
  <2> QED
    BY <2>1, <2>4, <2>5 DEF Wire
<1> QED
  BY <1>1, <1>2, <1>3, <1>4, <1>5, <1>6 DEF Next, Parse

LEMMA WireInit == Init => Wire
<1>1. 0 \in 0..N /\ 0 \in 0..MaxData
  BY Http11Assumption
<1> QED
  BY <1>1 DEF Init, Wire, Client

LEMMA WireInvariant == Spec => []Wire
<1>1. Turns /\ Wire /\ [Next]_vars => Wire'
  BY WireStep
<1> QED
  BY <1>1, WireInit, TurnsInvariant, PTL DEF Spec

(* Every variable stays within its type; among them h11's two states,      *)
(* which are idle and done together as the next cycle requires             *)
(* (data_received, _handle_request).                                       *)
THEOREM TypeCorrect == Spec => []TypeOK
<1>1. Turns /\ Handing /\ [Next]_vars => Handing'
  BY BodiesStep
<1>2. Turns /\ Handing /\ Wire => TypeOK
  BY DEF Turns, Typed, Coherent, Handing, Wire, Client, Written, TypeOK
<1> QED
  BY <1>1, <1>2, HandingInit, TurnsInvariant, WireInvariant, PTL DEF Spec

-----------------------------------------------------------------------------
(* The order of what is written.                                           *)
End(i) == [req |-> i, part |-> "end"]

(* A response that is complete has its end on the wire as long as writing  *)
(* works, behind everything else that belongs to it.                       *)
EndsWritten ==
    transport = "open" =>
        \A p \in DOMAIN out, i \in Requests :
            out[p].part # "error" /\ out[p].req = i /\ sender[i] = "ended" =>
                \E r \in p..Len(out) : out[r] = End(i)

OrderInv ==
    /\ \A p \in DOMAIN out : out[p].part # "error" => out[p].req \in 1..current
    /\ EndsWritten
    /\ ResponsesInOrder

(* Something is written for the current request.                           *)
LEMMA OrderWrites ==
    ASSUME Turns', Wire, OrderInv, NEW i \in Requests, current' = i,
           current = i \/ current + 1 = i, current \in Nat,
           NEW part \in {"start", "data", "end", "switch"}, Write(part, i),
           transport' = transport,
           \A j \in Requests : j # i => sender'[j] = sender[j],
           sender[i] # "ended", sender'[i] = "ended" => part = "end"
    PROVE  OrderInv'
<1> DEFINE n == Len(out)
           new == [req |-> i, part |-> part]
<1>1. /\ out \in Seq(Written) /\ n \in Nat /\ DOMAIN out = 1..n
      /\ i \in Nat /\ i \in 1..i /\ current \in Nat
      /\ \A x \in 1..current : x \in 1..i /\ x \in Requests
  BY Http11Assumption DEF Wire, Requests
<1>2. \A p \in DOMAIN out : out[p].part # "error" => out[p].req \in 1..i
  BY <1>1 DEF OrderInv
<1>3. CASE transport # "open"
  <2>1. out' = out
    BY <1>3 DEF Write
  <2> QED
    BY <1>2, <1>3, <2>1 DEF OrderInv, EndsWritten, ResponsesInOrder
<1>4. CASE transport = "open"
  <2>1. /\ out' = Append(out, new) /\ Len(out') = n + 1 /\ DOMAIN out' = 1..(n + 1)
        /\ out'[n + 1] = new /\ \A p \in 1..n : out'[p] = out[p]
        /\ \A p \in 1..(n + 1) : p \in 1..n \/ p = n + 1
    <3>1. \A w \in Seq(Written) : \A x :
            /\ Len(Append(w, x)) = Len(w) + 1 /\ DOMAIN Append(w, x) = 1..(Len(w) + 1)
            /\ Append(w, x)[Len(w) + 1] = x /\ \A p \in 1..Len(w) : Append(w, x)[p] = w[p]
      OBVIOUS
    <3>2. out' = Append(out, new)
      BY <1>4 DEF Write
    <3> QED
      BY <1>1, <3>1, <3>2
  <2>2. new.req = i /\ new.part = part /\ (part = "end" => new = End(i)) /\ part # "error"
    BY DEF End
  <2>3. ASSUME NEW p \in 1..n, NEW j \in Requests, out[p].part # "error", out[p].req = j, j # i
        PROVE  j < i /\ sender[j] = "ended" /\ sender'[j] = "ended"
    <3>1. j \in Nat /\ j \in 1..i
      BY <1>1, <1>2, <2>3 DEF Requests
    <3>2. j < i
      BY <1>1, <2>3, <3>1
    <3>3. sender'[j] = "ended"
      BY <3>2 DEF Turns, Past, Over
    <3> QED
      BY <2>3, <3>2, <3>3
  <2>4. ASSUME NEW p \in 1..n, NEW j \in Requests, out[p].part # "error", out[p].req = j, j # i
        PROVE  \E r \in p..n : out[r] = End(j)
    BY <1>1, <1>4, <2>3, <2>4 DEF OrderInv, EndsWritten
  <2>5. \A p \in 1..n : p..n \subseteq p..(n + 1) /\ p..n \subseteq 1..n /\ n + 1 \in p..(n + 1)
                        /\ p..((n + 1) - 1) = p..n
    BY <1>1
  <2>6. n + 1 \in (n + 1)..(n + 1)
    BY <1>1
  <2> HIDE DEF n, new
  <2>7. \A p \in DOMAIN out' : out'[p].part # "error" => out'[p].req \in 1..i
    BY <1>1, <1>2, <2>1, <2>2
  <2>8. EndsWritten'
    <3> SUFFICES ASSUME NEW p \in 1..(n + 1), NEW j \in Requests,
                        out'[p].part # "error", out'[p].req = j, sender'[j] = "ended"
                 PROVE  \E r \in p..(n + 1) : out'[r] = End(j)
      BY <2>1 DEF EndsWritten
    <3>1. CASE p = n + 1
      BY <2>1, <2>2, <2>6, <3>1
    <3>2. CASE p \in 1..n /\ j = i
      BY <2>1, <2>2, <2>5, <3>2
    <3>3. CASE p \in 1..n /\ j # i
      BY <2>1, <2>4, <2>5, <3>3
    <3> QED
      BY <2>1, <3>1, <3>2, <3>3
  <2>9. ResponsesInOrder'
    <3> SUFFICES ASSUME NEW p \in 1..(n + 1), NEW q \in 1..(n + 1), p < q,
                        out'[p].part # "error", out'[q].part # "error",
                        out'[p].req # out'[q].req
                 PROVE  /\ out'[p].req < out'[q].req
                        /\ \E r \in p..(q - 1) : out'[r] = End(out'[p].req)
      BY <2>1 DEF ResponsesInOrder, End
    <3>1. p \in 1..n
      BY <1>1, <2>1
    <3>2. CASE q \in 1..n
      <4>1. /\ out[p].req < out[q].req
            /\ \E r \in p..(q - 1) : out[r] = End(out[p].req)
        BY <1>1, <2>1, <3>1, <3>2 DEF OrderInv, ResponsesInOrder, End
      <4>2. p..(q - 1) \subseteq 1..n
        BY <1>1, <3>1, <3>2
      <4> QED
        BY <2>1, <3>1, <3>2, <4>1, <4>2
    <3>3. CASE q = n + 1
      <4>1. PICK j \in Requests : out[p].req = j /\ out[p].part # "error" /\ j # i
        BY <1>1, <1>2, <2>1, <2>2, <3>1, <3>3
      <4>2. j < i /\ \E r \in p..n : out[r] = End(j)
        BY <2>3, <2>4, <3>1, <4>1
      <4> QED
        BY <2>1, <2>2, <2>5, <3>1, <3>3, <4>1, <4>2
    <3> QED
      BY <2>1, <3>2, <3>3
  <2> QED
    BY <2>7, <2>8, <2>9 DEF OrderInv
<1> QED
  BY <1>3, <1>4

(* Steps that write an error and close, or write nothing.                  *)
LEMMA OrderKept ==
    ASSUME Wire, OrderInv, current \in Nat, current' \in Nat, current <= current',
           \/ out' = out /\ (transport # "open" => transport' # "open")
           \/ Write("error", 0) /\ transport' # "open",
           \A j \in Requests : sender'[j] = "ended" => sender[j] = "ended"
    PROVE  OrderInv'
<1>1. \A x \in 1..current : x \in 1..current'
  OBVIOUS
<1>2. CASE out' = out /\ (transport # "open" => transport' # "open")
  BY <1>1, <1>2 DEF OrderInv, EndsWritten, ResponsesInOrder
<1>3. CASE Write("error", 0) /\ transport' # "open"
  <2> DEFINE new == [req |-> 0, part |-> "error"]
  <2>1. CASE out' = Append(out, new)
    <3>1. /\ \A p \in DOMAIN out' : p \in DOMAIN out \/ out'[p].part = "error"
          /\ \A p \in DOMAIN out : out'[p] = out[p] /\ p \in DOMAIN out'
      <4>1. \A w \in Seq(Written) : \A x :
              /\ DOMAIN Append(w, x) = DOMAIN w \cup {Len(w) + 1}
              /\ Append(w, x)[Len(w) + 1] = x /\ \A p \in DOMAIN w : Append(w, x)[p] = w[p]
        OBVIOUS
      <4>2. new.part = "error"
        OBVIOUS
      <4> HIDE DEF new
      <4> QED
        BY <2>1, <4>1, <4>2 DEF Wire
    <3>2. \A p \in DOMAIN out' : out'[p].part # "error" =>
            p \in DOMAIN out /\ out'[p] = out[p]
      BY <3>1
    <3>3. ResponsesInOrder'
      <4> SUFFICES ASSUME NEW p \in DOMAIN out', NEW q \in DOMAIN out', p < q,
                          out'[p].part # "error", out'[q].part # "error",
                          out'[p].req # out'[q].req
                   PROVE  /\ out'[p].req < out'[q].req
                          /\ \E r \in p..(q - 1) : out'[r] = End(out'[p].req)
        BY DEF ResponsesInOrder, End
      <4>1. p \in DOMAIN out /\ q \in DOMAIN out /\ out'[p] = out[p] /\ out'[q] = out[q]
        BY <3>2
      <4>2. /\ out[p].req < out[q].req
            /\ \E r \in p..(q - 1) : out[r] = End(out[p].req)
        BY <4>1 DEF OrderInv, ResponsesInOrder, End
      <4>3. p..(q - 1) \subseteq DOMAIN out
        BY <4>1 DEF Wire
      <4> QED
        BY <3>1, <4>1, <4>2, <4>3
    <3> QED
      BY <1>1, <1>3, <3>2, <3>3 DEF OrderInv, EndsWritten
  <2>2. CASE out' = out
    BY <1>1, <1>3, <2>2 DEF OrderInv, EndsWritten, ResponsesInOrder
  <2> QED
    BY <1>3, <2>1, <2>2 DEF Write
<1> QED
  BY <1>2, <1>3

LEMMA OrderInvStep ==
    ASSUME Turns, Turns', Wire, OrderInv, [Next]_vars
    PROVE  OrderInv'
<1>0. N \in Nat /\ current \in Nat /\ current <= current /\ current <= current + 1
      /\ Requests \subseteq Nat
  BY Http11Assumption DEF Turns, Typed, Requests
<1>1. ASSUME NEW segment \in Segments, DataReceived(segment) PROVE OrderInv'
  BY <1>0, <1>1, OrderKept DEF DataReceived, SendErrorResponse
<1>2. CASE LoopEnds \/ ProtocolError \/ Data \/ EndOfMessage \/ EofReceived \/ ConnectionLost
  BY <1>0, <1>2, OrderKept
     DEF LoopEnds, ProtocolError, Data, EndOfMessage, EofReceived, ConnectionLost,
         SendErrorResponse
<1>3. CASE RequestRefused \/ Request \/ HandleWebsocketUpgrade
  <2>1. current' = current + 1
    BY <1>3 DEF RequestRefused, Request, HandleWebsocketUpgrade, HeadParsed, NextRequest
  <2> QED
    BY <1>0, <1>3, <2>1, OrderKept
       DEF RequestRefused, Request, HandleWebsocketUpgrade, SendErrorResponse
<1>4. CASE HandleH2cUpgrade
  <2>1. /\ NextRequest \in Requests /\ current' = NextRequest /\ current + 1 = NextRequest
        /\ Write("switch", NextRequest) /\ UNCHANGED <<transport, sender>>
    BY <1>4 DEF HandleH2cUpgrade, HeadParsed, NextRequest
  <2>2. sender[NextRequest] = "none"
    BY <1>0, <2>1 DEF Turns, Future
  <2> QED
    BY <1>0, <2>1, <2>2, OrderWrites
<1>5. ASSUME NEW i \in Requests, AppStep(i) PROVE OrderInv'
  <2>1. CASE Receive(i) \/ Finish(i)
    BY <1>0, <2>1, OrderKept DEF Receive, Finish, Returns
  <2>2. ASSUME NEW close \in BOOLEAN, SendStart(i, close) PROVE OrderInv'
    <3>1. /\ i = current /\ current' = current /\ Write("start", i) /\ transport' = transport
          /\ sender' = [sender EXCEPT ![i] = "started"] /\ sender[i] = "none"
      BY <2>2, OnlyCurrentRuns DEF SendStart, Running
    <3>2. sender'[i] = "started" /\ \A j \in Requests : j # i => sender'[j] = sender[j]
      BY <3>1 DEF Turns, Typed
    <3> QED
      BY <1>0, <3>1, <3>2, OrderWrites
  <2>3. ASSUME NEW more \in BOOLEAN, SendBody(i, more) PROVE OrderInv'
    <3>1. /\ i = current /\ current' = current /\ transport' = transport /\ sender[i] = "started"
          /\ IF more THEN Write("data", i) /\ sender' = sender
             ELSE Write("end", i) /\ sender' = [sender EXCEPT ![i] = "ended"]
      BY <2>3, OnlyCurrentRuns DEF SendBody, Running
    <3>2. CASE more
      BY <1>0, <3>1, <3>2, OrderWrites
    <3>3. CASE ~more
      <4>1. \A j \in Requests : j # i => sender'[j] = sender[j]
        BY <3>1, <3>3 DEF Turns, Typed
      <4> QED
        BY <1>0, <3>1, <3>3, <4>1, OrderWrites
    <3> QED
      BY <3>2, <3>3
  <2> QED
    BY <1>5, <2>1, <2>2, <2>3 DEF AppStep
<1>6. CASE UNCHANGED vars
  BY <1>0, <1>6, OrderKept DEF vars
<1> QED
  BY <1>1, <1>2, <1>3, <1>4, <1>5, <1>6 DEF Next, Parse

(* For any client and any application: on the wire the responses follow    *)
(* each other in the order of the requests, each one complete before the   *)
(* next begins, and a switch of protocols comes after all of them          *)
(* (_create_sender, _handle_h2c_upgrade).                                  *)
THEOREM ResponsesAreInOrder == Spec => []ResponsesInOrder
<1>1. Init => OrderInv
  BY DEF Init, OrderInv, EndsWritten, ResponsesInOrder
<1>2. Turns /\ Turns' /\ Wire /\ OrderInv /\ [Next]_vars => OrderInv'
  BY OrderInvStep
<1>3. OrderInv => ResponsesInOrder
  BY DEF OrderInv
<1> QED
  BY <1>1, <1>2, <1>3, TurnsInvariant, WireInvariant, PTL DEF Spec

-----------------------------------------------------------------------------
(* Keep-alive.  A request whose task is there has not been refused; when   *)
(* it is done, the next cycle has been started, or its body or its         *)
(* response was not over.                                                  *)
ReadyInv ==
    transport = "open" /\ protocol = "http11" =>
        /\ their # "error"
        /\ current \in Requests =>
              /\ task[current] # "none"
              /\ task[current] = "done" =>
                    \/ their = "idle"
                    \/ current \in left /\ keepAlive
                    \/ current \in Failing /\ sender[current] # "ended"

LEMMA ReadyInvStep ==
    ASSUME Turns, ReadyInv, [Next]_vars
    PROVE  ReadyInv'
<1>0. N \in Nat /\ current \in 0..N
  BY Http11Assumption DEF Turns, Typed
<1> USE DEF tasks
<1>1. ASSUME NEW segment \in Segments, DataReceived(segment) PROVE ReadyInv'
  BY <1>1 DEF DataReceived, ReadyInv
<1>2. CASE LoopEnds \/ ProtocolError \/ EofReceived \/ ConnectionLost \/ RequestRefused
           \/ HandleWebsocketUpgrade \/ HandleH2cUpgrade \/ Data \/ UNCHANGED vars
  BY <1>2 DEF LoopEnds, ProtocolError, EofReceived, ConnectionLost, RequestRefused,
              HandleWebsocketUpgrade, HandleH2cUpgrade, Data, SendErrorResponse, vars,
              ReadyInv, h11
<1>3. CASE Request
  <2>1. /\ current' = current + 1 /\ current + 1 \in Requests /\ their' = "body"
        /\ task' = [task EXCEPT ![current + 1] = "running"]
    BY <1>3 DEF Request, HeadParsed, NextRequest
  <2>2. task'[current + 1] = "running"
    BY <2>1 DEF Turns, Typed
  <2> QED
    BY <2>1, <2>2 DEF ReadyInv
<1>4. CASE EndOfMessage
  BY <1>4 DEF EndOfMessage, ReadyInv, Done
<1>5. ASSUME NEW i \in Requests, AppStep(i) PROVE ReadyInv'
  <2>1. task[i] = "running" /\ UNCHANGED <<protocol, current, ended>>
    BY <1>5 DEF AppStep, Receive, SendStart, SendBody, Finish, Returns, Running, bodies
  <2>2. i = current /\ current \in Requests
    BY <2>1, OnlyCurrentRuns
  <2>3. CASE Receive(i)
    BY <2>3 DEF Receive, ReadyInv, h11
  <2>4. ASSUME NEW close \in BOOLEAN, SendStart(i, close) PROVE ReadyInv'
    BY <2>1, <2>2, <2>4 DEF SendStart, ReadyInv, Done
  <2>5. ASSUME NEW more \in BOOLEAN, SendBody(i, more) PROVE ReadyInv'
    BY <2>1, <2>2, <2>5 DEF SendBody, ReadyInv
  <2>6. CASE Finish(i)
    <3>1. /\ sender[i] = "ended" \/ i \in Failing
          /\ UNCHANGED <<sender, keepAlive>>
          /\ left' = IF ended[i] THEN left ELSE left \cup {i}
          /\ IF our = "done" /\ their = "done"
             THEN our' = "idle" /\ their' = "idle" /\ transport' = transport
             ELSE /\ transport' = IF "mustclose" \in {our, their} /\ transport = "open"
                                  THEN "closing" ELSE transport
                  /\ our' = our /\ their' = their
      BY <2>6 DEF Finish, Returns
    <3> SUFFICES ASSUME transport' = "open", protocol' = "http11" PROVE ReadyInv'
      BY DEF ReadyInv
    <3>2. transport = "open" /\ protocol = "http11" /\ their # "error"
      BY <2>1, <3>1 DEF ReadyInv
    <3>3. task'[current] = "done"
      BY <2>2, <2>6 DEF Finish, Returns, Turns, Typed
    <3>4. CASE sender[i] # "ended"
      BY <2>1, <2>2, <3>1, <3>2, <3>3, <3>4 DEF ReadyInv
    <3>5. CASE sender[i] = "ended"
      <4>1. our \in {"done", "mustclose"}
        BY <2>1, <2>2, <3>5 DEF Turns, Present
      <4>2. our = "done"
        BY <3>1, <3>2, <4>1
      <4>3. keepAlive
        BY <4>2 DEF Turns, Coherent
      <4>4. CASE ended[i]
        <5>1. their \in {"done", "mustclose"}
          BY <2>1, <2>2, <3>2, <4>4 DEF Turns, Typed, Present, Over
        <5> QED
          BY <2>1, <2>2, <3>1, <3>2, <3>3, <4>2, <5>1 DEF ReadyInv
      <4>5. CASE ~ended[i]
        BY <2>1, <2>2, <3>1, <3>2, <3>3, <4>2, <4>3, <4>5 DEF ReadyInv
      <4> QED
        BY <4>4, <4>5
    <3> QED
      BY <3>4, <3>5
  <2> QED
    BY <1>5, <2>3, <2>4, <2>5, <2>6 DEF AppStep
<1> QED
  BY <1>1, <1>2, <1>3, <1>4, <1>5 DEF Next, Parse

(* For any client and any application: an open connection on which no      *)
(* application runs waits for a new request, with h11 ready to parse it,   *)
(* but for the two cases the property names (_handle_request's finally     *)
(* clause).                                                                *)
THEOREM ConnectionsAreReused == Spec => []ReadyForNext
<1>1. Init => ReadyInv
  BY Http11Assumption DEF Init, ReadyInv, Requests
<1>2. Turns /\ ReadyInv /\ [Next]_vars => ReadyInv'
  BY ReadyInvStep
<1>3. Turns /\ ReadyInv => ReadyForNext
  <2> SUFFICES ASSUME Turns, ReadyInv, transport = "open", protocol = "http11",
                      \A i \in Requests : task[i] # "running"
               PROVE  \/ their = "idle" /\ our = "idle"
                      \/ current \in left /\ keepAlive
                      \/ current \in Failing /\ sender[current] # "ended"
    BY DEF ReadyForNext
  <2>1. current = 0 \/ current \in Requests
    BY Http11Assumption DEF Turns, Typed, Requests
  <2> QED
    BY <2>1 DEF Turns, Typed, Coherent, ReadyInv
<1> QED
  BY <1>1, <1>2, <1>3, TurnsInvariant, PTL DEF Spec

-----------------------------------------------------------------------------
(* Errors.  As long as the client has given no reason for one on the wire, *)
(* what h11 still holds is well-formed, and every head in it is of a       *)
(* request after the current one: a head that comes where h11 must close   *)
(* is a request behind the last one.                                       *)
Rude(c) == c.sent \cap {"zero", "bad", "long"} # {}

Heads(b) == {k \in DOMAIN b : b[k] = "head"}

Fits(c, b) ==
    /\ current + Cardinality(Heads(b)) <= c.req
    /\ \A k \in DOMAIN b : b[k] \in {"head", "data", "end", "preface"}
    /\ \A k \in DOMAIN b : b[k] = "end" =>
          IF k = Len(b) THEN ~c.open /\ c.req \notin WebSockets \cup Upgrades
          ELSE b[k + 1] = "head"
    /\ c.open => c.req \notin WebSockets \cup Upgrades
    /\ their \in {"idle", "done", "mustclose"} =>
          IF b = <<>> THEN ~c.open /\ c.req \notin Upgrades ELSE b[1] = "head"

ProvokedInv ==
    /\ Rude(client) \/ Fits(client, buffer)
    /\ their = "mustclose" => ~keepAlive
    /\ (\E p \in DOMAIN out : out[p].part = "error") =>
          transport # "open" /\ ~parsing /\ Provoked

LEMMA Appended ==
    ASSUME NEW b \in Seq(Kinds), NEW item \in Kinds
    PROVE  /\ Append(b, item) \in Seq(Kinds) /\ Append(b, item) # <<>>
           /\ Len(b) \in Nat /\ Len(Append(b, item)) = Len(b) + 1
           /\ DOMAIN b = 1..Len(b) /\ DOMAIN Append(b, item) = 1..(Len(b) + 1)
           /\ Append(b, item)[Len(b) + 1] = item
           /\ \A k \in 1..Len(b) : Append(b, item)[k] = b[k]
           /\ b = <<>> <=> Len(b) = 0
OBVIOUS

LEMMA Taken ==
    ASSUME NEW b \in Seq(Kinds), b # <<>>
    PROVE  /\ Len(b) \in Nat \ {0} /\ DOMAIN b = 1..Len(b) /\ Head(b) = b[1]
           /\ Tail(b) \in Seq(Kinds) /\ Len(Tail(b)) = Len(b) - 1
           /\ DOMAIN Tail(b) = 1..(Len(b) - 1)
           /\ \A k \in 1..(Len(b) - 1) : Tail(b)[k] = b[k + 1]
           /\ Tail(b) = <<>> <=> Len(Tail(b)) = 0
<1>1. \A w \in Seq(Kinds) : w = <<>> <=> Len(w) = 0
  OBVIOUS
<1>2. \A w \in Seq(Kinds) : w # <<>> =>
        /\ Len(w) \in Nat \ {0} /\ DOMAIN w = 1..Len(w) /\ Head(w) = w[1]
        /\ Tail(w) \in Seq(Kinds) /\ Len(Tail(w)) = Len(w) - 1
        /\ DOMAIN Tail(w) = 1..(Len(w) - 1)
        /\ \A k \in 1..(Len(w) - 1) : Tail(w)[k] = w[k + 1]
  OBVIOUS
<1> QED
  BY <1>1, <1>2

(* The heads in the buffer, counted.                                       *)
LEMMA HeadsCounted ==
    ASSUME NEW b \in Seq(Kinds)
    PROVE  IsFiniteSet(Heads(b)) /\ Cardinality(Heads(b)) \in Nat
<1>1. Len(b) \in Nat /\ DOMAIN b = 1..Len(b)
  OBVIOUS
<1>2. IsFiniteSet(1..Len(b))
  BY <1>1, FS_Interval
<1>3. Heads(b) \subseteq 1..Len(b)
  BY <1>1 DEF Heads
<1> QED
  BY <1>2, <1>3, FS_Subset, FS_CardinalityType

LEMMA HeadsAppend ==
    ASSUME NEW b \in Seq(Kinds), NEW item \in Kinds
    PROVE  Cardinality(Heads(Append(b, item)))
             = IF item = "head" THEN Cardinality(Heads(b)) + 1 ELSE Cardinality(Heads(b))
<1> DEFINE n == Len(b)
           e == Append(b, item)
<1>1. /\ n \in Nat /\ DOMAIN b = 1..n /\ DOMAIN e = 1..(n + 1) /\ e[n + 1] = item
      /\ \A k \in 1..n : e[k] = b[k]
  BY Appended
<1> HIDE DEF n, e
<1>2. n + 1 \notin 1..n /\ 1..(n + 1) = (1..n) \cup {n + 1}
  BY <1>1
<1>3. Heads(e) = IF item = "head" THEN Heads(b) \cup {n + 1} ELSE Heads(b)
  BY <1>1, <1>2 DEF Heads
<1>4. n + 1 \notin Heads(b)
  BY <1>1, <1>2 DEF Heads
<1> QED
  BY <1>3, <1>4, HeadsCounted, FS_AddElement DEF e

LEMMA HeadsTail ==
    ASSUME NEW b \in Seq(Kinds), b # <<>>
    PROVE  Cardinality(Heads(b))
             = IF Head(b) = "head" THEN Cardinality(Heads(Tail(b))) + 1
               ELSE Cardinality(Heads(Tail(b)))
<1> DEFINE n == Len(b)
           t == Tail(b)
           f == [k \in Heads(t) |-> k + 1]
           later == {k \in 2..n : b[k] = "head"}
<1>1. /\ n \in Nat \ {0} /\ DOMAIN b = 1..n /\ Head(b) = b[1] /\ DOMAIN t = 1..(n - 1)
      /\ t \in Seq(Kinds) /\ \A k \in 1..(n - 1) : t[k] = b[k + 1]
  BY Taken
<1> HIDE DEF n, t
<1>2. /\ \A k \in 1..(n - 1) : k + 1 \in 2..n
      /\ \A k \in 2..n : \E j \in 1..(n - 1) : k = j + 1
      /\ \A j, k \in 1..(n - 1) : j + 1 = k + 1 => j = k
      /\ 1..n = (2..n) \cup {1} /\ 1 \notin 2..n
  <2>1. ASSUME NEW k \in 2..n PROVE \E j \in 1..(n - 1) : k = j + 1
    <3>1. k - 1 \in 1..(n - 1) /\ k = (k - 1) + 1
      BY <1>1, <2>1
    <3> QED
      BY <3>1
  <2> QED
    BY <1>1, <2>1
<1>3. Heads(t) \subseteq 1..(n - 1)
  BY <1>1 DEF Heads
<1>4. f \in Bijection(Heads(t), later)
  <2>1. \A k \in Heads(t) : k + 1 \in later
    BY <1>1, <1>2 DEF Heads
  <2>2. ASSUME NEW k \in later PROVE \E j \in Heads(t) : k = j + 1
    <3>1. PICK j \in 1..(n - 1) : k = j + 1
      BY <1>2, <2>2
    <3>2. t[j] = b[k] /\ b[k] = "head"
      BY <1>1, <2>2, <3>1
    <3>3. j \in Heads(t)
      BY <1>1, <3>2 DEF Heads
    <3> QED
      BY <3>1, <3>3
  <2>3. \A j, k \in Heads(t) : j + 1 = k + 1 => j = k
    BY <1>2, <1>3
  <2> QED
    BY <2>1, <2>2, <2>3 DEF Bijection, Injection, Surjection, IsInjective
<1>5. ExistsBijection(Heads(t), later)
  BY <1>4 DEF ExistsBijection
<1>6. IsFiniteSet(later) /\ Cardinality(later) = Cardinality(Heads(t))
  BY <1>1, <1>5, HeadsCounted, FS_Bijection
<1>7. Heads(b) = IF b[1] = "head" THEN later \cup {1} ELSE later
  BY <1>1, <1>2 DEF Heads
<1>8. 1 \notin later
  BY <1>2
<1> QED
  BY <1>1, <1>6, <1>7, <1>8, FS_AddElement DEF t

(* One more item from the client.                                          *)
LEMMA FitsAfter ==
    ASSUME current \in Nat, NEW c \in Client, NEW b \in Seq(Kinds), NEW item \in Items(c),
           Rude(c) \/ Fits(c, b)
    PROVE  Rude(After(c, item)) \/ Fits(After(c, item), Append(b, item))
<1> DEFINE d == After(c, item)
           e == Append(b, item)
           n == Len(b)
           h == Cardinality(Heads(b))
<1>1. c.sent \subseteq d.sent /\ (item \in {"zero", "bad", "long"} => item \in d.sent)
  BY AfterTyped DEF After, Client, Kinds, Last
<1>2. CASE Rude(c) \/ item \in {"zero", "bad", "long"}
  BY <1>1, <1>2 DEF Rude
<1>3. CASE Fits(c, b) /\ item \in {"head", "data", "end", "preface"}
  <2>1. /\ e # <<>> /\ n \in Nat /\ Len(e) = n + 1 /\ DOMAIN b = 1..n /\ DOMAIN e = 1..(n + 1)
        /\ e[n + 1] = item /\ \A k \in 1..n : e[k] = b[k]
        /\ b = <<>> <=> n = 0
    BY AfterTyped, Appended
  <2>2. /\ h \in Nat /\ current + h <= c.req /\ c.req \in Nat
        /\ Cardinality(Heads(e)) = IF item = "head" THEN h + 1 ELSE h
    <3>1. c.req \in 0..N /\ N \in Nat
      BY Http11Assumption DEF Client
    <3> QED
      BY <1>3, <3>1, AfterTyped, HeadsCounted, HeadsAppend DEF Fits
  <2>3. /\ item = "head" => d.req = c.req + 1 /\ d.open = (d.req \notin WebSockets \cup Upgrades)
        /\ item # "head" => d.req = c.req
        /\ item \in {"data", "preface"} => d.open = c.open
        /\ item = "end" => ~d.open
    BY <1>3 DEF After, Client
  <2>4. /\ item = "head" => ~c.open
        /\ item \in {"data", "end"} => c.open
        /\ item = "preface" => c.req \in Upgrades
    BY DEF Items
  <2> HIDE DEF d, e, n, h
  <2>5. /\ \A k \in 1..(n + 1) : k \in 1..n \/ k = n + 1
        /\ \A k \in 1..n : k # n + 1 /\ k \in 1..(n + 1) /\ (k # n => k + 1 \in 1..n)
        /\ n # 0 => 1 \in 1..n
        /\ n + 1 \in 1..(n + 1)
    BY <2>1
  <2>6. current + Cardinality(Heads(e)) <= d.req
    BY <2>2, <2>3
  <2>7. \A k \in DOMAIN e : e[k] \in {"head", "data", "end", "preface"}
    BY <1>3, <2>1, <2>5 DEF Fits
  <2>8. d.open => d.req \notin WebSockets \cup Upgrades
    BY <1>3, <2>3 DEF Fits
  <2>9. item # "head" => \A k \in 1..n : b[k] = "end" => k # n
    BY <1>3, <2>1, <2>4 DEF Fits, n
  <2>10. \A k \in DOMAIN e : e[k] = "end" =>
           IF k = Len(e) THEN ~d.open /\ d.req \notin WebSockets \cup Upgrades
           ELSE e[k + 1] = "head"
    <3> SUFFICES ASSUME NEW k \in 1..(n + 1), e[k] = "end"
                 PROVE  IF k = n + 1 THEN ~d.open /\ d.req \notin WebSockets \cup Upgrades
                        ELSE e[k + 1] = "head"
      BY <2>1
    <3>1. CASE k = n + 1
      BY <1>3, <2>1, <2>3, <2>4, <3>1 DEF Fits
    <3>2. CASE k \in 1..n /\ k # n
      <4>1. b[k] = "end" /\ k \in DOMAIN b /\ k # Len(b) /\ e[k + 1] = b[k + 1]
        BY <2>1, <2>5, <3>2 DEF n
      <4> QED
        BY <1>3, <2>5, <3>2, <4>1 DEF Fits
    <3>3. CASE k \in 1..n /\ k = n
      BY <2>1, <2>5, <2>9, <3>3
    <3> QED
      BY <2>5, <3>1, <3>2, <3>3
  <2>11. their \in {"idle", "done", "mustclose"} => e[1] = "head"
    BY <1>3, <2>1, <2>4, <2>5 DEF Fits
  <2> QED
    BY <2>1, <2>6, <2>7, <2>8, <2>10, <2>11 DEF Fits, d, e
<1>4. item \in {"head", "data", "end", "preface", "zero", "bad", "long"}
  BY DEF Items, Kinds
<1> QED
  BY <1>2, <1>3, <1>4

(* Two items at most come in one segment; a zero byte makes it rude.       *)
LEMMA FitsSegment ==
    ASSUME current \in Nat, Wire, Rude(client) \/ Fits(client, buffer),
           NEW segment \in Segments
    PROVE  /\ Rude(client) => Rude(Sent(segment))
           /\ HasZero(segment) => Rude(Sent(segment))
           /\ Rude(Sent(segment)) \/ Fits(Sent(segment), buffer \o segment)
<1>1. client \in Client /\ buffer \in Seq(Kinds)
  BY DEF Wire
<1>2. \A c \in Client : \A item \in Items(c) :
        /\ item \in Kinds /\ After(c, item) \in Client
        /\ c.sent \subseteq After(c, item).sent
        /\ item = "zero" => item \in After(c, item).sent
  <2> SUFFICES ASSUME NEW c \in Client, NEW item \in Items(c)
               PROVE  /\ item \in Kinds /\ After(c, item) \in Client
                      /\ c.sent \subseteq After(c, item).sent
                      /\ item = "zero" => item \in After(c, item).sent
    OBVIOUS
  <2>1. item \in Kinds /\ After(c, item) \in Client
    BY AfterTyped
  <2>2. c.sent \subseteq After(c, item).sent
        /\ (item = "zero" => item \in After(c, item).sent)
    BY <2>1 DEF After, Client, Kinds, Last
  <2> QED
    BY <2>1, <2>2
<1>3. CASE \E x \in Items(client) : segment = <<x>>
  <2>1. PICK x \in Items(client) : segment = <<x>>
    BY <1>3
  <2>2. Len(segment) = 1 /\ segment[1] = x /\ DOMAIN segment = {1}
    BY <2>1
  <2>3. Sent(segment) = After(client, x)
    BY <2>2 DEF Sent
  <2>4. buffer \o segment = Append(buffer, x)
    BY <1>1, <1>2, <2>1
  <2>5. Rude(After(client, x)) \/ Fits(After(client, x), Append(buffer, x))
    BY <1>1, FitsAfter
  <2>6. client.sent \subseteq After(client, x).sent
        /\ (x = "zero" => x \in After(client, x).sent)
    BY <1>1, <1>2
  <2> QED
    BY <2>2, <2>3, <2>4, <2>5, <2>6 DEF HasZero, Rude
<1>4. CASE \E x \in Items(client) : \E y \in Items(After(client, x)) : segment = <<x, y>>
  <2>1. PICK x \in Items(client) : \E y \in Items(After(client, x)) : segment = <<x, y>>
    BY <1>4
  <2>2. PICK y \in Items(After(client, x)) : segment = <<x, y>>
    BY <2>1
  <2> DEFINE c == After(client, x)
             d == After(c, y)
  <2>3. Len(segment) = 2 /\ segment[1] = x /\ segment[2] = y /\ DOMAIN segment = {1, 2}
    BY <2>2
  <2>4. Sent(segment) = d
    BY <2>3 DEF Sent
  <2>5. c \in Client /\ x \in Kinds /\ y \in Kinds /\ Append(buffer, x) \in Seq(Kinds)
    BY <1>1, <1>2, <2>1, <2>2
  <2>6. buffer \o segment = Append(Append(buffer, x), y)
    BY <1>1, <2>2, <2>5
  <2>7. Rude(c) \/ Fits(c, Append(buffer, x))
    BY <1>1, FitsAfter
  <2>8. Rude(d) \/ Fits(d, Append(Append(buffer, x), y))
    BY <2>5, <2>7, FitsAfter
  <2>9. /\ client.sent \subseteq c.sent /\ c.sent \subseteq d.sent
        /\ (x = "zero" => x \in c.sent) /\ (y = "zero" => y \in d.sent)
    BY <1>1, <1>2, <2>5
  <2> HIDE DEF c, d
  <2> QED
    BY <2>3, <2>4, <2>6, <2>8, <2>9 DEF HasZero, Rude
<1> QED
  BY <1>3, <1>4 DEF Segments

(* An event is taken off the buffer.                                       *)
LEMMA FitsTail ==
    ASSUME current \in Nat, client \in Client, buffer \in Seq(Kinds), buffer # <<>>,
           Fits(client, buffer), buffer' = Tail(buffer), client' = client,
           \/ /\ Head(buffer) = "head" /\ current' = current + 1 /\ their' = "body"
           \/ /\ Head(buffer) = "data" /\ their = "body" /\ UNCHANGED <<current, their>>
           \/ /\ Head(buffer) = "end" /\ UNCHANGED current
    PROVE  Fits(client, buffer)'
<1> DEFINE n == Len(buffer)
           m == Len(buffer')
           t == Tail(buffer)
           h == Cardinality(Heads(buffer))
           g == Cardinality(Heads(t))
<1>1. /\ n \in Nat \ {0} /\ DOMAIN buffer = 1..n /\ Head(buffer) = buffer[1]
      /\ m = n - 1 /\ DOMAIN buffer' = 1..m
      /\ \A k \in 1..m : buffer'[k] = buffer[k + 1]
      /\ buffer' = <<>> <=> m = 0
      /\ t \in Seq(Kinds) /\ buffer' = t
  BY Taken
<1>2. /\ h \in Nat /\ g \in Nat /\ current + h <= client.req /\ client.req \in Nat
      /\ h = IF Head(buffer) = "head" THEN g + 1 ELSE g
  <2>1. client.req \in 0..N /\ N \in Nat
    BY Http11Assumption DEF Client
  <2>2. h \in Nat /\ g \in Nat
    BY <1>1, HeadsCounted
  <2>3. h = IF Head(buffer) = "head" THEN g + 1 ELSE g
    BY HeadsTail
  <2> QED
    BY <2>1, <2>2, <2>3 DEF Fits
<1> HIDE DEF n, m, h, g
<1>3. /\ \A k \in 1..m : k + 1 \in 1..n
      /\ \A k \in 1..m : k + 1 = n <=> k = m
      /\ 1 \in 1..n /\ (m # 0 => 1 \in 1..m /\ 1 # n) /\ (m = 0 => n = 1)
      /\ \A k \in 1..m : k # m => k + 1 \in 1..m
  BY <1>1
<1>4. current' + Cardinality(Heads(buffer')) <= client'.req
  <2>1. current' + g <= client.req
    <3>1. \/ Head(buffer) = "head" /\ current' = current + 1
          \/ Head(buffer) # "head" /\ current' = current
      OBVIOUS
    <3> QED
      BY <1>2, <3>1
  <2> QED
    BY <1>1, <2>1 DEF g
<1>5. \A k \in DOMAIN buffer' : buffer'[k] \in {"head", "data", "end", "preface"}
  BY <1>1, <1>3 DEF Fits
<1>6. \A k \in DOMAIN buffer' : buffer'[k] = "end" =>
        IF k = m THEN ~client.open /\ client.req \notin WebSockets \cup Upgrades
        ELSE buffer'[k + 1] = "head"
  <2> SUFFICES ASSUME NEW k \in 1..m, buffer[k + 1] = "end"
               PROVE  IF k = m THEN ~client.open /\ client.req \notin WebSockets \cup Upgrades
                      ELSE buffer'[k + 1] = "head"
    BY <1>1
  <2>1. k + 1 \in DOMAIN buffer
    BY <1>1, <1>3
  <2>2. IF k + 1 = n THEN ~client.open /\ client.req \notin WebSockets \cup Upgrades
        ELSE buffer[(k + 1) + 1] = "head"
    BY <2>1 DEF Fits, n
  <2>3. k # m => k + 1 \in 1..m /\ buffer'[k + 1] = buffer[(k + 1) + 1]
    BY <1>1, <1>3
  <2> QED
    BY <1>3, <2>2, <2>3
<1>7. their' \in {"idle", "done", "mustclose"} =>
        IF buffer' = <<>> THEN ~client.open /\ client.req \notin Upgrades
        ELSE buffer'[1] = "head"
  <2> SUFFICES ASSUME their' \in {"idle", "done", "mustclose"}
               PROVE  IF buffer' = <<>> THEN ~client.open /\ client.req \notin Upgrades
                      ELSE buffer'[1] = "head"
    OBVIOUS
  <2>1. buffer[1] = "end"
    BY <1>1
  <2>2. IF n = 1 THEN ~client.open /\ client.req \notin WebSockets \cup Upgrades
        ELSE buffer[1 + 1] = "head"
    BY <1>1, <1>3, <2>1 DEF Fits, n
  <2> QED
    BY <1>1, <1>3, <2>2
<1>8. client.open => client.req \notin WebSockets \cup Upgrades
  BY DEF Fits
<1> QED
  BY <1>4, <1>5, <1>6, <1>7, <1>8 DEF Fits, m

(* Steps that leave the wire alone.                                        *)
LEMMA FitsKept ==
    ASSUME Rude(client) \/ Fits(client, buffer), UNCHANGED <<client, buffer, current>>,
           their' \in {"idle", "done", "mustclose"} => their \in {"idle", "done", "mustclose"}
    PROVE  (Rude(client) \/ Fits(client, buffer))'
<1>1. CASE Rude(client)
  BY <1>1 DEF Rude
<1>2. CASE Fits(client, buffer)
  BY <1>2 DEF Fits
<1> QED
  BY <1>1, <1>2

(* The error is the last thing that happens to the parser.                 *)
LEMMA ErrorKept ==
    ASSUME Wire, ProvokedInv, UNCHANGED <<client, current>>, parsing' = FALSE,
           keepAlive' => keepAlive, transport # "open" => transport' # "open",
           \/ out' = out
           \/ \E i \in 0..N, part \in {"start", "data", "end", "switch"} : Write(part, i)
    PROVE  (\E p \in DOMAIN out' : out'[p].part = "error") =>
              transport' # "open" /\ ~parsing' /\ Provoked'
<1> SUFFICES ASSUME NEW p \in DOMAIN out', out'[p].part = "error"
             PROVE  transport' # "open" /\ ~parsing' /\ Provoked'
  OBVIOUS
<1>1. \E q \in DOMAIN out : out[q].part = "error"
  <2>1. CASE out' = out
    BY <2>1
  <2>2. ASSUME NEW i \in 0..N, NEW part \in {"start", "data", "end", "switch"},
               Write(part, i), out' # out
        PROVE  \E q \in DOMAIN out : out[q].part = "error"
    <3> DEFINE new == [req |-> i, part |-> part]
    <3>1. new.part # "error"
      OBVIOUS
    <3>2. out' = Append(out, new)
      BY <2>2 DEF Write
    <3> HIDE DEF new
    <3>3. \A w \in Seq(Written) : \A x :
            /\ DOMAIN Append(w, x) = DOMAIN w \cup {Len(w) + 1}
            /\ Append(w, x)[Len(w) + 1] = x /\ \A q \in DOMAIN w : Append(w, x)[q] = w[q]
      OBVIOUS
    <3>4. p = Len(out) + 1 \/ (p \in DOMAIN out /\ out'[p] = out[p])
      BY <3>2, <3>3 DEF Wire
    <3> QED
      BY <3>1, <3>2, <3>3, <3>4 DEF Wire
  <2> QED
    BY <2>1, <2>2
<1> QED
  BY <1>1 DEF ProvokedInv, Provoked

LEMMA ProvokedStep ==
    ASSUME Turns, Wire, ProvokedInv, [Next]_vars
    PROVE  ProvokedInv'
<1>0. /\ N \in Nat /\ current \in Nat /\ 0 \in 0..N /\ Requests \subseteq 0..N
      /\ client \in Client /\ buffer \in Seq(Kinds)
  BY Http11Assumption DEF Turns, Typed, Wire, Requests
<1> DEFINE Error == \E p \in DOMAIN out : out[p].part = "error"
           Kept == Rude(client) \/ Fits(client, buffer)
<1>d. ProvokedInv <=> /\ Kept
                      /\ their = "mustclose" => ~keepAlive
                      /\ Error => transport # "open" /\ ~parsing /\ Provoked
  BY DEF ProvokedInv
<1>e. ProvokedInv' <=> /\ Kept'
                       /\ their' = "mustclose" => ~keepAlive'
                       /\ Error' => transport' # "open" /\ ~parsing' /\ Provoked'
  BY DEF ProvokedInv
<1> HIDE DEF Kept
<1>1. ASSUME NEW segment \in Segments, DataReceived(segment) PROVE ProvokedInv'
  <2>1. /\ client' = Sent(segment) /\ UNCHANGED <<their, keepAlive, current>>
        /\ transport = "open" /\ ~Error
    BY <1>1, <1>d DEF DataReceived
  <2>2. /\ HasZero(segment) => Rude(client')
        /\ Rude(client') \/ Fits(client', buffer \o segment)
    BY <1>0, <1>d, <2>1, FitsSegment DEF Kept
  <2>3. CASE HasZero(segment)
    <3>1. transport' = "closing" /\ parsing' = parsing
      BY <1>1, <2>3 DEF DataReceived, SendErrorResponse
    <3>2. Rude(client') /\ Provoked'
      BY <2>2, <2>3 DEF Rude, Provoked
    <3>3. ~parsing'
      BY <1>1, <3>1 DEF DataReceived
    <3> QED
      BY <1>d, <1>e, <2>1, <3>1, <3>2, <3>3 DEF Kept
  <2>4. CASE ~HasZero(segment)
    <3>1. buffer' = buffer \o segment /\ out' = out
      BY <1>1, <2>4 DEF DataReceived
    <3>2. Kept'
      BY <2>1, <2>2, <3>1 DEF Kept, Rude, Fits
    <3> QED
      BY <1>d, <1>e, <2>1, <3>1, <3>2
  <2> QED
    BY <2>3, <2>4
<1>2. CASE LoopEnds \/ EofReceived \/ ConnectionLost \/ UNCHANGED vars
  <2>1. /\ UNCHANGED <<client, buffer, current, their, keepAlive, out>>
        /\ parsing' => parsing' = parsing
        /\ transport # "open" => transport' # "open"
    BY <1>2 DEF LoopEnds, EofReceived, ConnectionLost, vars, h11
  <2>2. Kept'
    BY <1>d, <2>1, FitsKept DEF Kept
  <2>3. Provoked' <=> Provoked
    BY <2>1 DEF Provoked
  <2> QED
    BY <1>d, <1>e, <2>1, <2>2, <2>3
<1>3. CASE ProtocolError
  <2>1. /\ buffer # <<>> /\ (their = "mustclose" \/ Head(buffer) \in {"bad", "long"})
        /\ their' = "error" /\ transport' = "closing" /\ parsing' = FALSE
        /\ UNCHANGED <<client, buffer, current, keepAlive>>
    BY <1>3 DEF ProtocolError, SendErrorResponse, NoEvent, Event
  <2>2. Kept'
    BY <1>d, <2>1, FitsKept DEF Kept
  <2>3. Provoked
    <3>1. CASE Rude(client)
      BY <3>1 DEF Rude, Provoked
    <3>2. CASE Fits(client, buffer)
      <4>1. Head(buffer) = buffer[1] /\ 1 \in DOMAIN buffer
        BY <1>0, <2>1
      <4>2. their = "mustclose" /\ buffer[1] = "head"
        BY <2>1, <3>2, <4>1 DEF Fits
      <4>3. /\ Cardinality(Heads(buffer)) = Cardinality(Heads(Tail(buffer))) + 1
            /\ Tail(buffer) \in Seq(Kinds)
        BY <1>0, <2>1, <4>1, <4>2, HeadsTail, Taken
      <4>4. Cardinality(Heads(Tail(buffer))) \in Nat
        BY <4>3, HeadsCounted
      <4>5. client.req \in 0..N
        BY <1>0 DEF Client
      <4>6. current + Cardinality(Heads(buffer)) <= client.req
        BY <3>2 DEF Fits
      <4>7. client.req > current
        BY <1>0, <4>3, <4>4, <4>5, <4>6
      <4> QED
        BY <1>d, <4>2, <4>7 DEF Provoked
    <3> QED
      BY <1>d, <3>1, <3>2 DEF Kept
  <2>4. Provoked'
    BY <2>1, <2>3 DEF Provoked
  <2> QED
    BY <1>d, <1>e, <2>1, <2>2, <2>4
<1>4. CASE RequestRefused \/ Request \/ HandleWebsocketUpgrade \/ HandleH2cUpgrade
  <2>1. HeadParsed /\ client' = client
    BY <1>4 DEF RequestRefused, Request, HandleWebsocketUpgrade, HandleH2cUpgrade
  <2>2. /\ buffer # <<>> /\ Head(buffer) = "head" /\ buffer' = Tail(buffer)
        /\ current' = current + 1 /\ their' = "body" /\ parsing /\ current + 1 \in Requests
    BY <2>1 DEF HeadParsed, NoEvent, Event, NextRequest
  <2>3. Kept'
    <3>1. CASE Rude(client)
      BY <2>1, <3>1 DEF Kept, Rude
    <3>2. CASE Fits(client, buffer)
      <4>1. Fits(client, buffer)'
        BY <1>0, <2>1, <2>2, <3>2, FitsTail
      <4> QED
        BY <4>1 DEF Kept
    <3> QED
      BY <1>d, <3>1, <3>2 DEF Kept
  <2>4. ~Error
    BY <1>d, <2>2
  <2>5. CASE RequestRefused
    <3>1. transport' = "closing" /\ parsing' = FALSE /\ current' \in Refused
      BY <2>2, <2>5 DEF RequestRefused, SendErrorResponse, NextRequest
    <3> QED
      BY <1>e, <2>2, <2>3, <3>1 DEF Provoked
  <2>6. CASE Request \/ HandleWebsocketUpgrade \/ HandleH2cUpgrade
    <3>1. CASE out' = out
      BY <1>e, <2>2, <2>3, <2>4, <3>1
    <3>2. CASE Write("switch", NextRequest)
      <4> DEFINE new == [req |-> NextRequest, part |-> "switch"]
      <4>1. new.part # "error"
        OBVIOUS
      <4>2. out' = out \/ out' = Append(out, new)
        BY <3>2 DEF Write
      <4> HIDE DEF new
      <4>3. ~Error'
        BY <2>4, <4>1, <4>2 DEF Wire
      <4> QED
        BY <1>e, <2>2, <2>3, <4>3
    <3> QED
      BY <2>6, <3>1, <3>2 DEF Request, HandleWebsocketUpgrade, HandleH2cUpgrade
  <2> QED
    BY <1>4, <2>5, <2>6
<1>5. CASE Data \/ EndOfMessage
  <2>1. /\ buffer # <<>> /\ buffer' = Tail(buffer) /\ parsing
        /\ UNCHANGED <<client, current, keepAlive, out>>
        /\ \/ Head(buffer) = "data" /\ their = "body" /\ their' = their
           \/ Head(buffer) = "end" /\ their' = Done(keepAlive)
    BY <1>5 DEF Data, EndOfMessage, NoEvent, Event, Put
  <2>2. Kept'
    <3>1. CASE Rude(client)
      BY <2>1, <3>1 DEF Kept, Rude
    <3>2. CASE Fits(client, buffer)
      <4>1. Fits(client, buffer)'
        BY <1>0, <2>1, <3>2, FitsTail
      <4> QED
        BY <4>1 DEF Kept
    <3> QED
      BY <1>d, <3>1, <3>2 DEF Kept
  <2> QED
    BY <1>d, <1>e, <2>1, <2>2 DEF Done
<1>6. ASSUME NEW i \in Requests, AppStep(i) PROVE ProvokedInv'
  <2>1. /\ UNCHANGED <<client, buffer, current>> /\ parsing' = FALSE /\ i \in 0..N
        /\ transport # "open" => transport' # "open"
    BY <1>0, <1>6 DEF AppStep, Receive, SendStart, SendBody, Finish, Returns, Running, h11,
                      Turns, Typed
  <2>2. ASSUME NEW close \in BOOLEAN, SendStart(i, close)
        PROVE  /\ keepAlive' => keepAlive
               /\ their' = "mustclose" => ~keepAlive'
               /\ their' \in {"idle", "done", "mustclose"}
                    => their \in {"idle", "done", "mustclose"}
    BY <1>d, <2>2 DEF SendStart, Done
  <2>3. ASSUME Receive(i) \/ (\E more \in BOOLEAN : SendBody(i, more)) \/ Finish(i)
        PROVE  /\ keepAlive' = keepAlive
               /\ their' = their \/ (their = "done" /\ their' = "idle")
    BY <2>3 DEF Receive, SendBody, Finish, h11
  <2>4. /\ keepAlive' => keepAlive
        /\ their' = "mustclose" => ~keepAlive'
        /\ their' \in {"idle", "done", "mustclose"} => their \in {"idle", "done", "mustclose"}
    BY <1>6, <1>d, <2>2, <2>3 DEF AppStep
  <2>5. Kept'
    BY <1>d, <2>1, <2>4, FitsKept DEF Kept
  <2>6. out' = out \/ \E part \in {"start", "data", "end"} : Write(part, i)
    BY <1>6 DEF AppStep, Receive, SendStart, SendBody, Finish
  <2>7. Error' => transport' # "open" /\ ~parsing' /\ Provoked'
    BY <2>1, <2>4, <2>6, ErrorKept
  <2> QED
    BY <1>e, <2>4, <2>5, <2>7
<1> QED
  BY <1>1, <1>2, <1>3, <1>4, <1>5, <1>6 DEF Next, Parse

(* For any client and any application: a client that is answered with an   *)
(* error gave one of the reasons the property names (data_received,        *)
(* _send_error_response).                                                  *)
THEOREM NoErrorIsUnprovoked == Spec => []NoErrorUnprovoked
<1>1. Init => ProvokedInv
  <2> SUFFICES ASSUME Init PROVE ProvokedInv
    OBVIOUS
  <2>1. /\ buffer = <<>> /\ out = <<>> /\ current = 0 /\ their = "idle"
        /\ client.req = 0 /\ client.open = FALSE
    BY DEF Init
  <2>2. Heads(<<>>) = {} /\ DOMAIN <<>> = {}
    BY DEF Heads
  <2>3. Cardinality({}) = 0
    BY FS_EmptySet
  <2>4. 0 \notin Upgrades
    BY Http11Assumption DEF Requests
  <2>5. current + Cardinality(Heads(buffer)) <= client.req
    <3>1. Cardinality(Heads(buffer)) = 0
      BY <2>1, <2>2, <2>3, Zenon
    <3> QED
      BY <2>1, <3>1
  <2>6. DOMAIN buffer = {}
    BY <2>1, <2>2
  <2>7. Fits(client, buffer)
    BY <2>1, <2>4, <2>5, <2>6, Zenon DEF Fits
  <2> QED
    BY <2>1, <2>2, <2>7 DEF ProvokedInv
<1>2. Turns /\ Wire /\ ProvokedInv /\ [Next]_vars => ProvokedInv'
  BY ProvokedStep
<1>3. ProvokedInv => NoErrorUnprovoked
  BY DEF ProvokedInv, NoErrorUnprovoked
<1> QED
  BY <1>1, <1>2, <1>3, TurnsInvariant, WireInvariant, PTL DEF Spec

=============================================================================
