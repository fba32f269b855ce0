----------------------------- MODULE Http2Body -----------------------------
(***************************************************************************)
(* How the body of one HTTP/2 request reaches the application              *)
(* (asgiri/proto/http2.py: data_received, Receiver, _handle_request).      *)
(*                                                                         *)
(* data_received never calls queue.put itself: it creates one task per     *)
(* message, and that task stores the message when the event loop runs it.  *)
(* The queue is an asyncio.Queue of 32 messages, so a task that finds it   *)
(* full parks until a get wakes it.                                        *)
(*                                                                         *)
(* The event loop is modelled by the FIFO `ready` of task steps.  The      *)
(* transport's callbacks (data_received) run between two steps and never   *)
(* inside one; the application's step is the stretch from its resumption   *)
(* to its next suspension, during which app = "running" and nothing else   *)
(* moves.  asyncio.Queue and the loop are library code, modelled from how  *)
(* http2.py uses them.                                                     *)
(***************************************************************************)
EXTENDS Naturals, Sequences, FiniteSets

CONSTANTS
    MaxSize,   \* capacity of Receiver.messages, 32 in the code
    MaxPuts    \* bound: the messages the client's request can amount to

ASSUME BodyAssumption ==
    /\ MaxSize \in Nat \ {0}
    /\ MaxPuts \in Nat \ {0}

VARIABLES
    puts,        \* put tasks created so far; put task i carries message i
    ended,       \* END_STREAM came: message number `puts` is the last one
    final,       \* the first message with more_body False, 0 if none is
    registered,  \* the stream is in stream_states
    ready,       \* FIFO of steps the event loop has to run
    queue,       \* Receiver.messages
    putters,     \* put tasks parked on the full queue, oldest first
    app,         \* where the task running _handle_request is
    received     \* messages receive() has returned to the application

client == <<puts, ended, final>>
vars == <<puts, ended, final, registered, ready, queue, putters, app, received>>

(* The entry of `ready` that is a step of the application's task; the      *)
(* other entries are put tasks, numbered from 1.                           *)
App == 0

PutTask == 1..MaxPuts

(* none     no request yet                                                 *)
(* new      _handle_request's first step is in ready                       *)
(* running  its step is being executed                                     *)
(* away     it awaits something other than receive()                       *)
(* awake    what it awaited is there, its step is in ready                 *)
(* getter   it is parked in queue.get() on the empty queue                 *)
(* woken    a put has woken it, its step is in ready                       *)
(* done     the application returned or raised                             *)
AppState ==
    {"none", "new", "running", "away", "awake", "getter", "woken", "done"}

LoopFree == app # "running"

TypeOK ==
    /\ puts \in 0..MaxPuts
    /\ ended \in BOOLEAN
    /\ final \in 0..MaxPuts
    /\ registered \in BOOLEAN
    /\ ready \in Seq({App} \cup PutTask)
    /\ queue \in Seq(PutTask) /\ Len(queue) <= MaxSize
    /\ putters \in Seq(PutTask)
    /\ app \in AppState
    /\ received \in Seq(PutTask)

Init ==
    /\ puts = 0
    /\ ended = FALSE
    /\ final = 0
    /\ registered = FALSE
    /\ ready = <<>>
    /\ queue = <<>>
    /\ putters = <<>>
    /\ app = "none"
    /\ received = <<>>

-----------------------------------------------------------------------------
(* The transport's callback.                                               *)

(* HEADERS: the put of an initial empty message, then the request's task.  *)
RequestReceived ==
    /\ app = "none"
    /\ puts' = 1
    /\ registered' = TRUE
    /\ ready' = <<1, App>>
    /\ app' = "new"
    /\ UNCHANGED <<ended, final, queue, putters, received>>

(* The request that asked for the h2c upgrade becomes stream 1.  Its first *)
(* message says that there is no body; the client's half is open all the   *)
(* same, and what a client sends on it goes into the queue behind.         *)
HandleUpgradeStream1 ==
    /\ app = "none"
    /\ puts' = 1
    /\ final' = 1
    /\ registered' = TRUE
    /\ ready' = <<1, App>>
    /\ app' = "new"
    /\ UNCHANGED <<ended, queue, putters, received>>

CreatePutTask ==
    /\ LoopFree
    /\ registered
    /\ ~ended
    /\ puts < MaxPuts
    /\ puts' = puts + 1
    /\ ready' = Append(ready, puts + 1)
    /\ UNCHANGED <<registered, queue, putters, app, received>>

(* DATA on a stream that is still in stream_states.                        *)
DataReceived ==
    /\ CreatePutTask
    /\ UNCHANGED <<ended, final>>

(* END_STREAM: the message with more_body False.                           *)
StreamEnded ==
    /\ CreatePutTask
    /\ ended' = TRUE
    /\ final' = IF final = 0 THEN puts' ELSE final

(* RST_STREAM pops the stream, GOAWAY clears all of them; the put tasks    *)
(* and the application are left as they are.                               *)
StreamReset ==
    /\ LoopFree
    /\ registered
    /\ registered' = FALSE
    /\ UNCHANGED <<client, ready, queue, putters, app, received>>

-----------------------------------------------------------------------------
(* The steps of the put tasks: Queue.put.                                  *)

(* Mutant: a message that finds the queue full is dropped.                 *)
PutDrops ==
    /\ LoopFree
    /\ ready # <<>>
    /\ Head(ready) # App
    /\ Len(queue) >= MaxSize
    /\ ready' = Tail(ready)
    /\ UNCHANGED <<client, registered, queue, putters, app, received>>

(* `while self.full()`: the task parks; a woken task that finds the queue  *)
(* full again parks again, at the end.                                     *)
PutParks ==
    /\ LoopFree
    /\ ready # <<>>
    /\ Head(ready) # App
    /\ Len(queue) >= MaxSize
    /\ putters' = Append(putters, Head(ready))
    /\ ready' = Tail(ready)
    /\ UNCHANGED <<client, registered, queue, app, received>>

(* Mutant: storing a message wakes nobody.                                 *)
PutStoresSilently ==
    /\ LoopFree
    /\ ready # <<>>
    /\ Head(ready) # App
    /\ Len(queue) < MaxSize
    /\ queue' = Append(queue, Head(ready))
    /\ ready' = Tail(ready)
    /\ UNCHANGED <<client, registered, putters, app, received>>

(* put_nowait, which wakes a parked get.                                   *)
PutStores ==
    /\ LoopFree
    /\ ready # <<>>
    /\ Head(ready) # App
    /\ Len(queue) < MaxSize
    /\ queue' = Append(queue, Head(ready))
    /\ IF app = "getter"
       THEN app' = "woken" /\ ready' = Append(Tail(ready), App)
       ELSE app' = app /\ ready' = Tail(ready)
    /\ UNCHANGED <<client, registered, putters, received>>

-----------------------------------------------------------------------------
(* The steps of the application's task.                                    *)

(* Mutant: get takes the newest message.                                   *)
TakeNewest(rest) ==
    /\ queue # <<>>
    /\ received' = Append(received, queue[Len(queue)])
    /\ queue' = SubSeq(queue, 1, Len(queue) - 1)
    /\ IF putters = <<>>
       THEN putters' = putters /\ ready' = rest
       ELSE putters' = Tail(putters) /\ ready' = Append(rest, Head(putters))

(* Mutant: get does not wake a parked putter.                              *)
TakeSilently(rest) ==
    /\ queue # <<>>
    /\ received' = Append(received, Head(queue))
    /\ queue' = Tail(queue)
    /\ ready' = rest
    /\ UNCHANGED putters

(* get_nowait, which wakes the putter that parked first; `rest` is what is *)
(* in ready apart from that putter.                                        *)
TakeMessage(rest) ==
    /\ queue # <<>>
    /\ received' = Append(received, Head(queue))
    /\ queue' = Tail(queue)
    /\ IF putters = <<>>
       THEN putters' = putters /\ ready' = rest
       ELSE putters' = Tail(putters) /\ ready' = Append(rest, Head(putters))

(* The loop resumes the application where it was not inside get().         *)
RunApp ==
    /\ app \in {"new", "awake"}
    /\ ready # <<>>
    /\ Head(ready) = App
    /\ app' = "running"
    /\ ready' = Tail(ready)
    /\ UNCHANGED <<client, registered, queue, putters, received>>

(* The loop resumes it inside get(): the queue is not empty, for nobody    *)
(* else takes from it (NoLostWakeup), and receive() returns its head.      *)
ResumeGet ==
    /\ app = "woken"
    /\ ready # <<>>
    /\ Head(ready) = App
    /\ TakeMessage(Tail(ready))
    /\ app' = "running"
    /\ UNCHANGED <<client, registered>>

(* receive() on a queue that is not empty does not suspend.                *)
ReceiveNow ==
    /\ app = "running"
    /\ TakeMessage(ready)
    /\ UNCHANGED <<client, registered, app>>

(* receive() on the empty queue parks the application's task.              *)
ReceiveParks ==
    /\ app = "running"
    /\ queue = <<>>
    /\ app' = "getter"
    /\ UNCHANGED <<client, registered, ready, queue, putters, received>>

(* The application awaits something else (a timer, a database), ...        *)
Await ==
    /\ app = "running"
    /\ app' = "away"
    /\ UNCHANGED <<client, registered, ready, queue, putters, received>>

(* ... which comes at any time the loop is free.                           *)
Awake ==
    /\ app = "away"
    /\ app' = "awake"
    /\ ready' = Append(ready, App)
    /\ UNCHANGED <<client, registered, queue, putters, received>>

(* The application returns or raises; the finally clause pops the stream.  *)
Finish ==
    /\ app = "running"
    /\ app' = "done"
    /\ registered' = FALSE
    /\ UNCHANGED <<client, ready, queue, putters, received>>

AppReceive == ReceiveNow \/ ReceiveParks

Next ==
    \/ RequestReceived \/ HandleUpgradeStream1
    \/ DataReceived \/ StreamEnded \/ StreamReset
    \/ PutParks \/ PutStores
    \/ RunApp \/ ResumeGet \/ ReceiveNow \/ ReceiveParks
    \/ Await \/ Awake \/ Finish

Spec == Init /\ [][Next]_vars

(* The loop runs every step that is ready, and this application, whenever  *)
(* it runs again and again, again and again calls receive().               *)
Fairness ==
    /\ WF_vars(PutParks \/ PutStores \/ RunApp \/ ResumeGet)
    /\ WF_vars(Awake)
    /\ SF_vars(AppReceive)

FairSpec == Spec /\ Fairness

-----------------------------------------------------------------------------
(* Properties.                                                             *)

InSeq(s, m) == \E i \in DOMAIN s : s[i] = m

NoRepeat(s) == \A i, j \in DOMAIN s : s[i] = s[j] => i = j

(* Every message made of the client's frames is in exactly one place: at   *)
(* the application, in the queue, in a task that is about to run or in a   *)
(* parked one.  Nothing is lost or duplicated, whatever the load.          *)
NothingLost ==
    /\ \A m \in 1..puts :
          \/ InSeq(received, m) \/ InSeq(queue, m)
          \/ InSeq(ready, m) \/ InSeq(putters, m)
    /\ NoRepeat(received \o queue \o putters)
    /\ NoRepeat(ready)
    /\ \A i \in DOMAIN ready : ~InSeq(received \o queue \o putters, ready[i])

PutsOn(s) == {i \in DOMAIN s : s[i] # App}

(* The wakeups of the two ends of the queue: an application parked in      *)
(* get() means an empty queue, a woken one finds a message, and as long as *)
(* put tasks are parked every free place of the queue has a put task on    *)
(* its way, so that no task waits at a queue that has room.                *)
NoLostWakeup ==
    /\ app = "getter" => queue = <<>>
    /\ app = "woken" => queue # <<>>
    /\ putters # <<>> => MaxSize - Len(queue) <= Cardinality(PutsOn(ready))

(* The messages the application has seen are the first ones, in order.     *)
InOrder == \A i \in DOMAIN received : received[i] = i

(* What the queue of MaxSize really guarantees: a request of no more than  *)
(* MaxSize messages is delivered in order.                                 *)
InOrderWhileShort == puts <= MaxSize => InOrder

(* Why: while puts <= MaxSize no task ever parks, the queue continues what *)
(* was received, and the put tasks in `ready` continue the queue up to the *)
(* last message without a gap, in the order in which they will run.        *)
Handed == Len(received) + Len(queue)

Continues(r, first, last) ==
    /\ \A i, j \in 1..Len(r) :
          i < j /\ r[i] # App /\ r[j] # App => r[i] < r[j]
    /\ \A i \in 1..Len(r) : r[i] # App => first <= r[i] /\ r[i] <= last
    /\ \A m \in first..last : \E i \in 1..Len(r) : r[i] = m

Consecutive ==
    /\ putters = <<>>
    /\ \A i \in 1..Len(received) : received[i] = i
    /\ \A i \in 1..Len(queue) : queue[i] = Len(received) + i
    /\ Handed <= puts
    /\ Continues(ready, Handed + 1, puts)

Unstarted ==
    app = "none" =>
        /\ puts = 0 /\ ~ended /\ final = 0 /\ ~registered
        /\ ready = <<>> /\ queue = <<>> /\ putters = <<>> /\ received = <<>>

ShortInv == Unstarted /\ (puts <= MaxSize => Consecutive)

(* An upload is not truncated: the message that says the body is complete  *)
(* reaches the application after every other message of the body           *)
(* (tests/test_large_file_uploads.py: "without truncation or errors").     *)
NoTruncation ==
    InSeq(received, final) => \A m \in 1..final : InSeq(received, m)

(* Requests of no more than MaxSize messages are delivered as RequestBody  *)
(* says; of longer ones every message at most once, in some order.  What   *)
(* ends the request is END_STREAM.                                         *)
Promise == INSTANCE RequestBody WITH sent <- puts
ImplementsRequestBody ==
    Promise!Init /\ [][Promise!NextUpTo(MaxSize)]_<<puts, ended, received>>

(* A body whose end was parsed is wholly delivered to an application that  *)
(* keeps receiving: no step of the hand-over is stuck forever.             *)
BodyReceived == \A m \in 1..final : InSeq(received, m)
EventuallyDelivered == final # 0 ~> (BodyReceived \/ app = "done")

=============================================================================
