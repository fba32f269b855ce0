------------------------ MODULE WebSocketHandler_proof ------------------------
(***************************************************************************)
(* Proofs about WebSocketHandler, for every set of Settings: whatever the  *)
(* bounds on what client and application send.                             *)
(***************************************************************************)
EXTENDS WebSocketHandler, TLAPS

(* Pairs, sequences and numbers, in the form the proofs below cite.        *)
LEMMA PairIn ==
    ASSUME NEW A, NEW B, NEW a \in A, NEW b \in B
    PROVE  <<a, b>> \in A \X B
  OBVIOUS

LEMMA ZeroIn == \A n \in Nat : 0 \in 0..n
  OBVIOUS

LEMMA Appended ==
    ASSUME NEW S, NEW s \in Seq(S), NEW x \in S
    PROVE  /\ Append(s, x) \in Seq(S)
           /\ Len(Append(s, x)) = Len(s) + 1
           /\ DOMAIN Append(s, x) = 1..(Len(s) + 1)
           /\ \A i \in 1..Len(s) : Append(s, x)[i] = s[i]
           /\ Append(s, x)[Len(s) + 1] = x
           /\ DOMAIN s = 1..Len(s) /\ Len(s) \in Nat
  OBVIOUS

LEMMA Short ==
    ASSUME NEW S, NEW x \in S
    PROVE  <<>> \in Seq(S) /\ <<x>> \in Seq(S)
  OBVIOUS

LEMMA Joined ==
    ASSUME NEW S, NEW s \in Seq(S), NEW t \in Seq(S)
    PROVE  s \o t \in Seq(S)
  OBVIOUS

LEMMA JoinedOne ==
    ASSUME NEW S, NEW s \in Seq(S), NEW x \in S
    PROVE  s \o <<x>> = Append(s, x)
  OBVIOUS

LEMMA Popped ==
    ASSUME NEW S, NEW s \in Seq(S), s # <<>>
    PROVE  /\ Head(s) \in S /\ Tail(s) \in Seq(S)
           /\ Head(s) = s[1]
           /\ DOMAIN s = 1..Len(s) /\ Len(s) \in Nat \ {0}
           /\ DOMAIN Tail(s) = 1..(Len(s) - 1)
           /\ \A i \in DOMAIN Tail(s) : Tail(s)[i] = s[i + 1] /\ i + 1 \in DOMAIN s
  OBVIOUS

-----------------------------------------------------------------------------
Tasks == (Kinds \cup {"handle", "protocol error", "ping timeout"})
         \X (0..setting.frames)
Events == {"connect", "receive", "disconnect"} \X Seq(1..setting.frames)
Sends == Messages \X (1..setting.sends)
Written == {"101", "data", "ping", "pong", "close"} \X (0..setting.sends)

(* The handler's part of TypeOK, and why numbers stay within the bounds.   *)
Types ==
    /\ setting \in Settings
    /\ channel \in {"open", "shut", "gone", "failing"}
    /\ ready \in Seq(Tasks)
    /\ handle \in {"new", "running", "done"}
    /\ app \in {"new", "running", "done"}
    /\ sender \in {"new", "starting", "waiting", "done"}
    /\ events \in Seq(Events)
    /\ outbox \in Seq(Sends)
    /\ sends \in 0..setting.sends
    /\ accepted \in BOOLEAN /\ closed \in BOOLEAN
    /\ partial \in Seq(1..setting.frames)
    /\ jammed \in BOOLEAN
    /\ sent \in 0..setting.frames
    /\ wire \in Seq(Data) /\ Len(wire) <= sent
    /\ out \in Seq(Written)
    /\ \A i \in DOMAIN ready :
          ready[i][1] \in Data => ready[i][2] \in 1..setting.frames

(* An empty put is a put of events.                                        *)
LEMMA Nothing == <<>> \in Seq(Events)
  OBVIOUS

(* The bounds of a setting are numbers.                                    *)
LEMMA Bounds ==
    ASSUME setting \in Settings
    PROVE  /\ setting.frames \in Nat /\ setting.sends \in Nat
           /\ setting.pings \in BOOLEAN
  BY HandlerAssumption

(* The tasks that carry no frame are tasks.                                *)
LEMMA LoopTask ==
    ASSUME setting \in Settings,
           NEW task \in {"handle", "protocol error", "ping timeout"}
    PROVE  <<task, 0>> \in Tasks /\ task \notin Data
<1>1. 0 \in 0..setting.frames
  <2>1. setting.frames \in Nat
    BY Bounds
  <2> QED
    BY <2>1, ZeroIn
<1>2. <<task, 0>> \in (Kinds \cup {"handle", "protocol error", "ping timeout"})
                      \X (0..setting.frames)
  BY <1>1, PairIn
<1> QED
  BY <1>2 DEF Tasks, Data

(* What is put into the receive queue is an event.                         *)
LEMMA DisconnectIsEvent == Disconnect \in Events
<1> DEFINE N == 1..setting.frames
<1>1. <<>> \in Seq(N)
  OBVIOUS
<1> HIDE DEF N
<1>2. <<"disconnect", <<>>>> \in {"connect", "receive", "disconnect"} \X Seq(N)
  BY <1>1, PairIn
<1> QED
  BY <1>2 DEF Disconnect, Events, N

(* What Write adds is of a type with the rest.                             *)
LEMMA WriteTypes ==
    ASSUME Types, NEW frame \in Written, Write(frame)
    PROVE  out' \in Seq(Written)
<1>1. Append(out, frame) \in Seq(Written)
  BY Appended DEF Types
<1> QED
  BY <1>1 DEF Write, Types

(* Of a close only the channel, the history and the queue change, and they *)
(* keep their types.                                                       *)
LEMMA CloseTypes ==
    ASSUME NEW echo \in BOOLEAN, NEW put \in Seq(Events), Types, Close(echo, put)
    PROVE  /\ channel' \in {"open", "shut", "gone", "failing"}
           /\ closed' \in BOOLEAN
           /\ events' \in Seq(Events)
           /\ out' \in Seq(Written)
<1>1. setting.frames \in Nat /\ setting.sends \in Nat
  BY Bounds DEF Types
<1>0. events \o put \in Seq(Events)
  BY Joined DEF Types
<1>2. CASE closed
  <2>1. events' = events \o put /\ closed' = closed /\ channel' = channel /\ out' = out
    BY <1>2 DEF Close, link
  <2> QED
    BY <1>0, <2>1 DEF Types
<1>3. CASE ~closed
  <2>1. (IF echo THEN <<>> ELSE <<Disconnect>>) \in Seq(Events)
    BY DisconnectIsEvent, Short
  <2>2. <<"close", 0>> \in Written
    BY <1>1, PairIn DEF Written
  <2>3. out' \in Seq(Written)
    BY <1>3, <2>2, WriteTypes DEF Close
  <2>4. events' \in Seq(Events)
    <3>1. (events \o put) \o (IF echo THEN <<>> ELSE <<Disconnect>>) \in Seq(Events)
      BY <1>0, <2>1, Joined
    <3> QED
      BY <1>3, <3>1 DEF Close
  <2> QED
    BY <1>3, <2>3, <2>4 DEF Close, Shut, Types
<1> QED
  BY <1>2, <1>3

-----------------------------------------------------------------------------
(* The sets of Types are those of the setting, which never changes.        *)
LEMMA SettingKept ==
    ASSUME [Next]_vars
    PROVE  /\ setting' = setting
           /\ Tasks' = Tasks /\ Events' = Events
           /\ Sends' = Sends /\ Written' = Written
<1>1. setting' = setting
  <2>1. CASE LoopStep
    BY <2>1 DEF LoopStep, Handle, HandleMessage, HandleFirst, HandleMiddle,
       HandleLast, HandleClose, HandlePing, HandleNothing, HandleFrame, CloseTask
  <2>2. CASE \E frames \in Frames, bad \in BOOLEAN : DataReceived(frames, bad)
    BY <2>2 DEF DataReceived
  <2>3. CASE ConnectionLost \/ StreamFails \/ AppReturn \/ AppRaise
    BY <2>3 DEF ConnectionLost, StreamFails, AppReturn, AppRaise
  <2>4. CASE \E message \in Messages : AppSend(message)
    BY <2>4 DEF AppSend
  <2>5. CASE SenderStep
    BY <2>5 DEF SenderStep, SenderStart, SenderPoll, HandleAccept, HandleAccept101,
       HandleSend, HandleAppClose, SenderFails, Took
  <2>6. CASE Cleanup \/ SendPing \/ OnPingTimeout \/ Tick
    BY <2>6 DEF Cleanup, SendPing, OnPingTimeout, Tick
  <2>7. CASE UNCHANGED vars
    BY <2>7 DEF vars
  <2> QED
    BY <2>1, <2>2, <2>3, <2>4, <2>5, <2>6, <2>7 DEF Next
<1> QED
  BY <1>1 DEF Tasks, Events, Sends, Written

(* A task that the loop takes leaves the others as they are.               *)
LEMMA TakenTypes ==
    ASSUME Types, NEW task, Next1(task)
    PROVE  /\ ready' \in Seq(Tasks)
           /\ Head(ready) \in Tasks /\ Head(ready) = ready[1] /\ 1 \in DOMAIN ready
           /\ Head(ready)[1] = task
           /\ \A i \in DOMAIN ready' :
                 ready'[i][1] \in Data => ready'[i][2] \in 1..setting.frames
           /\ task \in Data => Number \in 1..setting.frames
<1>1. ready \in Seq(Tasks) /\ ready # <<>> /\ ready' = Tail(ready)
  BY DEF Types, Next1
<1>2. \A i \in DOMAIN ready' : ready'[i] = ready[i + 1] /\ i + 1 \in DOMAIN ready
  BY <1>1, Popped
<1>3. /\ Head(ready) \in Tasks /\ ready' \in Seq(Tasks) /\ Head(ready) = ready[1]
      /\ 1 \in DOMAIN ready
  BY <1>1, Popped
<1>4. \A i \in DOMAIN ready' :
         ready'[i][1] \in Data => ready'[i][2] \in 1..setting.frames
  BY <1>2 DEF Types
<1>5. Head(ready)[1] = task
  BY DEF Next1
<1>6. task \in Data => Number \in 1..setting.frames
  BY <1>3, <1>5 DEF Number, Types
<1> QED
  BY <1>1, <1>3, <1>4, <1>5, <1>6

(* A task that is added keeps the types of `ready`.                        *)
LEMMA AddedTypes ==
    ASSUME Types, NEW task \in Tasks, ready' = Append(ready, task),
           task[1] \in Data => task[2] \in 1..setting.frames
    PROVE  /\ ready' \in Seq(Tasks)
           /\ \A i \in DOMAIN ready' :
                 ready'[i][1] \in Data => ready'[i][2] \in 1..setting.frames
<1>1. /\ ready' \in Seq(Tasks)
      /\ DOMAIN ready' = 1..(Len(ready) + 1)
      /\ \A i \in 1..Len(ready) : ready'[i] = ready[i]
      /\ ready'[Len(ready) + 1] = task
      /\ DOMAIN ready = 1..Len(ready) /\ Len(ready) \in Nat
  BY Appended DEF Types
<1>2. ASSUME NEW i \in DOMAIN ready'
      PROVE  ready'[i][1] \in Data => ready'[i][2] \in 1..setting.frames
  <2>1. i \in DOMAIN ready \/ i = Len(ready) + 1
    BY <1>1
  <2> QED
    BY <1>1, <2>1 DEF Types
<1> QED
  BY <1>1, <1>2

(* So is every message received.                                           *)
LEMMA ReceiveIsEvent ==
    ASSUME NEW parts \in Seq(1..setting.frames)
    PROVE  Receive(parts) \in Events
<1> DEFINE N == 1..setting.frames
<1>1. parts \in Seq(N)
  OBVIOUS
<1> HIDE DEF N
<1>2. <<"receive", parts>> \in {"connect", "receive", "disconnect"} \X Seq(N)
  BY <1>1, PairIn
<1> QED
  BY <1>2 DEF Receive, Events, N

(* So is the connect.                                                      *)
LEMMA ConnectIsEvent == Connect \in Events
<1> DEFINE N == 1..setting.frames
<1>1. <<>> \in Seq(N)
  OBVIOUS
<1> HIDE DEF N
<1>2. <<"connect", <<>>>> \in {"connect", "receive", "disconnect"} \X Seq(N)
  BY <1>1, PairIn
<1> QED
  BY <1>2 DEF Connect, Events, N

(* The steps of the event loop keep the types.                             *)
LEMMA LoopStepTypes ==
    ASSUME Types, LoopStep
    PROVE  Types'
<1>0. /\ setting' = setting
      /\ Tasks' = Tasks /\ Events' = Events /\ Sends' = Sends /\ Written' = Written
  BY SettingKept DEF Next
<1>b. setting.frames \in Nat /\ setting.sends \in Nat
  BY Bounds DEF Types
<1>1. CASE Handle
  <2>1. events' \in Seq(Events)
    BY <1>1, ConnectIsEvent, Appended DEF Types, Handle
  <2>2. /\ ready' \in Seq(Tasks)
        /\ \A i \in DOMAIN ready' :
              ready'[i][1] \in Data => ready'[i][2] \in 1..setting.frames
    BY <1>1, TakenTypes DEF Handle
  <2> QED
    BY <1>0, <1>1, <2>1, <2>2 DEF Types, Handle, link, flags, client
<1>2. CASE \/ HandleMessage \/ HandleFirst \/ HandleMiddle \/ HandleLast
           \/ HandleClose \/ HandlePing \/ HandleNothing
  <2> SUFFICES ASSUME NEW kind \in Kinds, HandleFrame(kind),
                      \/ kind = "text" /\ HandleMessage
                      \/ kind = "first" /\ HandleFirst
                      \/ kind = "cont" /\ HandleMiddle
                      \/ kind = "last" /\ HandleLast
                      \/ kind = "close" /\ HandleClose
                      \/ kind = "ping" /\ HandlePing
                      \/ HandleNothing
               PROVE  Types'
    <3>1. Data \subseteq Kinds /\ {"ping", "pong", "close"} \subseteq Kinds
      BY DEF Kinds
    <3>2. {"text", "first", "cont", "last"} \subseteq Kinds
      BY DEF Kinds, Data
    <3>3. HandleNothing => \E kind \in Kinds : HandleFrame(kind)
      BY DEF HandleNothing
    <3>4. HandleMessage => HandleFrame("text")
      BY DEF HandleMessage
    <3>5. HandleFirst => HandleFrame("first")
      BY DEF HandleFirst
    <3>6. HandleMiddle => HandleFrame("cont")
      BY DEF HandleMiddle
    <3>7. HandleLast => HandleFrame("last")
      BY DEF HandleLast
    <3>8. HandleClose => HandleFrame("close")
      BY DEF HandleClose
    <3>9. HandlePing => HandleFrame("ping")
      BY DEF HandlePing
    <3> HIDE DEF HandleNothing, HandleMessage
    <3> QED
      BY <1>2, <3>1, <3>2, <3>3, <3>4, <3>5, <3>6, <3>7, <3>8, <3>9
  <2>1. /\ ready' \in Seq(Tasks)
        /\ \A i \in DOMAIN ready' :
              ready'[i][1] \in Data => ready'[i][2] \in 1..setting.frames
        /\ kind \in Data => Number \in 1..setting.frames
    <3>1. Next1(kind)
      BY DEF HandleFrame
    <3> QED
      BY <3>1, TakenTypes
  <2>2. /\ channel' \in {"open", "shut", "gone", "failing"}
        /\ closed' \in BOOLEAN
        /\ events' \in Seq(Events)
        /\ partial' \in Seq(1..setting.frames)
        /\ out' \in Seq(Written)
    <3>1. CASE kind = "text" /\ HandleMessage
      <4>1. Receive(<<Number>>) \in Events
        <5>1. <<Number>> \in Seq(1..setting.frames)
          BY <2>1, <3>1, Short DEF Data
        <5> QED
          BY <5>1, ReceiveIsEvent
      <4>2. events' \in Seq(Events)
        BY <3>1, <4>1, Appended DEF HandleMessage, Types
      <4> QED
        BY <3>1, <4>2 DEF HandleMessage, Types, link
    <3>2. CASE kind = "first" /\ HandleFirst
      <4>1. <<Number>> \in Seq(1..setting.frames)
        BY <2>1, <3>2, Short DEF Data
      <4> QED
        BY <3>2, <4>1 DEF HandleFirst, Types, link
    <3>3. CASE kind = "cont" /\ HandleMiddle
      <4>1. partial' \in Seq(1..setting.frames)
        BY <2>1, <3>3, Appended DEF HandleMiddle, Types, Data
      <4> QED
        BY <3>3, <4>1 DEF HandleMiddle, Types, link
    <3>4. CASE kind = "last" /\ HandleLast
      <4>1. Receive(Append(partial, Number)) \in Events
        <5>1. Append(partial, Number) \in Seq(1..setting.frames)
          BY <2>1, <3>4, Appended DEF Types, Data
        <5> QED
          BY <5>1, ReceiveIsEvent
      <4>2. events' \in Seq(Events)
        BY <3>4, <4>1, Appended DEF HandleLast, Types
      <4>3. partial' \in Seq(1..setting.frames)
        BY <3>4 DEF HandleLast
      <4> QED
        BY <3>4, <4>2, <4>3 DEF HandleLast, Types, link
    <3>5. CASE kind = "close" /\ HandleClose
      <4>1. <<Disconnect>> \in Seq(Events)
        BY DisconnectIsEvent, Short
      <4>2. Close(TRUE, <<Disconnect>>)
        BY <3>5 DEF HandleClose
      <4> QED
        BY <3>5, <4>1, <4>2, CloseTypes DEF HandleClose, Types
    <3>6. CASE kind = "ping" /\ HandlePing
      <4>1. <<"pong", 0>> \in Written
        BY <1>b, PairIn DEF Written
      <4>2. out' \in Seq(Written)
        BY <3>6, <4>1, WriteTypes DEF HandlePing
      <4> QED
        BY <3>6, <4>2 DEF HandlePing, Types
    <3>7. CASE HandleNothing
      BY <3>7 DEF HandleNothing, Types, link
    <3> QED
      BY <3>1, <3>2, <3>3, <3>4, <3>5, <3>6, <3>7
  <2> QED
    BY <1>0, <2>1, <2>2 DEF Types, HandleFrame, tasks, client
<1>3. CASE CloseTask
  <2>1. /\ ready' \in Seq(Tasks)
        /\ \A i \in DOMAIN ready' :
              ready'[i][1] \in Data => ready'[i][2] \in 1..setting.frames
    BY <1>3, TakenTypes DEF CloseTask
  <2>2. Close(FALSE, <<>>)
    BY <1>3 DEF CloseTask
  <2>3. /\ channel' \in {"open", "shut", "gone", "failing"}
        /\ closed' \in BOOLEAN
        /\ events' \in Seq(Events)
        /\ out' \in Seq(Written)
    BY <2>2, CloseTypes, Nothing
  <2> QED
    BY <1>0, <1>3, <2>1, <2>3 DEF Types, CloseTask, tasks, client
<1> QED
  BY <1>1, <1>2, <1>3 DEF LoopStep

(* So does data_received, whose numbers stay within the bound on frames.   *)
LEMMA DataReceivedTypes ==
    ASSUME Types, NEW frames \in Frames, NEW bad \in BOOLEAN,
           DataReceived(frames, bad)
    PROVE  Types'
<1>0. /\ setting' = setting
      /\ Tasks' = Tasks /\ Events' = Events /\ Sends' = Sends /\ Written' = Written
  BY SettingKept DEF Next
<1>b. setting.frames \in Nat /\ setting.sends \in Nat
  BY Bounds DEF Types
<1>1. frames = <<>> \/ \E k \in Kinds : frames = <<k>>
  BY DEF Frames
<1>2. Len(frames) \in Nat /\ sent' \in 0..setting.frames /\ sent' = sent + Len(frames)
  <2>1. Len(frames) \in 0..1
    BY <1>1
  <2>2. sent + Len(frames) <= setting.frames /\ sent' = sent + Len(frames)
    BY DEF DataReceived
  <2> QED
    BY <1>b, <2>1, <2>2 DEF Types
<1>3. wire' \in Seq(Data) /\ Len(wire') <= sent'
  <2>1. CASE frames \in {<<k>> : k \in Data}
    <3>1. PICK k \in Data : frames = <<k>>
      BY <2>1
    <3>2. wire' = wire \o <<k>>
      BY <2>1, <3>1 DEF DataReceived
    <3>3. Len(frames) = 1
      BY <3>1
    <3>4. wire' \in Seq(Data) /\ Len(wire') = Len(wire) + 1
      BY <3>2 DEF Types
    <3> QED
      BY <1>2, <1>b, <3>3, <3>4 DEF Types
  <2>2. CASE frames \notin {<<k>> : k \in Data}
    <3>1. wire' = wire
      BY <2>2 DEF DataReceived
    <3>2. Len(wire) \in Nat /\ Len(wire) <= sent /\ sent \in Nat
      BY <1>b DEF Types
    <3> QED
      BY <1>2, <3>1, <3>2 DEF Types
  <2> QED
    BY <2>1, <2>2
<1>4. /\ ready' \in Seq(Tasks)
      /\ \A i \in DOMAIN ready' :
            ready'[i][1] \in Data => ready'[i][2] \in 1..setting.frames
  <2>1. CASE jammed'
    <3>1. <<"protocol error", 0>> \in Tasks
      BY LoopTask DEF Types
    <3>2. ready' = Append(ready, <<"protocol error", 0>>)
      <4>1. ready' = ready \o << <<"protocol error", 0>> >>
        BY <2>1 DEF DataReceived
      <4> QED
        BY <3>1, <4>1, JoinedOne DEF Types
    <3>3. "protocol error" \notin Data
      BY DEF Data
    <3> QED
      BY <3>1, <3>2, <3>3, AddedTypes
  <2>2. CASE ~jammed' /\ frames = <<>>
    <3>1. [i \in DOMAIN frames |-> <<frames[i], Len(wire')>>] = <<>>
      BY <2>2
    <3>2. ready' = ready \o <<>>
      BY <2>2, <3>1 DEF DataReceived
    <3>3. ready' = ready
      BY <3>2 DEF Types
    <3> QED
      BY <3>3 DEF Types
  <2>3. CASE ~jammed' /\ frames # <<>>
    <3>1. PICK k \in Kinds : frames = <<k>>
      BY <1>1, <2>3
    <3>2. [i \in DOMAIN frames |-> <<frames[i], Len(wire')>>] = << <<k, Len(wire')>> >>
      BY <3>1
    <3>3. ready' = Append(ready, <<k, Len(wire')>>)
      BY <2>3, <3>2 DEF DataReceived, Types
    <3>4. Len(wire') \in 0..setting.frames
      BY <1>2, <1>3, <1>b
    <3>5. <<k, Len(wire')>> \in Tasks
      BY <3>4, PairIn DEF Tasks
    <3>6. k \in Data => Len(wire') \in 1..setting.frames
      <4>1. k \in Data => wire' = wire \o <<k>>
        BY <3>1 DEF DataReceived
      <4>2. k \in Data => Len(wire') = Len(wire) + 1
        BY <4>1 DEF Types
      <4> QED
        BY <3>4, <4>2 DEF Types
    <3> QED
      BY <3>3, <3>5, <3>6, AddedTypes
  <2> QED
    BY <2>1, <2>2, <2>3
<1>5. jammed' \in BOOLEAN
  BY DEF DataReceived, Types
<1> QED
  BY <1>0, <1>2, <1>3, <1>4, <1>5 DEF DataReceived, Types, link, tasks, queues, flags

(* So does the sender.                                                     *)
LEMMA SenderStepTypes ==
    ASSUME Types, SenderStep
    PROVE  Types'
<1>0. /\ setting' = setting
      /\ Tasks' = Tasks /\ Events' = Events /\ Sends' = Sends /\ Written' = Written
  BY SettingKept DEF Next
<1>b. setting.frames \in Nat /\ setting.sends \in Nat
  BY Bounds DEF Types
<1>1. CASE SenderStart \/ SenderPoll
  BY <1>0, <1>1 DEF SenderStart, SenderPoll, Types, link, queues, flags, client
<1>2. CASE \/ HandleAccept \/ HandleAccept101 \/ HandleSend \/ HandleAppClose
           \/ SenderFails
  <2>1. PICK messages : Took(messages)
    BY <1>2 DEF HandleAccept, HandleAccept101, HandleSend, HandleAppClose, SenderFails
  <2>2. outbox' \in Seq(Sends) /\ Head(outbox) \in Sends
    BY <2>1, Popped DEF Took, Types
  <2>3. /\ channel' \in {"open", "shut", "gone", "failing"}
        /\ accepted' \in BOOLEAN /\ closed' \in BOOLEAN
        /\ events' \in Seq(Events)
        /\ out' \in Seq(Written)
        /\ sender' \in {"new", "starting", "waiting", "done"}
    <3>1. CASE HandleAccept
      BY <3>1 DEF HandleAccept, Looping, Types, link
    <3>2. CASE HandleAccept101
      <4>1. <<"101", 0>> \in Written
        BY <1>b, PairIn DEF Written
      <4>2. out' \in Seq(Written)
        BY <3>2, <4>1, WriteTypes DEF HandleAccept101
      <4> QED
        BY <3>2, <4>2 DEF HandleAccept101, Looping, Types
    <3>3. CASE HandleSend
      <4>1. <<"data", Head(outbox)[2]>> \in Written
        <5>1. Head(outbox)[2] \in 0..setting.sends
          BY <1>b, <2>2 DEF Sends
        <5> QED
          BY <5>1, PairIn DEF Written
      <4>2. Write(<<"data", Head(outbox)[2]>>) => out' \in Seq(Written)
        BY <4>1, WriteTypes
      <4>3. out' \in Seq(Written)
        BY <3>3, <4>2 DEF HandleSend, Types
      <4> QED
        BY <3>3, <4>3 DEF HandleSend, Looping, Types, flags
    <3>4. CASE HandleAppClose
      <4>1. Close(FALSE, <<>>)
        BY <3>4 DEF HandleAppClose
      <4> QED
        BY <3>4, <4>1, CloseTypes, Nothing DEF HandleAppClose, Types
    <3>5. CASE SenderFails
      BY <3>5 DEF SenderFails, Types, link, flags
    <3> QED
      BY <1>2, <3>1, <3>2, <3>3, <3>4, <3>5
  <2> QED
    BY <1>0, <2>1, <2>2, <2>3 DEF Took, Types, client
<1> QED
  BY <1>1, <1>2 DEF SenderStep

(* Every step keeps the types.                                             *)
LEMMA TypesKept ==
    ASSUME Types, [Next]_vars
    PROVE  Types'
<1>0. /\ setting' = setting
      /\ Tasks' = Tasks /\ Events' = Events /\ Sends' = Sends /\ Written' = Written
  BY SettingKept
<1>b. setting.frames \in Nat /\ setting.sends \in Nat
  BY Bounds DEF Types
<1>1. CASE LoopStep
  BY <1>1, LoopStepTypes
<1>2. CASE \E frames \in Frames, bad \in BOOLEAN : DataReceived(frames, bad)
  BY <1>2, DataReceivedTypes
<1>3. CASE ConnectionLost \/ StreamFails \/ AppReturn
  BY <1>0, <1>3 DEF ConnectionLost, StreamFails, AppReturn, Types, link, tasks,
     queues, flags, client
<1>4. CASE \E message \in Messages : AppSend(message)
  <2>1. PICK message \in Messages : AppSend(message)
    BY <1>4
  <2>2. sends' \in 1..setting.sends
    BY <1>b, <2>1 DEF AppSend, Types
  <2>3. <<message, sends'>> \in Sends
    BY <2>2, PairIn DEF Sends
  <2>4. outbox' \in Seq(Sends)
    BY <2>1, <2>3, Appended DEF AppSend, Types
  <2>5. sends' \in 0..setting.sends
    BY <2>2, <1>b
  <2> QED
    BY <1>0, <2>1, <2>4, <2>5 DEF AppSend, Types, link, tasks, flags, client
<1>5. CASE AppRaise \/ Cleanup
  <2>1. Close(FALSE, <<>>)
    BY <1>5 DEF AppRaise, Cleanup
  <2>2. /\ channel' \in {"open", "shut", "gone", "failing"}
        /\ closed' \in BOOLEAN
        /\ events' \in Seq(Events)
        /\ out' \in Seq(Written)
    BY <2>1, CloseTypes, Nothing
  <2> QED
    BY <1>0, <1>5, <2>2 DEF AppRaise, Cleanup, Types, client
<1>6. CASE SenderStep
  BY <1>6, SenderStepTypes
<1>7. CASE SendPing
  <2>1. <<"ping", 0>> \in Written
    BY <1>b, PairIn DEF Written
  <2>2. Write(<<"ping", 0>>) => out' \in Seq(Written)
    BY <2>1, WriteTypes
  <2>3. out' \in Seq(Written)
    BY <1>7, <2>2 DEF SendPing, Types
  <2> QED
    BY <1>0, <1>7, <2>3 DEF SendPing, Types, tasks, queues, flags, client
<1>8. CASE OnPingTimeout
  <2>1. <<"ping timeout", 0>> \in Tasks /\ "ping timeout" \notin Data
    BY LoopTask DEF Types
  <2>2. /\ ready' \in Seq(Tasks)
        /\ \A i \in DOMAIN ready' :
              ready'[i][1] \in Data => ready'[i][2] \in 1..setting.frames
    <3>1. CASE ready' = ready
      BY <3>1 DEF Types
    <3>2. CASE ready' = Append(ready, <<"ping timeout", 0>>)
      BY <2>1, <3>2, AddedTypes
    <3> QED
      BY <1>8, <3>1, <3>2 DEF OnPingTimeout
  <2> QED
    BY <1>0, <1>8, <2>2 DEF OnPingTimeout, Types, link, tasks, queues, flags, client
<1>9. CASE Tick \/ UNCHANGED vars
  BY <1>0, <1>9 DEF Tick, vars, Types, link, tasks, queues, flags, client
<1> QED
  BY <1>1, <1>2, <1>3, <1>4, <1>5, <1>6, <1>7, <1>8, <1>9 DEF Next

(* The types hold at first.                                                *)
LEMMA TypesAtFirst ==
    ASSUME Init
    PROVE  Types
<1>b. setting.frames \in Nat /\ setting.sends \in Nat
  BY Bounds DEF Init
<1>1. <<"handle", 0>> \in Tasks /\ "handle" \notin Data
  BY LoopTask DEF Init
<1>2. ready = << <<"handle", 0>> >> /\ ready \in Seq(Tasks)
  BY <1>1, Short DEF Init
<1>3. \A i \in DOMAIN ready : ready[i][1] \notin Data
  BY <1>1, <1>2
<1>4. events \in Seq(Events) /\ outbox \in Seq(Sends) /\ wire \in Seq(Data)
  BY DEF Init
<1>5. out \in Seq(Written) /\ partial \in Seq(1..setting.frames) /\ Len(wire) = 0
  BY DEF Init
<1>6. /\ setting \in Settings /\ 0 \in 0..setting.frames
      /\ 0 \in 0..setting.sends /\ 0 <= 0
  BY <1>b DEF Init
<1>7. /\ channel = "open" /\ handle = "new" /\ app = "new" /\ sender = "new"
      /\ sends = 0 /\ accepted = FALSE /\ closed = FALSE /\ jammed = FALSE
      /\ sent = 0
  BY DEF Init
<1> QED
  BY <1>2, <1>3, <1>4, <1>5, <1>6, <1>7 DEF Types

-----------------------------------------------------------------------------
(* EventsInOrder is inductive once it is known that handle() is the first  *)
(* task to run, and that it puts the connect before anything else happens. *)
Order ==
    /\ EventsInOrder
    /\ \A i \in DOMAIN ready : ready[i][1] = "handle" => i = 1 /\ handle = "new"
    /\ IF handle = "new"
       THEN /\ events = <<>> /\ ~closed /\ app = "new" /\ sender = "new"
            /\ ready # <<>> /\ ready[1][1] = "handle"
       ELSE events # <<>>

(* A connect at first, or a message while open, keeps the order of events. *)
LEMMA EventAdded ==
    ASSUME NEW event \in Events, Types, EventsInOrder, ~closed, ~closed',
           events' = Append(events, event),
           event # Disconnect, event = Connect <=> events = <<>>
    PROVE  EventsInOrder' /\ events' # <<>>
<1>1. /\ DOMAIN events' = 1..(Len(events) + 1) /\ Len(events') = Len(events) + 1
      /\ \A i \in 1..Len(events) : events'[i] = events[i]
      /\ events'[Len(events) + 1] = event
      /\ DOMAIN events = 1..Len(events) /\ Len(events) \in Nat
  BY Appended DEF Types
<1>4. events' # <<>>
  BY <1>1
<1>2. events = <<>> <=> Len(events) = 0
  BY DEF Types
<1>3. ASSUME NEW i \in DOMAIN events'
      PROVE  /\ events'[i] = Connect <=> i = 1
             /\ events'[i] = Disconnect <=> i = Len(events') /\ closed'
  <2>1. CASE i \in 1..Len(events)
    BY <1>1, <2>1 DEF EventsInOrder
  <2>2. CASE i = Len(events) + 1
    BY <1>1, <1>2, <2>2
  <2> QED
    BY <1>1, <2>1, <2>2
<1> QED
  BY <1>1, <1>3, <1>4 DEF EventsInOrder

(* What a close puts: one disconnect, its own or its caller's, or nothing. *)
LEMMA CloseEvents ==
    ASSUME NEW echo \in BOOLEAN, NEW put, Types, Close(echo, put),
           IF echo THEN ~closed /\ put = <<Disconnect>> ELSE put = <<>>
    PROVE  /\ closed'
           /\ IF closed THEN events' = events ELSE events' = Append(events, Disconnect)
<1>1. CASE closed
  <2>1. put = <<>> /\ events' = events \o put /\ closed' = closed
    BY <1>1 DEF Close
  <2>2. events' = events
    BY <2>1 DEF Types
  <2> QED
    BY <1>1, <2>1, <2>2
<1>2. CASE ~closed
  <2>1. Disconnect \in Events /\ events \in Seq(Events)
    BY DisconnectIsEvent DEF Types
  <2>2. events' = events \o put \o (IF echo THEN <<>> ELSE <<Disconnect>>) /\ closed'
    BY <1>2 DEF Close
  <2>3. CASE echo
    <3>1. Append(events, Disconnect) \in Seq(Events)
      BY <2>1, Appended
    <3>2. events \o put = Append(events, Disconnect)
      BY <2>1, <2>3, JoinedOne
    <3>3. Append(events, Disconnect) \o <<>> = Append(events, Disconnect)
      BY <3>1
    <3> QED
      BY <1>2, <2>2, <2>3, <3>2, <3>3
  <2>4. CASE ~echo
    <3>1. events \o put = events
      BY <2>1, <2>4
    <3>2. events \o <<Disconnect>> = Append(events, Disconnect)
      BY <2>1, JoinedOne
    <3> QED
      BY <1>2, <2>2, <2>4, <3>1, <3>2
  <2> QED
    BY <2>3, <2>4
<1> QED
  BY <1>1, <1>2

(* A close puts exactly one disconnect.                                    *)
LEMMA CloseOrder ==
    ASSUME NEW echo \in BOOLEAN, NEW put, Types, EventsInOrder, events # <<>>,
           Close(echo, put),
           IF echo THEN ~closed /\ put = <<Disconnect>> ELSE put = <<>>
    PROVE  EventsInOrder' /\ events' # <<>>
<1>0. closed' /\ IF closed THEN events' = events ELSE events' = Append(events, Disconnect)
  BY CloseEvents
<1>1. CASE closed
  BY <1>0, <1>1 DEF EventsInOrder
<1>2. CASE ~closed
  <2>1. events' = Append(events, Disconnect) /\ closed'
    BY <1>0, <1>2
  <2>2. /\ DOMAIN events' = 1..(Len(events) + 1) /\ Len(events') = Len(events) + 1
        /\ \A i \in 1..Len(events) : events'[i] = events[i]
        /\ events'[Len(events) + 1] = Disconnect
        /\ DOMAIN events = 1..Len(events) /\ Len(events) \in Nat
        /\ events' # <<>>
    BY <2>1, DisconnectIsEvent, Appended DEF Types
  <2>3. Len(events) > 0 /\ Disconnect # Connect
    BY DEF Types, Disconnect, Connect
  <2>4. ASSUME NEW i \in DOMAIN events'
        PROVE  /\ events'[i] = Connect <=> i = 1
               /\ events'[i] = Disconnect <=> i = Len(events') /\ closed'
    <3>1. CASE i \in 1..Len(events)
      BY <1>2, <2>1, <2>2, <3>1 DEF EventsInOrder
    <3>2. CASE i = Len(events) + 1
      BY <2>1, <2>2, <2>3, <3>2
    <3> QED
      BY <2>2, <3>1, <3>2
  <2> QED
    BY <2>1, <2>2, <2>4 DEF EventsInOrder
<1> QED
  BY <1>1, <1>2

(* The loop takes handle() first, and every other task after it.           *)
LEMMA TakenOrder ==
    ASSUME Types, Order, NEW task, Next1(task)
    PROVE  /\ task # "handle" => handle # "new"
           /\ \A i \in DOMAIN ready' : ready'[i][1] # "handle"
<1>1. Head(ready) = ready[1] /\ 1 \in DOMAIN ready /\ Head(ready)[1] = task
  BY TakenTypes
<1>2. \A i \in DOMAIN ready' : ready'[i] = ready[i + 1] /\ i + 1 \in DOMAIN ready
                               /\ i \in Nat \ {0}
  BY Popped DEF Types, Next1
<1>3. \A i \in Nat \ {0} : i + 1 # 1
  OBVIOUS
<1> QED
  BY <1>1, <1>2, <1>3 DEF Order

(* A task that is added does not come before handle().                     *)
LEMMA AddedOrder ==
    ASSUME Types, Order, NEW task \in Tasks, task[1] # "handle",
           ready' = Append(ready, task)
    PROVE  /\ \A i \in DOMAIN ready' :
                 ready'[i][1] = "handle" => i = 1 /\ handle = "new"
           /\ handle = "new" => ready' # <<>> /\ ready'[1][1] = "handle"
<1>1. /\ DOMAIN ready' = 1..(Len(ready) + 1)
      /\ \A i \in 1..Len(ready) : ready'[i] = ready[i]
      /\ ready'[Len(ready) + 1] = task
      /\ DOMAIN ready = 1..Len(ready) /\ Len(ready) \in Nat
      /\ ready' # <<>>
  BY Appended DEF Types
<1>2. \A i \in DOMAIN ready' : i \in 1..Len(ready) \/ i = Len(ready) + 1
  BY <1>1
<1>3. ready # <<>> => 1 \in 1..Len(ready)
  BY DEF Types
<1> QED
  BY <1>1, <1>2, <1>3 DEF Order

(* data_received adds one task or none.                                    *)
LEMMA DataReceivedAdds ==
    ASSUME Types, NEW frames \in Frames, NEW bad \in BOOLEAN,
           DataReceived(frames, bad)
    PROVE  \/ ready' = ready
           \/ \E task \in Tasks : task[1] # "handle" /\ ready' = Append(ready, task)
<1>b. Types'
  BY TypesKept DEF Next
<1>1. CASE jammed'
  <2>1. <<"protocol error", 0>> \in Tasks
    BY LoopTask DEF Types
  <2>2. ready' = ready \o << <<"protocol error", 0>> >>
    BY <1>1 DEF DataReceived
  <2>3. ready' = Append(ready, <<"protocol error", 0>>)
    BY <2>1, <2>2, JoinedOne DEF Types
  <2> QED
    BY <2>1, <2>3
<1>2. CASE ~jammed' /\ frames = <<>>
  <2>1. [i \in DOMAIN frames |-> <<frames[i], Len(wire')>>] = <<>>
    BY <1>2
  <2>2. ready' = ready \o <<>>
    BY <1>2, <2>1 DEF DataReceived
  <2> QED
    BY <2>2 DEF Types
<1>3. CASE ~jammed' /\ frames # <<>>
  <2>1. PICK k \in Kinds : frames = <<k>>
    BY <1>3 DEF Frames
  <2>2. Len(wire') \in 0..setting.frames
    BY <1>b, SettingKept, Bounds DEF Types, Next
  <2>3. <<k, Len(wire')>> \in Tasks /\ k # "handle"
    BY <2>2, PairIn DEF Tasks, Kinds, Data
  <2>4. [i \in DOMAIN frames |-> <<frames[i], Len(wire')>>] = << <<k, Len(wire')>> >>
    BY <2>1
  <2>5. ready' = ready \o << <<k, Len(wire')>> >>
    BY <1>3, <2>4 DEF DataReceived
  <2>6. ready' = Append(ready, <<k, Len(wire')>>)
    BY <2>3, <2>5, JoinedOne DEF Types
  <2> QED
    BY <2>3, <2>6
<1> QED
  BY <1>1, <1>2, <1>3

(* Every step keeps the order of events.                                   *)
LEMMA OrderKept ==
    ASSUME Types, Order, [Next]_vars
    PROVE  Order'
<1>b. Types'
  BY TypesKept
<1>1. CASE Handle
  <2>1. ready # <<>> /\ Head(ready)[1] = "handle" /\ Head(ready) = ready[1]
        /\ 1 \in DOMAIN ready
    BY <1>1, TakenTypes DEF Handle, Next1
  <2>2. handle = "new" /\ events = <<>> /\ ~closed
    BY <2>1 DEF Order
  <2>3. Connect \in Events /\ Connect # Disconnect
    BY ConnectIsEvent DEF Connect, Disconnect
  <2>4. EventsInOrder' /\ events' # <<>>
    BY <1>1, <2>2, <2>3, EventAdded DEF Handle, Order, flags
  <2>5. \A i \in DOMAIN ready' : ready'[i][1] # "handle"
    BY <1>1, TakenOrder DEF Handle
  <2> QED
    BY <1>1, <2>4, <2>5 DEF Order, Handle
<1>2. ASSUME NEW kind \in Kinds, HandleFrame(kind), ~closed, closed' = closed,
             \/ events' = events
             \/ \E parts \in Seq(1..setting.frames) :
                   events' = Append(events, Receive(parts))
      PROVE  Order'
  <2>1. handle # "new" /\ \A i \in DOMAIN ready' : ready'[i][1] # "handle"
    <3>1. kind # "handle" /\ Next1(kind)
      BY <1>2 DEF Kinds, Data, HandleFrame
    <3> QED
      BY <3>1, TakenOrder
  <2>2. events # <<>> /\ handle' = handle
    BY <1>2, <2>1 DEF Order, HandleFrame, tasks
  <2>3. EventsInOrder' /\ events' # <<>>
    <3>1. CASE events' = events
      BY <1>2, <2>2, <3>1 DEF Order, EventsInOrder
    <3>2. CASE \E parts \in Seq(1..setting.frames) :
                  events' = Append(events, Receive(parts))
      <4>1. PICK parts \in Seq(1..setting.frames) :
                  events' = Append(events, Receive(parts))
        BY <3>2
      <4>2. Receive(parts) \in Events
        BY ReceiveIsEvent
      <4>3. Receive(parts) # Disconnect /\ Receive(parts) # Connect
        BY DEF Receive, Connect, Disconnect
      <4> QED
        BY <1>2, <2>2, <4>1, <4>2, <4>3, EventAdded DEF Order
    <3> QED
      BY <1>2, <3>1, <3>2
  <2> QED
    BY <2>1, <2>2, <2>3 DEF Order
<1>3. CASE HandleMessage
  <2>1. Number \in 1..setting.frames
    BY <1>3, TakenTypes DEF HandleMessage, HandleFrame, Data
  <2>2. <<Number>> \in Seq(1..setting.frames)
    BY <2>1, Short
  <2> QED
    BY <1>2, <1>3, <2>2 DEF HandleMessage, Kinds, Data
<1>4. CASE HandleFirst \/ HandleMiddle \/ HandlePing
  BY <1>2, <1>4 DEF HandleFirst, HandleMiddle, HandlePing, Kinds, Data
<1>5. CASE HandleLast
  <2>1. Number \in 1..setting.frames
    BY <1>5, TakenTypes DEF HandleLast, HandleFrame, Data
  <2>2. Append(partial, Number) \in Seq(1..setting.frames)
    BY <2>1, Appended DEF Types
  <2> QED
    BY <1>2, <1>5, <2>2 DEF HandleLast, Kinds, Data
<1>6. CASE HandleClose
  <2>1. Next1("close") /\ Close(TRUE, <<Disconnect>>) /\ ~closed /\ handle' = handle
    BY <1>6 DEF HandleClose, HandleFrame, tasks
  <2>2. handle # "new" /\ \A i \in DOMAIN ready' : ready'[i][1] # "handle"
    BY <2>1, TakenOrder
  <2>3. EventsInOrder' /\ events' # <<>>
    BY <2>1, <2>2, CloseOrder DEF Order
  <2> QED
    BY <2>1, <2>2, <2>3 DEF Order
<1>7. CASE HandleNothing
  <2>1. PICK kind \in Kinds : HandleFrame(kind)
    BY <1>7 DEF HandleNothing
  <2>2. Next1(kind) /\ kind # "handle" /\ handle' = handle
    BY <2>1 DEF HandleFrame, Kinds, Data, tasks
  <2>3. handle # "new" /\ \A i \in DOMAIN ready' : ready'[i][1] # "handle"
    BY <2>2, TakenOrder
  <2> QED
    BY <1>7, <2>2, <2>3 DEF HandleNothing, Order, EventsInOrder
<1>8. CASE CloseTask
  <2>1. \E task \in {"protocol error", "ping timeout"} : Next1(task)
    BY <1>8 DEF CloseTask
  <2>2. Close(FALSE, <<>>) /\ handle' = handle
    BY <1>8 DEF CloseTask, tasks
  <2>3. handle # "new" /\ \A i \in DOMAIN ready' : ready'[i][1] # "handle"
    BY <2>1, TakenOrder
  <2>4. EventsInOrder' /\ events' # <<>>
    BY <2>2, <2>3, CloseOrder DEF Order
  <2> QED
    BY <2>2, <2>3, <2>4 DEF Order
<1>9. CASE \E frames \in Frames, bad \in BOOLEAN : DataReceived(frames, bad)
  <2>1. PICK frames \in Frames, bad \in BOOLEAN : DataReceived(frames, bad)
    BY <1>9
  <2>2. \/ ready' = ready
        \/ \E task \in Tasks : task[1] # "handle" /\ ready' = Append(ready, task)
    BY <2>1, DataReceivedAdds
  <2>3. /\ \A i \in DOMAIN ready' :
              ready'[i][1] = "handle" => i = 1 /\ handle = "new"
        /\ handle = "new" => ready' # <<>> /\ ready'[1][1] = "handle"
    BY <2>2, AddedOrder DEF Order
  <2> QED
    BY <2>1, <2>3 DEF DataReceived, Order, EventsInOrder, tasks, queues, flags
<1>10. CASE OnPingTimeout
  <2>1. <<"ping timeout", 0>> \in Tasks
    BY LoopTask DEF Types
  <2>2. ready' = ready \/ ready' = Append(ready, <<"ping timeout", 0>>)
    BY <1>10 DEF OnPingTimeout
  <2>3. /\ \A i \in DOMAIN ready' :
              ready'[i][1] = "handle" => i = 1 /\ handle = "new"
        /\ handle = "new" => ready' # <<>> /\ ready'[1][1] = "handle"
    BY <2>1, <2>2, AddedOrder DEF Order
  <2> QED
    BY <1>10, <2>3 DEF OnPingTimeout, Order, EventsInOrder, tasks, queues, flags
<1>11. CASE AppRaise \/ HandleAppClose \/ Cleanup
  <2>1. Close(FALSE, <<>>) /\ ready' = ready
    BY <1>11 DEF AppRaise, HandleAppClose, Took, Cleanup
  <2>2. handle # "new" /\ handle' # "new"
    BY <1>11 DEF AppRaise, HandleAppClose, Took, Cleanup, Order
  <2>3. EventsInOrder' /\ events' # <<>>
    BY <2>1, <2>2, CloseOrder DEF Order
  <2> QED
    BY <2>1, <2>2, <2>3 DEF Order
<1>12. CASE AppReturn \/ \E message \in Messages : AppSend(message)
  <2>1. app = "running" /\ ready' = ready /\ handle' = handle
        /\ events' = events /\ closed' = closed
    <3>1. CASE AppReturn
      BY <3>1 DEF AppReturn, queues, flags
    <3>2. ASSUME NEW message \in Messages, AppSend(message)
          PROVE  app = "running" /\ ready' = ready /\ handle' = handle
                 /\ events' = events /\ closed' = closed
      BY <3>2 DEF AppSend, flags, tasks
    <3> QED
      BY <1>12, <3>1, <3>2
  <2>2. handle # "new"
    BY <2>1 DEF Order
  <2> QED
    BY <2>1, <2>2 DEF Order, EventsInOrder
<1>13. CASE \/ SenderStart \/ SenderPoll \/ HandleAccept \/ HandleAccept101
            \/ HandleSend \/ SenderFails
  <2>1. handle # "new"
    BY <1>13 DEF SenderStart, SenderPoll, HandleAccept, HandleAccept101,
       HandleSend, SenderFails, Took, Order
  <2>2. /\ ready' = ready /\ handle' = handle
        /\ events' = events /\ closed' = closed
    BY <1>13 DEF SenderStart, SenderPoll, HandleAccept, HandleAccept101,
       HandleSend, SenderFails, Took, queues, flags
  <2> QED
    BY <2>1, <2>2 DEF Order, EventsInOrder
<1>14. CASE \/ ConnectionLost \/ StreamFails \/ SendPing \/ Tick \/ UNCHANGED vars
  <2>1. /\ ready' = ready /\ handle' = handle /\ app' = app /\ sender' = sender
        /\ events' = events /\ closed' = closed
    BY <1>14 DEF ConnectionLost, StreamFails, SendPing, Tick, vars, tasks,
       queues, flags
  <2> QED
    BY <2>1 DEF Order, EventsInOrder
<1> QED
  BY <1>1, <1>3, <1>4, <1>5, <1>6, <1>7, <1>8, <1>9, <1>10, <1>11, <1>12, <1>13,
     <1>14 DEF Next, LoopStep, SenderStep

-----------------------------------------------------------------------------
(* NothingAfterClose is inductive once it is known that the channel is     *)
(* shut with the close frame, and that what is shut is never open again.   *)
Silent ==
    /\ NothingAfterClose
    /\ \A i \in DOMAIN out : out[i][1] = "close" => channel = "shut"

(* A write keeps the close frame last, if a close shuts the channel.       *)
LEMMA WriteSilent ==
    ASSUME Types, Silent, NEW frame \in Written, Write(frame),
           IF frame[1] = "close"
           THEN channel' = IF channel = "open" THEN "shut" ELSE channel
           ELSE channel' = channel
    PROVE  Silent'
<1>1. CASE out' = out
  BY <1>1 DEF Silent, NothingAfterClose
<1>2. CASE channel = "open" /\ out' = Append(out, frame)
  <2>1. /\ DOMAIN out' = 1..(Len(out) + 1) /\ Len(out') = Len(out) + 1
        /\ \A i \in 1..Len(out) : out'[i] = out[i]
        /\ out'[Len(out) + 1] = frame
        /\ DOMAIN out = 1..Len(out) /\ Len(out) \in Nat
    BY <1>2, Appended DEF Types
  <2>2. \A i \in DOMAIN out : out[i][1] # "close"
    BY <1>2 DEF Silent
  <2>3. ASSUME NEW i \in DOMAIN out', out'[i][1] = "close"
        PROVE  i = Len(out') /\ channel' = "shut"
    <3>1. i = Len(out) + 1
      BY <2>1, <2>2, <2>3
    <3> QED
      BY <1>2, <2>1, <2>3, <3>1
  <2> QED
    BY <2>3 DEF Silent, NothingAfterClose
<1> QED
  BY <1>1, <1>2 DEF Write

(* So does a close.                                                        *)
LEMMA CloseSilent ==
    ASSUME Types, Silent, NEW echo, NEW put, Close(echo, put)
    PROVE  Silent'
<1>1. CASE closed
  BY <1>1 DEF Close, link, Silent, NothingAfterClose
<1>2. CASE ~closed
  <2>1. <<"close", 0>> \in Written
    <3>1. setting.sends \in Nat
      BY Bounds DEF Types
    <3> QED
      BY <3>1, PairIn DEF Written
  <2> QED
    BY <1>2, <2>1, WriteSilent DEF Close, Shut
<1> QED
  BY <1>1, <1>2

(* So does every step.                                                     *)
LEMMA SilentKept ==
    ASSUME Types, Silent, [Next]_vars
    PROVE  Silent'
<1>b. setting.sends \in Nat
  BY Bounds DEF Types
<1>0. ASSUME out' = out, channel' = channel PROVE Silent'
  BY <1>0 DEF Silent, NothingAfterClose
<1>w. ASSUME NEW kind \in {"101", "pong", "ping"}, Write(<<kind, 0>>), channel' = channel
      PROVE  Silent'
  <2>1. <<kind, 0>> \in Written
    BY <1>b, PairIn DEF Written
  <2> QED
    BY <1>w, <2>1, WriteSilent
<1>1. CASE HandleClose \/ CloseTask \/ AppRaise \/ HandleAppClose \/ Cleanup
  BY <1>1, CloseSilent DEF HandleClose, CloseTask, AppRaise, HandleAppClose, Cleanup
<1>2. CASE HandlePing \/ HandleAccept101 \/ SendPing
  BY <1>0, <1>w, <1>2 DEF HandlePing, HandleAccept101, SendPing
<1>3. CASE HandleSend
  <2>1. outbox # <<>> /\ channel' = channel
    BY <1>3 DEF HandleSend, Took
  <2>2. Head(outbox) \in Sends
    BY <2>1, Popped DEF Types
  <2>3. Head(outbox)[2] \in 0..setting.sends
    BY <1>b, <2>2 DEF Sends
  <2>4. <<"data", Head(outbox)[2]>> \in Written
    BY <2>3, PairIn DEF Written
  <2> QED
    BY <1>0, <1>3, <2>1, <2>4, WriteSilent DEF HandleSend
<1>4. CASE ConnectionLost \/ StreamFails
  BY <1>4 DEF ConnectionLost, StreamFails, Silent, NothingAfterClose
<1>5. CASE \/ Handle \/ HandleMessage \/ HandleFirst \/ HandleMiddle \/ HandleLast
           \/ HandleNothing
  BY <1>0, <1>5 DEF Handle, HandleMessage, HandleFirst, HandleMiddle, HandleLast,
     HandleNothing, link
<1>6. CASE \E frames \in Frames, bad \in BOOLEAN : DataReceived(frames, bad)
  BY <1>0, <1>6 DEF DataReceived, link
<1>7. CASE AppReturn \/ \E message \in Messages : AppSend(message)
  BY <1>0, <1>7 DEF AppReturn, AppSend, link
<1>8. CASE SenderStart \/ SenderPoll \/ HandleAccept \/ SenderFails
  BY <1>0, <1>8 DEF SenderStart, SenderPoll, HandleAccept, SenderFails, link
<1>9. CASE OnPingTimeout \/ Tick \/ UNCHANGED vars
  BY <1>0, <1>9 DEF OnPingTimeout, Tick, vars, link
<1> QED
  BY <1>1, <1>2, <1>3, <1>4, <1>5, <1>6, <1>7, <1>8, <1>9
     DEF Next, LoopStep, SenderStep

-----------------------------------------------------------------------------
(* SendsInOrder is inductive once it is known that what waits in the send  *)
(* queue is numbered in order, behind all that was written, and that a     *)
(* connection that is open and accepted has its 101.                       *)
Queued ==
    /\ \A i, j \in DOMAIN outbox : i < j => outbox[i][2] < outbox[j][2]
    /\ \A i \in DOMAIN outbox : outbox[i][2] <= sends
    /\ \A p \in DOMAIN out : out[p][1] = "data" =>
          /\ out[p][2] <= sends
          /\ \A i \in DOMAIN outbox : out[p][2] < outbox[i][2]

Switched ==
    setting.over = "http11" /\ accepted /\ channel = "open" =>
        \E k \in DOMAIN out : out[k][1] = "101"

Sequenced == SendsInOrder /\ Queued /\ Switched

(* Frames are written at the end; data come from the head of the queue.    *)
LEMMA WriteSequenced ==
    ASSUME Types, Sequenced, NEW frame \in Written, setting' = setting, sends' = sends,
           out' = out \/ out' = Append(out, frame),
           outbox' = outbox \/ (outbox # <<>> /\ outbox' = Tail(outbox)),
           setting.over = "http11" /\ accepted' /\ channel' = "open" =>
               \/ accepted /\ channel = "open"
               \/ out' = Append(out, frame) /\ frame[1] = "101",
           out' # out /\ frame[1] = "data" =>
               /\ outbox # <<>> /\ outbox' = Tail(outbox) /\ frame[2] = Head(outbox)[2]
               /\ accepted /\ channel = "open"
    PROVE  Sequenced'
<1> DEFINE n == Len(out)
<1>1. /\ n \in Nat /\ DOMAIN out = 1..n
      /\ \A i \in 1..n : out[i] \in Written
      /\ \/ out' = out
         \/ /\ DOMAIN out' = 1..(n + 1) /\ out'[n + 1] = frame
            /\ \A i \in 1..n : out'[i] = out[i]
            /\ out' = Append(out, frame)
  BY Appended DEF Types
<1> HIDE DEF n
<1>2. /\ \A i \in 1..n : i \in 1..(n + 1) /\ i < n + 1 /\ ~(n + 1 < i) /\ i # n + 1
      /\ \A i \in 1..(n + 1) : i \in 1..n \/ i = n + 1
      /\ 1..((n + 1) - 1) = 1..n /\ ~(n + 1 < n + 1) /\ n + 1 \in 1..(n + 1)
      /\ \A j \in 1..n : 1..(j - 1) \subseteq 1..n
  BY <1>1
<1>3. /\ \A i \in DOMAIN outbox : outbox[i] \in Sends
      /\ \/ outbox' = outbox
         \/ /\ outbox # <<>> /\ outbox' = Tail(outbox) /\ Head(outbox) = outbox[1]
            /\ 1 \in DOMAIN outbox
            /\ \A i \in DOMAIN outbox' : /\ outbox'[i] = outbox[i + 1] /\ i + 1 \in DOMAIN outbox
                                        /\ 1 < i + 1 /\ i \in Nat
  <2>1. outbox \in Seq(Sends)
    BY DEF Types
  <2>2. \A i \in DOMAIN outbox : outbox[i] \in Sends
    BY <2>1
  <2>3. ASSUME outbox # <<>>, outbox' = Tail(outbox)
        PROVE  /\ Head(outbox) = outbox[1] /\ 1 \in DOMAIN outbox
               /\ \A i \in DOMAIN outbox' : /\ outbox'[i] = outbox[i + 1] /\ i + 1 \in DOMAIN outbox
                                           /\ 1 < i + 1 /\ i \in Nat
    BY <2>1, <2>3, Popped
  <2> QED
    BY <2>2, <2>3
<1>4. setting.sends \in Nat
  BY Bounds DEF Types
<1>5. /\ \A i \in DOMAIN outbox : outbox[i][2] \in Nat
      /\ \A i \in 1..n : out[i][2] \in Nat
      /\ frame[2] \in Nat /\ sends \in Nat
  BY <1>1, <1>3, <1>4 DEF Sends, Written, Types
<1>6. out' # out /\ frame[1] = "data" =>
        /\ frame[2] <= sends /\ \A i \in DOMAIN outbox' : frame[2] < outbox'[i][2]
        /\ \A p \in 1..n : out[p][1] = "data" => out[p][2] < frame[2]
        /\ setting.over = "http11" => \E k \in 1..n : out[k][1] = "101"
  <2> SUFFICES ASSUME out' # out, frame[1] = "data"
               PROVE  /\ frame[2] <= sends /\ \A i \in DOMAIN outbox' : frame[2] < outbox'[i][2]
                      /\ \A p \in 1..n : out[p][1] = "data" => out[p][2] < frame[2]
                      /\ setting.over = "http11" => \E k \in 1..n : out[k][1] = "101"
    OBVIOUS
  <2>1. /\ outbox # <<>> /\ outbox' = Tail(outbox) /\ frame[2] = outbox[1][2]
        /\ accepted /\ channel = "open" /\ 1 \in DOMAIN outbox
    BY <1>3, Popped DEF Types
  <2>2. \A i \in DOMAIN outbox' : /\ outbox'[i] = outbox[i + 1] /\ i + 1 \in DOMAIN outbox
                                 /\ 1 < i + 1
    BY <2>1, Popped DEF Types
  <2>3. frame[2] <= sends /\ \A i \in DOMAIN outbox' : frame[2] < outbox'[i][2]
    BY <2>1, <2>2 DEF Sequenced, Queued
  <2>4. \A p \in 1..n : out[p][1] = "data" => out[p][2] < frame[2]
    BY <1>1, <2>1 DEF Sequenced, Queued
  <2>5. setting.over = "http11" => \E k \in 1..n : out[k][1] = "101"
    BY <1>1, <2>1 DEF Sequenced, Switched
  <2> QED
    BY <2>3, <2>4, <2>5
<1>7. SendsInOrder'
  <2>1. CASE out' = out
    BY <2>1 DEF Sequenced, SendsInOrder
  <2>2. CASE out' # out
    <3> SUFFICES ASSUME NEW i \in 1..(n + 1), NEW j \in 1..(n + 1), out'[j][1] = "data"
                 PROVE  /\ i < j /\ out'[i][1] = "data" => out'[i][2] < out'[j][2]
                        /\ setting.over = "http11" => \E k \in 1..(j - 1) : out'[k][1] = "101"
      BY <1>1, <2>2 DEF SendsInOrder
    <3>1. CASE j = n + 1
      BY <1>1, <1>2, <1>6, <2>2, <3>1
    <3>2. CASE j \in 1..n
      <4>1. out[j][1] = "data" /\ out'[j] = out[j]
        BY <1>1, <2>2, <3>2
      <4>2. setting.over = "http11" => \E k \in 1..(j - 1) : out[k][1] = "101"
        BY <1>1, <3>2, <4>1 DEF Sequenced, SendsInOrder
      <4>3. setting.over = "http11" => \E k \in 1..(j - 1) : out'[k][1] = "101"
        BY <1>1, <1>2, <2>2, <3>2, <4>2
      <4>4. ASSUME i < j, out'[i][1] = "data" PROVE out'[i][2] < out'[j][2]
        <5>1. i \in 1..n /\ out'[i] = out[i]
          BY <1>1, <1>2, <2>2, <3>2, <4>4
        <5> QED
          BY <1>1, <3>2, <4>1, <4>4, <5>1 DEF Sequenced, SendsInOrder
      <4> QED
        BY <4>3, <4>4
    <3> QED
      BY <1>2, <3>1, <3>2
  <2> QED
    BY <2>1, <2>2
<1>8. /\ \A i, j \in DOMAIN outbox' : i < j => outbox'[i][2] < outbox'[j][2]
      /\ \A i \in DOMAIN outbox' : outbox'[i][2] <= sends
  <2>1. CASE outbox' = outbox
    BY <2>1 DEF Sequenced, Queued
  <2>2. CASE outbox' # outbox
    <3>1. ASSUME NEW i \in DOMAIN outbox', NEW j \in DOMAIN outbox', i < j
          PROVE  outbox'[i][2] < outbox'[j][2]
      <4>1. i + 1 < j + 1
        BY <1>3, <2>2, <3>1
      <4> QED
        BY <1>3, <2>2, <3>1, <4>1 DEF Sequenced, Queued
    <3>2. \A i \in DOMAIN outbox' : outbox'[i][2] <= sends
      BY <1>3, <2>2 DEF Sequenced, Queued
    <3> QED
      BY <3>1, <3>2
  <2> QED
    BY <2>1, <2>2
<1>9. ASSUME NEW p \in DOMAIN out', out'[p][1] = "data"
      PROVE  out'[p][2] <= sends /\ \A i \in DOMAIN outbox' : out'[p][2] < outbox'[i][2]
  <2>1. CASE p \in 1..n /\ out'[p] = out[p]
    <3>1. out[p][2] <= sends /\ \A i \in DOMAIN outbox : out[p][2] < outbox[i][2]
      BY <1>1, <1>9, <2>1 DEF Sequenced, Queued
    <3> QED
      BY <1>3, <2>1, <3>1
  <2>2. CASE out' # out /\ p = n + 1
    BY <1>1, <1>6, <1>9, <2>2
  <2> QED
    BY <1>1, <1>2, <2>1, <2>2
<1>10. Switched'
  BY <1>1, <1>2 DEF Sequenced, Switched
<1> QED
  BY <1>7, <1>8, <1>9, <1>10 DEF Sequenced, Queued

(* Every step keeps it.                                                    *)
LEMMA SequencedKept ==
    ASSUME Types, Sequenced, [Next]_vars
    PROVE  Sequenced'
<1>b. setting.sends \in Nat /\ setting' = setting
  BY Bounds, SettingKept DEF Types
<1>f. \A kind \in {"101", "pong", "ping", "close"} : <<kind, 0>> \in Written
  <2>1. ASSUME NEW kind \in {"101", "pong", "ping", "close"} PROVE <<kind, 0>> \in Written
    BY <1>b, PairIn DEF Written
  <2> QED
    BY <2>1
<1>0. ASSUME out' = out, sends' = sends, accepted' = accepted,
             outbox' = outbox \/ (outbox # <<>> /\ outbox' = Tail(outbox)),
             setting.over = "http11" /\ channel' = "open" => channel = "open"
      PROVE  Sequenced'
  BY <1>0, <1>b, <1>f, WriteSequenced
<1>w. ASSUME NEW kind \in {"pong", "ping", "close"}, Write(<<kind, 0>>),
             sends' = sends, accepted' = accepted,
             outbox' = outbox \/ (outbox # <<>> /\ outbox' = Tail(outbox)),
             channel' = "open" => channel = "open"
      PROVE  Sequenced'
  <2>1. out' = out \/ out' = Append(out, <<kind, 0>>)
    BY <1>w DEF Write
  <2>2. <<kind, 0>> \in Written /\ <<kind, 0>>[1] # "data"
    BY <1>f
  <2> QED
    BY <1>b, <1>w, <2>1, <2>2, WriteSequenced
<1>c. ASSUME NEW echo, NEW put, Close(echo, put), sends' = sends, accepted' = accepted,
             outbox' = outbox \/ (outbox # <<>> /\ outbox' = Tail(outbox))
      PROVE  Sequenced'
  <2>1. CASE closed
    BY <1>0, <1>c, <2>1 DEF Close, link
  <2>2. CASE ~closed
    BY <1>c, <1>w, <2>2 DEF Close, Shut
  <2> QED
    BY <2>1, <2>2
<1>1. CASE HandleClose \/ CloseTask \/ AppRaise \/ HandleAppClose \/ Cleanup
  BY <1>1, <1>c DEF HandleClose, HandleFrame, CloseTask, AppRaise, HandleAppClose, Took, Cleanup
<1>2. CASE HandlePing \/ SendPing
  BY <1>0, <1>2, <1>w DEF HandlePing, HandleFrame, SendPing, queues, flags
<1>3. CASE HandleSend
  <2> DEFINE frame == <<"data", Head(outbox)[2]>>
  <2>1. /\ outbox # <<>> /\ outbox' = Tail(outbox) /\ sends' = sends /\ channel' = channel
        /\ accepted /\ accepted' = accepted
        /\ out' = out \/ (channel = "open" /\ out' = Append(out, frame))
    BY <1>3 DEF HandleSend, Took, Write, flags
  <2>2. Head(outbox) \in Sends
    BY <2>1, Popped DEF Types
  <2>3. Head(outbox)[2] \in 0..setting.sends
    BY <1>b, <2>2 DEF Sends
  <2>4. frame \in Written /\ frame[2] = Head(outbox)[2] /\ frame[1] = "data"
    BY <2>3, PairIn DEF Written
  <2> HIDE DEF frame
  <2> QED
    BY <1>b, <2>1, <2>4, WriteSequenced
<1>4. CASE HandleAccept101
  <2>1. /\ outbox # <<>> /\ outbox' = Tail(outbox) /\ sends' = sends /\ channel' = channel
        /\ Write(<<"101", 0>>)
    BY <1>4 DEF HandleAccept101, Took
  <2>2. IF channel = "open" THEN out' = Append(out, <<"101", 0>>) ELSE out' = out
    BY <2>1 DEF Write
  <2>3. <<"101", 0>> \in Written /\ <<"101", 0>>[1] = "101"
    BY <1>f
  <2> QED
    BY <1>b, <2>1, <2>2, <2>3, WriteSequenced
<1>5. CASE HandleAccept
  <2>1. /\ outbox # <<>> /\ outbox' = Tail(outbox) /\ sends' = sends /\ out' = out
        /\ setting.over # "http11"
    BY <1>5 DEF HandleAccept, Took, link
  <2> QED
    BY <1>b, <1>f, <2>1, WriteSequenced
<1>6. CASE SenderFails
  BY <1>0, <1>6 DEF SenderFails, Took, link, flags
<1>7. CASE ConnectionLost \/ StreamFails
  BY <1>0, <1>7 DEF ConnectionLost, StreamFails, queues, flags
<1>8. CASE \/ Handle \/ HandleMessage \/ HandleFirst \/ HandleMiddle \/ HandleLast
           \/ HandleNothing
  BY <1>0, <1>8 DEF Handle, HandleMessage, HandleFirst, HandleMiddle, HandleLast,
     HandleNothing, HandleFrame, link, flags
<1>9. CASE \E frames \in Frames, bad \in BOOLEAN : DataReceived(frames, bad)
  BY <1>0, <1>9 DEF DataReceived, link, queues, flags
<1>10. ASSUME NEW message \in Messages, AppSend(message) PROVE Sequenced'
  <2> DEFINE m == Len(outbox)
             entry == <<message, sends + 1>>
  <2>1. /\ sends' = sends + 1 /\ outbox' = Append(outbox, entry) /\ sends < setting.sends
        /\ UNCHANGED <<channel, out, accepted, closed>>
    BY <1>10 DEF AppSend, link, flags
  <2>2. sends \in Nat /\ sends + 1 \in 1..setting.sends
    BY <1>b, <2>1 DEF Types
  <2>3. entry \in Sends /\ entry[2] = sends + 1
    BY <2>2, PairIn DEF Sends
  <2> HIDE DEF entry
  <2>4. /\ m \in Nat /\ DOMAIN outbox = 1..m /\ DOMAIN outbox' = 1..(m + 1)
        /\ \A i \in 1..m : outbox'[i] = outbox[i]
        /\ outbox'[m + 1] = entry
    BY <2>1, <2>3, Appended DEF Types
  <2>5. /\ \A i \in 1..m : outbox[i][2] \in Nat
        /\ \A p \in DOMAIN out : out[p][2] \in Nat
    <3>1. \A i \in 1..m : outbox[i] \in Sends
      BY <2>4 DEF Types
    <3>2. \A p \in DOMAIN out : out[p] \in Written
      BY DEF Types
    <3> QED
      BY <1>b, <3>1, <3>2 DEF Sends, Written
  <2> HIDE DEF m
  <2>6. \A i \in 1..(m + 1) : i \in 1..m \/ i = m + 1
    BY <2>4
  <2>7. \A i, j \in 1..(m + 1) : i < j => i \in 1..m
    BY <2>4
  <2>8. \A i \in 1..m : outbox[i][2] <= sends /\ outbox[i][2] < sends + 1
    BY <2>2, <2>4, <2>5 DEF Sequenced, Queued
  <2>9. \A i, j \in 1..(m + 1) : i < j => outbox'[i][2] < outbox'[j][2]
    <3> SUFFICES ASSUME NEW i \in 1..m, NEW j \in 1..(m + 1), i < j
                 PROVE  outbox'[i][2] < outbox'[j][2]
      BY <2>7
    <3>1. CASE j = m + 1
      BY <2>3, <2>4, <2>8, <3>1
    <3>2. CASE j \in 1..m
      BY <2>4, <3>2 DEF Sequenced, Queued
    <3> QED
      BY <2>6, <3>1, <3>2
  <2>10. \A i \in 1..(m + 1) : outbox'[i][2] <= sends + 1
    <3> SUFFICES ASSUME NEW i \in 1..(m + 1) PROVE outbox'[i][2] <= sends + 1
      OBVIOUS
    <3>1. CASE i = m + 1
      BY <2>2, <2>3, <2>4, <3>1
    <3>2. CASE i \in 1..m
      BY <2>2, <2>4, <2>5, <2>8, <3>2
    <3> QED
      BY <2>6, <3>1, <3>2
  <2>11. ASSUME NEW p \in DOMAIN out, out[p][1] = "data"
         PROVE  out[p][2] <= sends + 1 /\ \A i \in 1..(m + 1) : out[p][2] < outbox'[i][2]
    <3>1. out[p][2] <= sends /\ \A i \in 1..m : out[p][2] < outbox[i][2]
      BY <2>4, <2>11 DEF Sequenced, Queued
    <3>2. out[p][2] <= sends + 1 /\ out[p][2] < sends + 1
      BY <2>2, <2>5, <3>1
    <3> QED
      BY <2>3, <2>4, <2>6, <3>1, <3>2
  <2>12. Queued'
    BY <2>1, <2>4, <2>9, <2>10, <2>11 DEF Queued
  <2> QED
    BY <1>b, <2>1, <2>12 DEF Sequenced, SendsInOrder, Switched
<1>11. CASE AppReturn \/ SenderStart \/ SenderPoll
  BY <1>0, <1>11 DEF AppReturn, SenderStart, SenderPoll, link, queues, flags
<1>12. CASE OnPingTimeout \/ Tick \/ UNCHANGED vars
  BY <1>0, <1>12 DEF OnPingTimeout, Tick, vars, link, queues, flags
<1> QED
  BY <1>1, <1>2, <1>3, <1>4, <1>5, <1>6, <1>7, <1>8, <1>9, <1>10, <1>11, <1>12
     DEF Next, LoopStep, SenderStep

-----------------------------------------------------------------------------
(* MessagesWhole is inductive once it is known which frames are handled:   *)
(* the first `h` of those with data.  The tasks in `ready` continue them   *)
(* without a gap, up to a frame the parser has dropped, and _message_buffer *)
(* holds those of them that no event has delivered.                        *)
Delivered == IF events = <<>> THEN 0 ELSE Upto(Len(events))

InTurn(h) ==
    \A i \in DOMAIN ready : ready[i][1] \in Data =>
        /\ ready[i][2] \in (h + 1)..Len(wire) /\ ready[i][1] = wire[ready[i][2]]
        /\ \A m \in (h + 1)..(ready[i][2] - 1) : \E j \in 1..(i - 1) : ready[j] = <<wire[m], m>>
        /\ \A j \in DOMAIN ready : i < j /\ ready[j][1] \in Data => ready[i][2] < ready[j][2]

NoneMissing(h) ==
    ~jammed => \A m \in (h + 1)..Len(wire) : \E j \in DOMAIN ready : ready[j] = <<wire[m], m>>

Pending(h) == h <= Len(wire) /\ InTurn(h) /\ NoneMissing(h)

Gathered(h) ==
    /\ Delivered \in 0..h
    /\ Delivered # 0 => wire[Delivered] \in Final
    /\ partial = [k \in 1..(h - Delivered) |-> Delivered + k]
    /\ \A n \in (Delivered + 1)..h : wire[n] \notin Final

AllWhole == \A i \in DOMAIN events : events[i][1] = "receive" => Whole(i)

(* A jammed parser's error has a task as long as the WebSocket is open.    *)
ParserError == "protocol error"
Jams == jammed => \E i \in DOMAIN ready : ready[i][1] = ParserError

Reassembly ==
    /\ Lawful => AllWhole
    /\ ~closed =>
          /\ Jams
          /\ \E h \in Nat : Pending(h) /\ (Lawful => Gathered(h))

(* What arrives on the wire, and keeps what is there.                      *)
Arrives == wire' = wire \/ \E k \in Data : wire' = Append(wire, k)

LEMMA WireAt ==
    ASSUME Types, Types', Arrives
    PROVE  /\ Len(wire) \in Nat /\ Len(wire') \in Nat /\ Len(wire) <= Len(wire')
           /\ DOMAIN wire = 1..Len(wire) /\ DOMAIN wire' = 1..Len(wire')
           /\ \A n \in 1..Len(wire) : wire'[n] = wire[n] /\ wire[n] \in Data
           /\ wire' = wire \/ Len(wire') = Len(wire) + 1
           /\ Lawful' => Lawful
<1>1. /\ Len(wire) \in Nat /\ DOMAIN wire = 1..Len(wire)
      /\ \A n \in 1..Len(wire) : wire[n] \in Data
  BY DEF Types
<1>2. /\ Len(wire') \in Nat /\ DOMAIN wire' = 1..Len(wire')
      /\ \A n \in 1..Len(wire) : wire'[n] = wire[n]
      /\ wire' = wire \/ Len(wire') = Len(wire) + 1
      /\ Len(wire) <= Len(wire')
  <2>1. CASE wire' = wire
    BY <1>1, <2>1
  <2>2. ASSUME NEW k \in Data, wire' = Append(wire, k)
        PROVE  /\ Len(wire') \in Nat /\ DOMAIN wire' = 1..Len(wire')
               /\ \A n \in 1..Len(wire) : wire'[n] = wire[n]
               /\ Len(wire') = Len(wire) + 1
    BY <2>2, Appended DEF Types
  <2>3. \A a, b \in Nat : b = a \/ b = a + 1 => a <= b
    OBVIOUS
  <2>4. Len(wire') \in Nat /\ (Len(wire') = Len(wire) \/ Len(wire') = Len(wire) + 1)
    BY <1>1, <2>1, <2>2 DEF Arrives
  <2>5. Len(wire) <= Len(wire')
    BY <1>1, <2>3, <2>4
  <2> QED
    BY <2>1, <2>2, <2>5 DEF Arrives
<1>3. Lawful' => Lawful
  <2>1. \A n \in 1..Len(wire) :
           n \in 1..Len(wire') /\ wire'[n] = wire[n]
           /\ (n > 1 => wire'[n - 1] = wire[n - 1])
    <3>1. \A a, b \in Nat : a <= b => \A n \in 1..a :
             n \in 1..b /\ (n > 1 => n - 1 \in 1..a)
      OBVIOUS
    <3> QED
      BY <1>1, <1>2, <3>1
  <2> QED
    BY <1>1, <1>2, <2>1 DEF Lawful
<1> QED
  BY <1>1, <1>2, <1>3

(* The event loop takes the next frame, or a task that carries none.       *)
LEMMA PendingTaken ==
    ASSUME Types, NEW h \in Nat, Pending(h), NEW task, Next1(task),
           wire' = wire, jammed' = jammed
    PROVE  IF task \in Data
           THEN /\ Number = h + 1 /\ h + 1 <= Len(wire) /\ wire[h + 1] = task
                /\ Pending(h + 1)'
           ELSE Pending(h)'
<1> DEFINE n == Len(ready)
           w == Len(wire)
<1>1. /\ ready \in Seq(Tasks) /\ ready # <<>> /\ ready' = Tail(ready)
      /\ Head(ready)[1] = task
  BY DEF Types, Next1
<1>2. /\ n \in Nat \ {0} /\ w \in Nat
      /\ DOMAIN ready = 1..n /\ DOMAIN ready' = 1..(n - 1) /\ Head(ready) = ready[1]
      /\ \A i \in 1..(n - 1) : ready'[i] = ready[i + 1]
  BY <1>1, Popped DEF Types
<1>3. \A i \in 1..n : ready[i][1] \in Data => ready[i][2] \in Nat
  <2>1. setting.frames \in Nat
    BY Bounds DEF Types
  <2>2. \A i \in 1..n : ready[i][1] \in Data => ready[i][2] \in 1..setting.frames
    BY <1>2 DEF Types
  <2> QED
    BY <2>1, <2>2
<1> HIDE DEF n, w
<1>4. /\ 1 \in 1..n /\ 1..(1 - 1) = {}
      /\ \A i \in 1..(n - 1) : /\ i \in Nat /\ i + 1 \in 1..n /\ 1 < i + 1 /\ (i + 1) - 1 = i
                               /\ \A j \in 1..((i + 1) - 1) : j = 1 \/ j - 1 \in 1..(i - 1)
      /\ \A i, j \in 1..(n - 1) : i < j => i + 1 < j + 1
      /\ \A j \in 1..n : j = 1 \/ (j - 1 \in 1..(n - 1) /\ (j - 1) + 1 = j)
      /\ \A i \in 1..(n - 1) : \A j \in 1..(i - 1) : j \in 1..(n - 1) /\ j + 1 \in 1..i
  BY <1>2
<1>5. \A i \in 1..(n - 1) : ready'[i][1] \in Data =>
        /\ ready'[i][2] \in (h + 1)..w /\ ready'[i][1] = wire[ready'[i][2]]
        /\ \A m \in (h + 1)..(ready'[i][2] - 1) :
              ready[1] = <<wire[m], m>> \/ \E j \in 1..(i - 1) : ready'[j] = <<wire[m], m>>
        /\ \A j \in 1..(n - 1) : i < j /\ ready'[j][1] \in Data => ready'[i][2] < ready'[j][2]
        /\ ready[1][1] \in Data => ready[1][2] < ready'[i][2]
  <2> SUFFICES ASSUME NEW i \in 1..(n - 1), ready'[i][1] \in Data
               PROVE  /\ ready'[i][2] \in (h + 1)..w /\ ready'[i][1] = wire[ready'[i][2]]
                      /\ \A m \in (h + 1)..(ready'[i][2] - 1) :
                            \/ ready[1] = <<wire[m], m>>
                            \/ \E j \in 1..(i - 1) : ready'[j] = <<wire[m], m>>
                      /\ \A j \in 1..(n - 1) :
                            i < j /\ ready'[j][1] \in Data => ready'[i][2] < ready'[j][2]
                      /\ ready[1][1] \in Data => ready[1][2] < ready'[i][2]
    OBVIOUS
  <2>1. ready'[i] = ready[i + 1] /\ i + 1 \in 1..n
    BY <1>2, <1>4
  <2>2. /\ ready[i + 1][2] \in (h + 1)..w /\ ready[i + 1][1] = wire[ready[i + 1][2]]
        /\ \A m \in (h + 1)..(ready[i + 1][2] - 1) :
              \E j \in 1..((i + 1) - 1) : ready[j] = <<wire[m], m>>
        /\ \A j \in 1..n : i + 1 < j /\ ready[j][1] \in Data => ready[i + 1][2] < ready[j][2]
    BY <1>2, <2>1 DEF Pending, InTurn, w
  <2>3. ASSUME NEW m \in (h + 1)..(ready'[i][2] - 1), ready[1] # <<wire[m], m>>
        PROVE  \E j \in 1..(i - 1) : ready'[j] = <<wire[m], m>>
    <3>1. PICK j \in 1..((i + 1) - 1) : ready[j] = <<wire[m], m>>
      BY <2>1, <2>2, <2>3
    <3>2. j # 1
      BY <2>3, <3>1
    <3>3. j - 1 \in 1..(i - 1)
      BY <1>4, <3>1, <3>2
    <3>4. j - 1 \in 1..(n - 1) /\ (j - 1) + 1 = j
      BY <1>4, <2>1, <3>1, <3>2
    <3>5. ready'[j - 1] = ready[j]
      BY <1>2, <3>4
    <3> QED
      BY <3>1, <3>3, <3>5
  <2>4. \A j \in 1..(n - 1) : i < j /\ ready'[j][1] \in Data => ready'[i][2] < ready'[j][2]
    BY <1>2, <1>4, <2>1, <2>2
  <2>5. ready[1][1] \in Data => ready[1][2] < ready'[i][2]
    BY <1>2, <1>4, <2>1 DEF Pending, InTurn
  <2> QED
    BY <2>1, <2>2, <2>3, <2>4, <2>5
<1>6. ~jammed' => \A m \in (h + 1)..w :
        ready[1] = <<wire[m], m>> \/ \E j \in 1..(n - 1) : ready'[j] = <<wire[m], m>>
  <2> SUFFICES ASSUME ~jammed', NEW m \in (h + 1)..w, ready[1] # <<wire[m], m>>
               PROVE  \E j \in 1..(n - 1) : ready'[j] = <<wire[m], m>>
    OBVIOUS
  <2>1. PICK j \in 1..n : ready[j] = <<wire[m], m>>
    BY <1>2 DEF Pending, NoneMissing, w
  <2>2. j - 1 \in 1..(n - 1) /\ (j - 1) + 1 = j
    BY <1>4, <2>1
  <2>3. ready'[j - 1] = ready[j]
    BY <1>2, <2>2
  <2> QED
    BY <2>1, <2>2, <2>3
<1>7. h <= w
  BY DEF Pending, w
<1>8. CASE task \notin Data
  <2>1. \A m \in (h + 1)..w : ready[1] # <<wire[m], m>>
    <3>1. \A m \in (h + 1)..w : wire[m] \in Data
      <4>1. \A m \in 1..w : wire[m] \in Data
        BY DEF Types, w
      <4> QED
        BY <1>2, <4>1
    <3> QED
      BY <1>1, <1>2, <1>8, <3>1
  <2>2. ASSUME NEW i \in 1..(n - 1), ready'[i][1] \in Data,
               NEW m \in (h + 1)..(ready'[i][2] - 1)
        PROVE  \E j \in 1..(i - 1) : ready'[j] = <<wire[m], m>>
    <3>1. m \in (h + 1)..w
      BY <1>2, <1>5, <2>2
    <3> QED
      BY <1>5, <2>1, <2>2, <3>1
  <2>3. InTurn(h)'
    BY <1>2, <1>5, <2>2 DEF InTurn, w
  <2>4. NoneMissing(h)'
    BY <1>2, <1>6, <2>1 DEF NoneMissing, w
  <2> QED
    BY <1>7, <1>8, <2>3, <2>4 DEF Pending, w
<1>9. CASE task \in Data
  <2>1. /\ ready[1][1] = task /\ ready[1][2] \in (h + 1)..w /\ task = wire[ready[1][2]]
        /\ \A m \in (h + 1)..(ready[1][2] - 1) : \E j \in 1..(1 - 1) : ready[j] = <<wire[m], m>>
    BY <1>1, <1>2, <1>4, <1>9 DEF Pending, InTurn, w
  <2>2. ready[1][2] = h + 1
    <3>1. ~(h + 1 \in (h + 1)..(ready[1][2] - 1))
      BY <1>4, <2>1
    <3> QED
      BY <1>2, <2>1, <3>1
  <2>3. Number = h + 1 /\ h + 1 <= w /\ wire[h + 1] = task
    BY <1>2, <2>1, <2>2 DEF Number
  <2>4. \A m \in ((h + 1) + 1)..w : ready[1] # <<wire[m], m>>
    <3>1. \A m \in ((h + 1) + 1)..w : m # h + 1
      BY <1>2
    <3> QED
      BY <2>2, <3>1
  <2>5. ASSUME NEW i \in 1..(n - 1), ready'[i][1] \in Data
        PROVE  /\ ready'[i][2] \in ((h + 1) + 1)..w
               /\ \A m \in ((h + 1) + 1)..(ready'[i][2] - 1) :
                     \E j \in 1..(i - 1) : ready'[j] = <<wire[m], m>>
    <3>1. ready'[i][2] \in ((h + 1) + 1)..w
      BY <1>2, <1>5, <1>9, <2>1, <2>2, <2>5
    <3>2. ASSUME NEW m \in ((h + 1) + 1)..(ready'[i][2] - 1)
          PROVE  \E j \in 1..(i - 1) : ready'[j] = <<wire[m], m>>
      <4>1. m \in ((h + 1) + 1)..w /\ m \in (h + 1)..(ready'[i][2] - 1)
        BY <1>2, <3>1, <3>2
      <4> QED
        BY <1>5, <2>4, <2>5, <4>1
    <3> QED
      BY <3>1, <3>2
  <2>6. InTurn(h + 1)'
    BY <1>2, <1>5, <2>5 DEF InTurn, w
  <2>7. NoneMissing(h + 1)'
    <3>1. \A m \in ((h + 1) + 1)..w : m \in (h + 1)..w
      BY <1>2
    <3> QED
      BY <1>2, <1>6, <2>4, <3>1 DEF NoneMissing, w
  <2> QED
    BY <1>9, <2>3, <2>6, <2>7 DEF Pending, w
<1> QED
  BY <1>8, <1>9

(* A step that neither hands out nor takes a task.                         *)
LEMMA PendingSame ==
    ASSUME ready' = ready, wire' = wire, jammed' = jammed
    PROVE  (\A h \in Nat : Pending(h) => Pending(h)') /\ (Jams => Jams')
<1>1. ASSUME NEW h \in Nat, Pending(h) PROVE Pending(h)'
  <2>1. InTurn(h)'
    BY <1>1 DEF Pending, InTurn
  <2>2. NoneMissing(h)'
    BY <1>1 DEF Pending, NoneMissing
  <2>3. h <= Len(wire')
    BY <1>1 DEF Pending
  <2> QED
    BY <2>1, <2>2, <2>3 DEF Pending
<1>2. Jams => Jams'
  BY DEF Jams
<1> QED
  BY <1>1, <1>2

(* A task is added that carries the frame behind all others, or none.      *)
LEMMA PendingAdded ==
    ASSUME Types, Types', NEW h \in Nat, Pending(h), NEW task \in Tasks,
           ready' = Append(ready, task),
           \/ wire' = wire /\ task[1] \notin Data
           \/ \E k \in Data : /\ wire' = Append(wire, k)
                              /\ task = <<k, Len(wire')>> \/ task[1] \notin Data,
           jammed' \/ (~jammed /\ (wire' = wire \/ task[1] \in Data)),
           task[1] \in Data => ~jammed
    PROVE  Pending(h)'
<1> DEFINE n == Len(ready)
           w == Len(wire)
<1>1. /\ DOMAIN ready = 1..n /\ n \in Nat /\ DOMAIN ready' = 1..(n + 1)
      /\ \A i \in 1..n : ready'[i] = ready[i]
      /\ ready'[n + 1] = task
  BY Appended DEF Types
<1>2. /\ w \in Nat /\ Len(wire') \in Nat /\ w <= Len(wire')
      /\ \A m \in 1..w : wire'[m] = wire[m]
      /\ wire' = wire \/ Len(wire') = w + 1
  BY WireAt DEF Arrives
<1>3. task[1] \in Data => /\ task = <<wire'[w + 1], w + 1>> /\ Len(wire') = w + 1
  <2> SUFFICES ASSUME task[1] \in Data
               PROVE  task = <<wire'[w + 1], w + 1>> /\ Len(wire') = w + 1
    OBVIOUS
  <2>1. PICK k \in Data : wire' = Append(wire, k) /\ task = <<k, Len(wire')>>
    OBVIOUS
  <2>2. Len(wire') = w + 1 /\ wire'[w + 1] = k
    BY <2>1, Appended DEF Types
  <2> QED
    BY <2>1, <2>2
<1>4. /\ h <= w
      /\ \A i \in 1..n : ready[i][1] \in Data =>
            /\ ready[i][2] \in (h + 1)..w /\ ready[i][1] = wire[ready[i][2]]
            /\ \A m \in (h + 1)..(ready[i][2] - 1) : \E j \in 1..(i - 1) : ready[j] = <<wire[m], m>>
            /\ \A j \in 1..n : i < j /\ ready[j][1] \in Data => ready[i][2] < ready[j][2]
      /\ ~jammed => \A m \in (h + 1)..w : \E j \in 1..n : ready[j] = <<wire[m], m>>
  BY <1>1 DEF Pending, InTurn, NoneMissing
<1> HIDE DEF n, w
<1>5. /\ \A i \in 1..(n + 1) : i \in 1..n \/ i = n + 1
      /\ \A i \in 1..n : i \in 1..(n + 1) /\ ~(n + 1 < i)
      /\ (n + 1) - 1 = n /\ (w + 1) - 1 = w /\ n + 1 \in 1..(n + 1) /\ ~(n + 1 < n + 1)
      /\ \A i \in 1..n : \A j \in 1..(i - 1) : j \in 1..n
      /\ \A m \in (h + 1)..w : m \in 1..w /\ m \in (h + 1)..Len(wire') /\ m < w + 1
      /\ \A m \in (h + 1)..w : \A k \in (h + 1)..(m - 1) : k \in 1..w
      /\ \A m \in (h + 1)..(w + 1) : m \in (h + 1)..w \/ m = w + 1
  BY <1>1, <1>2
<1>6. ASSUME NEW i \in 1..(n + 1), ready'[i][1] \in Data
      PROVE  /\ ready'[i][2] \in (h + 1)..Len(wire') /\ ready'[i][1] = wire'[ready'[i][2]]
             /\ \A m \in (h + 1)..(ready'[i][2] - 1) :
                   \E j \in 1..(i - 1) : ready'[j] = <<wire'[m], m>>
             /\ \A j \in 1..(n + 1) : i < j /\ ready'[j][1] \in Data => ready'[i][2] < ready'[j][2]
  <2>1. CASE i \in 1..n
    <3>1. /\ ready'[i] = ready[i] /\ ready[i][2] \in (h + 1)..w /\ ready[i][1] = wire[ready[i][2]]
          /\ \A m \in (h + 1)..(ready[i][2] - 1) : \E j \in 1..(i - 1) : ready[j] = <<wire[m], m>>
          /\ \A j \in 1..n : i < j /\ ready[j][1] \in Data => ready[i][2] < ready[j][2]
      BY <1>1, <1>4, <1>6, <2>1
    <3>2. ready'[i][2] \in (h + 1)..Len(wire') /\ ready'[i][1] = wire'[ready'[i][2]]
      BY <1>2, <1>5, <3>1
    <3>3. ASSUME NEW m \in (h + 1)..(ready[i][2] - 1)
          PROVE  \E j \in 1..(i - 1) : ready'[j] = <<wire'[m], m>>
      <4>1. PICK j \in 1..(i - 1) : ready[j] = <<wire[m], m>>
        BY <3>1, <3>3
      <4>2. wire'[m] = wire[m]
        BY <1>2, <1>5, <3>1, <3>3
      <4>3. ready'[j] = ready[j]
        BY <1>1, <1>5, <2>1, <4>1
      <4> QED
        BY <4>1, <4>2, <4>3
    <3>4. ASSUME NEW j \in 1..(n + 1), i < j, ready'[j][1] \in Data
          PROVE  ready'[i][2] < ready'[j][2]
      <4>1. CASE j \in 1..n
        BY <1>1, <3>1, <3>4, <4>1
      <4>2. CASE j = n + 1
        BY <1>1, <1>3, <1>5, <3>1, <3>4, <4>2
      <4> QED
        BY <1>5, <4>1, <4>2
    <3> QED
      BY <3>1, <3>2, <3>3, <3>4
  <2>2. CASE i = n + 1
    <3>1. ready'[i] = <<wire'[w + 1], w + 1>> /\ Len(wire') = w + 1 /\ task[1] \in Data
      BY <1>1, <1>3, <1>6, <2>2
    <3>2. ready'[i][2] = w + 1 /\ ready'[i][1] = wire'[w + 1] /\ w + 1 \in (h + 1)..Len(wire')
      BY <1>2, <1>4, <3>1
    <3>3. ASSUME NEW m \in (h + 1)..w
          PROVE  \E j \in 1..n : ready'[j] = <<wire'[m], m>>
      <4>1. PICK j \in 1..n : ready[j] = <<wire[m], m>>
        BY <1>4, <3>1
      <4> QED
        BY <1>1, <1>2, <1>5, <4>1
    <3> QED
      BY <1>5, <2>2, <3>2, <3>3
  <2> QED
    BY <1>5, <2>1, <2>2
<1>7. InTurn(h)'
  BY <1>1, <1>6 DEF InTurn
<1>8. NoneMissing(h)'
  <2> SUFFICES ASSUME ~jammed', NEW m \in (h + 1)..Len(wire')
               PROVE  \E j \in 1..(n + 1) : ready'[j] = <<wire'[m], m>>
    BY <1>1 DEF NoneMissing
  <2>1. ~jammed /\ (wire' = wire \/ task[1] \in Data)
    OBVIOUS
  <2>2. CASE m \in (h + 1)..w
    <3>1. PICK j \in 1..n : ready[j] = <<wire[m], m>>
      BY <1>4, <2>1, <2>2
    <3>2. wire'[m] = wire[m] /\ ready'[j] = ready[j] /\ j \in 1..(n + 1)
      BY <1>1, <1>2, <1>5, <2>2, <3>1
    <3> QED
      BY <3>1, <3>2
  <2>3. CASE m \notin (h + 1)..w
    <3>1. Len(wire') = w + 1 /\ m = w + 1
      BY <1>2, <1>5, <2>3 DEF w
    <3>2. wire' # wire
      BY <1>2, <3>1 DEF w
    <3>3. ready'[n + 1] = <<wire'[w + 1], w + 1>>
      BY <1>1, <1>3, <2>1, <3>2
    <3> QED
      BY <1>5, <3>1, <3>3
  <2> QED
    BY <2>2, <2>3
<1>9. h <= Len(wire')
  BY <1>2, <1>4
<1> QED
  BY <1>7, <1>8, <1>9 DEF Pending

(* What has been delivered is a number.                                    *)
LEMMA UptoNat ==
    ASSUME Types, EventsInOrder, AllWhole, NEW i \in DOMAIN events
    PROVE  /\ Upto(i) \in Nat
           /\ events[i][1] = "receive" => i > 1 /\ i - 1 \in DOMAIN events
<1>1. DOMAIN events = 1..Len(events) /\ Len(events) \in Nat /\ events[i] \in Events
  BY DEF Types
<1>2. CASE events[i][1] # "receive"
  BY <1>2 DEF Upto
<1>3. CASE events[i][1] = "receive"
  <2>1. i # 1
    BY <1>3 DEF EventsInOrder, Connect
  <2>2. i > 1 /\ i - 1 \in DOMAIN events
    BY <1>1, <2>1
  <2>3. Upto(i - 1) \in Int
    <3>1. CASE events[i - 1][1] = "receive"
      <4>1. Whole(i - 1)
        BY <2>2, <3>1 DEF AllWhole
      <4> QED
        BY <4>1 DEF Whole
    <3>2. CASE events[i - 1][1] # "receive"
      BY <3>2 DEF Upto
    <3> QED
      BY <3>1, <3>2
  <2> DEFINE from == Upto(i - 1) + 1
             to == Upto(i)
  <2>4. /\ from \in Int /\ to \in from..Len(wire)
        /\ events[i][2] = [k \in 1..(to - from + 1) |-> from + k - 1]
    BY <1>3, <2>3 DEF AllWhole, Whole
  <2>5. events[i][2] # <<>>
    <3> HIDE DEF from, to
    <3>1. 1 \in 1..(to - from + 1)
      BY <2>4
    <3>2. DOMAIN events[i][2] = 1..(to - from + 1)
      BY <2>4
    <3>3. \A s \in Seq(Nat) : s = <<>> => 1 \notin DOMAIN s
      OBVIOUS
    <3>4. <<>> \in Seq(Nat)
      OBVIOUS
    <3> QED
      BY <3>1, <3>2, <3>3, <3>4
  <2>6. Last(events[i][2]) \in Nat
    <3>1. setting.frames \in Nat
      BY Bounds DEF Types
    <3>2. events[i][2] \in Seq(1..setting.frames)
      BY <1>1 DEF Events
    <3> DEFINE N == 1..setting.frames
    <3>3. events[i][2] \in Seq(N)
      BY <3>2
    <3> HIDE DEF N
    <3>4. \A p \in Seq(N) : p # <<>> => p[Len(p)] \in N
      OBVIOUS
    <3>5. Last(events[i][2]) \in N
      BY <2>5, <3>3, <3>4 DEF Last
    <3> QED
      BY <3>1, <3>5 DEF N
  <2> QED
    BY <1>3, <2>2, <2>6 DEF Upto
<1> QED
  BY <1>2, <1>3

(* A message that is whole stays so: frames only come behind it.           *)
LEMMA WholeKept ==
    ASSUME Types, Types', Arrives, NEW i, Whole(i), Upto(i - 1) \in Nat,
           Upto(i - 1)' = Upto(i - 1), Upto(i)' = Upto(i), events'[i] = events[i]
    PROVE  Whole(i)'
<1> DEFINE from == Upto(i - 1) + 1
           to == Upto(i)
           w == Len(wire)
<1>1. /\ to \in from..w
      /\ events[i][2] = [k \in 1..(to - from + 1) |-> from + k - 1]
      /\ \A n \in from..to : wire[n] \in Final <=> n = to
  BY DEF Whole
<1>2. /\ w \in Nat /\ Len(wire') \in Nat /\ w <= Len(wire')
      /\ \A n \in 1..w : wire'[n] = wire[n]
  BY WireAt
<1>3. from \in Nat \ {0}
  OBVIOUS
<1>4. from' = from /\ to' = to
  OBVIOUS
<1> HIDE DEF from, to, w
<1>5. to \in from..Len(wire') /\ \A n \in from..to : n \in 1..w
  BY <1>1, <1>2, <1>3
<1>6. \A n \in from..to : wire'[n] \in Final <=> n = to
  BY <1>1, <1>2, <1>5
<1>7. /\ to' \in (from')..Len(wire')
      /\ events'[i][2] = [k \in 1..(to' - from' + 1) |-> from' + k - 1]
      /\ \A n \in (from')..(to') : wire'[n] \in Final <=> n = to'
  BY <1>1, <1>4, <1>5, <1>6
<1> QED
  BY <1>7 DEF Whole, from, to

(* So do all, when there is no further event ...                           *)
LEMMA AllWholeSame ==
    ASSUME Types, Types', EventsInOrder, AllWhole, Arrives, events' = events
    PROVE  AllWhole'
<1> SUFFICES ASSUME NEW i \in DOMAIN events', events'[i][1] = "receive"
             PROVE  Whole(i)'
  BY DEF AllWhole
<1>1. i \in DOMAIN events /\ events[i][1] = "receive" /\ Whole(i)
  BY DEF AllWhole
<1>2. i - 1 \in DOMAIN events
  BY <1>1, UptoNat
<1>3. Upto(i - 1) \in Nat
  BY <1>2, UptoNat
<1>4. Upto(i - 1)' = Upto(i - 1) /\ Upto(i)' = Upto(i)
  BY DEF Upto
<1> QED
  BY <1>1, <1>3, <1>4, WholeKept

(* ... and when there is one, if it is whole itself.                       *)
LEMMA AllWholeMore ==
    ASSUME Types, Types', EventsInOrder, AllWhole, Arrives,
           NEW event \in Events, events' = Append(events, event),
           NEW n \in Nat, n = Len(events) + 1, event[1] = "receive" => Whole(n)'
    PROVE  AllWhole'
<1> SUFFICES ASSUME NEW i \in DOMAIN events', events'[i][1] = "receive"
             PROVE  Whole(i)'
  BY DEF AllWhole
<1>1. /\ DOMAIN events' = 1..n /\ Len(events) \in Nat
      /\ \A k \in 1..Len(events) : events'[k] = events[k]
      /\ events'[n] = event
      /\ DOMAIN events = 1..Len(events)
  BY Appended DEF Types
<1>2. CASE i = n
  BY <1>1, <1>2
<1>3. CASE i # n
  <2>1. i \in DOMAIN events /\ events'[i] = events[i] /\ events[i][1] = "receive"
    BY <1>1, <1>3
  <2>2. Whole(i) /\ i - 1 \in DOMAIN events
    BY <2>1, UptoNat DEF AllWhole
  <2>3. Upto(i - 1) \in Nat /\ events'[i - 1] = events[i - 1]
    BY <1>1, <2>2, UptoNat
  <2>4. Upto(i - 1)' = Upto(i - 1) /\ Upto(i)' = Upto(i)
    BY <2>1, <2>3 DEF Upto
  <2> QED
    BY <2>1, <2>2, <2>3, <2>4, WholeKept
<1> QED
  BY <1>2, <1>3

(* A run of numbers, as _message_buffer and the messages are.              *)
LEMMA Run ==
    ASSUME NEW d \in Nat, NEW m \in Nat, NEW p, p = [k \in 1..m |-> d + k]
    PROVE  /\ p \in Seq(Nat) /\ Len(p) = m
           /\ p = <<>> => m = 0
           /\ m = 0 => p = <<>>
           /\ Append(p, d + m + 1) = [k \in 1..(m + 1) |-> d + k]
<1>1. p \in Seq(Nat) /\ Len(p) = m /\ DOMAIN p = 1..m
  OBVIOUS
<1>2. p = <<>> <=> m = 0
  BY <1>1
<1> DEFINE q == [k \in 1..(m + 1) |-> d + k]
           a == Append(p, d + m + 1)
<1>3. q \in Seq(Nat) /\ DOMAIN q = 1..(m + 1) /\ \A k \in 1..(m + 1) : q[k] = d + k
  OBVIOUS
<1>4. d + m + 1 \in Nat
  OBVIOUS
<1>5. /\ a \in Seq(Nat) /\ DOMAIN a = 1..(m + 1) /\ \A k \in 1..m : a[k] = p[k]
      /\ a[m + 1] = d + m + 1
  BY <1>1, <1>4, Appended
<1>6. \A k \in 1..(m + 1) : k \in 1..m \/ k = m + 1
  OBVIOUS
<1>7. \A k \in 1..m : p[k] = d + k
  OBVIOUS
<1>8. \A k \in 1..(m + 1) : a[k] = q[k]
  <2> HIDE DEF a
  <2>1. ASSUME NEW k \in 1..(m + 1)
        PROVE  a[k] = d + k
    <3>1. CASE k \in 1..m
      BY <1>5, <1>7, <3>1
    <3>2. CASE k = m + 1
      BY <1>5, <3>2
    <3> QED
      BY <1>6, <3>1, <3>2
  <2> QED
    BY <1>3, <2>1
<1>9. a = q
  <2> HIDE DEF a, q
  <2>1. \A s, t \in Seq(Nat) : DOMAIN s = DOMAIN t /\ (\A k \in DOMAIN s : s[k] = t[k]) => s = t
    OBVIOUS
  <2> QED
    BY <1>3, <1>5, <1>8, <2>1
<1> QED
  BY <1>1, <1>2, <1>9

(* Where the next frame of a lawful client stands: a message or its first  *)
(* fragment when nothing is gathered, the others when something is.        *)
LEMMA Fragment ==
    ASSUME Types, Lawful, NEW h \in Nat, Gathered(h), h + 1 <= Len(wire)
    PROVE  /\ wire[h + 1] \in {"text", "first"} => Delivered = h /\ partial = <<>>
           /\ wire[h + 1] \in {"cont", "last"} => Delivered < h /\ partial # <<>>
<1> DEFINE d == Delivered
           w == Len(wire)
<1>1. w \in Nat /\ DOMAIN wire = 1..w /\ \A n \in 1..w : wire[n] \in Data
  BY DEF Types
<1>2. /\ d \in 0..h
      /\ d # 0 => wire[d] \in Final
      /\ partial = [k \in 1..(h - d) |-> d + k]
      /\ \A n \in (d + 1)..h : wire[n] \notin Final
  BY DEF Gathered
<1> HIDE DEF d, w
<1>3. h - d \in Nat /\ (h - d = 0 <=> d = h) /\ (d = h \/ (d < h /\ h \in (d + 1)..h))
  BY <1>2
<1>4. partial = <<>> <=> d = h
  <2>1. d \in Nat
    BY <1>2
  <2> DEFINE m == h - d
  <2>2. m \in Nat /\ partial = [k \in 1..m |-> d + k]
    BY <1>2, <1>3
  <2> HIDE DEF m
  <2>3. partial = <<>> <=> m = 0
    <3>1. partial = <<>> => m = 0
      BY <2>1, <2>2, Run
    <3>2. m = 0 => partial = <<>>
      BY <2>1, <2>2, Run
    <3> QED
      BY <3>1, <3>2
  <2> QED
    BY <1>3, <2>3 DEF m
<1>5. /\ h + 1 \in 1..w /\ (h + 1) - 1 = h /\ (h + 1 > 1 <=> h # 0)
      /\ h # 0 => h \in 1..w
  BY <1>1 DEF w
<1>6. wire[h + 1] \in {"cont", "last"} <=> h # 0 /\ wire[h] \in {"first", "cont"}
  BY <1>1, <1>5 DEF Lawful
<1>7. h # 0 => (wire[h] \in {"first", "cont"} <=> wire[h] \notin Final)
  BY <1>1, <1>5 DEF Data, Final
<1>8. d < h => wire[h + 1] \in {"cont", "last"}
  BY <1>2, <1>3, <1>6, <1>7
<1>9. d = h => wire[h + 1] \notin {"cont", "last"}
  BY <1>2, <1>6, <1>7
<1>10. d = h => ~(d < h)
  BY <1>2
<1> QED
  BY <1>3, <1>4, <1>8, <1>9, <1>10 DEF d

(* A frame that arrives changes nothing of this ...                        *)
LEMMA GatheredKept ==
    ASSUME Types, Types', Arrives, NEW h \in Nat, h <= Len(wire), Gathered(h),
           events' = events, partial' = partial
    PROVE  Gathered(h)'
<1> DEFINE d == Delivered
<1>1. /\ d \in 0..h
      /\ d # 0 => wire[d] \in Final
      /\ partial = [k \in 1..(h - d) |-> d + k]
      /\ \A n \in (d + 1)..h : wire[n] \notin Final
  BY DEF Gathered
<1>2. Len(wire) \in Nat /\ \A n \in 1..Len(wire) : wire'[n] = wire[n]
  BY WireAt
<1>3. Delivered' = d
  BY DEF Delivered, Upto
<1> HIDE DEF d
<1>4. \A n \in 1..h : wire'[n] = wire[n]
  <2>1. \A w \in Nat : h <= w => \A n \in 1..h : n \in 1..w
    OBVIOUS
  <2> QED
    BY <1>2, <2>1
<1>5. (d # 0 => d \in 1..h) /\ \A n \in (d + 1)..h : n \in 1..h
  BY <1>1
<1> QED
  BY <1>1, <1>3, <1>4, <1>5 DEF Gathered

(* ... one that is handled and is not the last is gathered with the others *)
(* before it ...                                                           *)
LEMMA GatheredMore ==
    ASSUME NEW h \in Nat, Gathered(h), wire' = wire, events' = events,
           wire[h + 1] \notin Final, partial' = Append(partial, h + 1)
    PROVE  Gathered(h + 1)'
<1> DEFINE d == Delivered
           m == h - d
<1>1. /\ d \in 0..h
      /\ d # 0 => wire[d] \in Final
      /\ partial = [k \in 1..(h - d) |-> d + k]
      /\ \A n \in (d + 1)..h : wire[n] \notin Final
  BY DEF Gathered
<1>2. Delivered' = d
  BY DEF Delivered, Upto
<1> HIDE DEF d
<1>3. /\ m \in Nat /\ d \in Nat /\ d \in 0..(h + 1)
      /\ d + m + 1 = h + 1 /\ m + 1 = (h + 1) - d
      /\ \A n \in (d + 1)..(h + 1) : n \in (d + 1)..h \/ n = h + 1
  BY <1>1
<1>4. partial' = [k \in 1..((h + 1) - d) |-> d + k]
  <2>1. Append(partial, d + m + 1) = [k \in 1..(m + 1) |-> d + k]
    BY <1>1, <1>3, Run
  <2> QED
    BY <1>3, <2>1
<1> QED
  BY <1>1, <1>2, <1>3, <1>4 DEF Gathered

(* ... and the last completes a message, which is delivered.               *)
LEMMA GatheredWhole ==
    ASSUME Types, Types', EventsInOrder, AllWhole, events # <<>>,
           NEW h \in Nat, Gathered(h), h + 1 <= Len(wire),
           wire' = wire, wire[h + 1] \in Final, partial' = <<>>,
           NEW parts, parts = Append(partial, h + 1), Receive(parts) \in Events,
           events' = Append(events, Receive(parts))
    PROVE  AllWhole' /\ Gathered(h + 1)'
<1> DEFINE d == Delivered
           m == h - d
<1>1. /\ d \in 0..h
      /\ partial = [k \in 1..(h - d) |-> d + k]
      /\ \A k \in (d + 1)..h : wire[k] \notin Final
  BY DEF Gathered
<1>2. PICK n \in Nat :
         /\ n = Len(events) + 1 /\ n - 1 = Len(events) /\ n - 1 \in 1..Len(events)
         /\ Len(events') = n /\ events'[n] = Receive(parts)
         /\ events'[n - 1] = events[n - 1] /\ events' # <<>>
  <2>1. Len(events) \in Nat \ {0}
    BY DEF Types
  <2>2. /\ Len(events') = Len(events) + 1 /\ events'[Len(events) + 1] = Receive(parts)
        /\ \A k \in 1..Len(events) : events'[k] = events[k]
        /\ DOMAIN events' = 1..(Len(events) + 1)
    BY Appended DEF Types
  <2> QED
    BY <2>1, <2>2
<1>3. d = Upto(n - 1)
  BY <1>2 DEF Delivered
<1> HIDE DEF d
<1>4. /\ m \in Nat /\ d \in Nat /\ d + m + 1 = h + 1 /\ m + 1 = (h + 1) - d
      /\ h + 1 \in (d + 1)..(h + 1) /\ h + 1 \in Nat
      /\ (h + 1) - (d + 1) + 1 = m + 1
      /\ \A k \in (d + 1)..(h + 1) : k \in (d + 1)..h \/ k = h + 1
      /\ \A k \in (d + 1)..h : k # h + 1
  BY <1>1
<1>5. parts = [k \in 1..(m + 1) |-> d + k]
  BY <1>1, <1>4, Run
<1>6. Last(parts) = h + 1
  <2>1. Len(parts) = m + 1
    BY <1>4, <1>5, Run
  <2>2. m + 1 \in 1..(m + 1)
    BY <1>4
  <2>3. parts[m + 1] = d + (m + 1)
    BY <1>5, <2>2
  <2> QED
    BY <1>4, <2>1, <2>3 DEF Last
<1>7. Upto(n)' = h + 1 /\ Upto(n - 1)' = d
  BY <1>2, <1>3, <1>6 DEF Upto, Receive
<1>8. parts = [k \in 1..((h + 1) - (d + 1) + 1) |-> (d + 1) + k - 1]
  <2>1. \A k \in 1..(m + 1) : (d + 1) + k - 1 = d + k
    BY <1>4
  <2> QED
    BY <1>4, <1>5, <2>1
<1>9. Whole(n)'
  <2>1. h + 1 \in (d + 1)..Len(wire')
    <3>1. Len(wire) \in Nat
      BY DEF Types
    <3> QED
      BY <1>4, <3>1
  <2>2. events'[n][2] = parts
    BY <1>2 DEF Receive
  <2>3. \A k \in (d + 1)..(h + 1) : wire'[k] \in Final <=> k = h + 1
    BY <1>1, <1>4
  <2> QED
    BY <1>7, <1>8, <2>1, <2>2, <2>3 DEF Whole
<1>10. AllWhole'
  BY <1>2, <1>9, AllWholeMore DEF Arrives
<1>11. Gathered(h + 1)'
  <2>1. Delivered' = h + 1
    BY <1>2, <1>7 DEF Delivered
  <2>2. partial' = [k \in 1..((h + 1) - (h + 1)) |-> (h + 1) + k]
    <3>1. (h + 1) - (h + 1) = 0 /\ 1..0 = {}
      OBVIOUS
    <3>2. [k \in 1..0 |-> (h + 1) + k] = <<>>
      BY Run, <1>4
    <3> QED
      BY <3>1, <3>2
  <2>3. h + 1 \in 0..(h + 1) /\ ((h + 1) + 1)..(h + 1) = {}
    OBVIOUS
  <2> QED
    BY <2>1, <2>2, <2>3 DEF Gathered
<1> QED
  BY <1>10, <1>11

(* The error the parser has met is on its way until it closes.             *)
LEMMA JamsTaken ==
    ASSUME Types, Jams, NEW task, Next1(task), task # ParserError,
           jammed' => jammed
    PROVE  Jams'
<1>1. Head(ready)[1] = task /\ ready # <<>> /\ ready' = Tail(ready)
  BY DEF Next1
<1>2. Head(ready) = ready[1] /\ DOMAIN ready' = 1..(Len(ready) - 1)
      /\ DOMAIN ready = 1..Len(ready) /\ Len(ready) \in Nat
      /\ \A i \in DOMAIN ready' : ready'[i] = ready[i + 1]
  BY <1>1, Popped DEF Types
<1>3. ASSUME jammed
      PROVE  \E i \in DOMAIN ready' : ready'[i][1] = ParserError
  <2>1. PICK i \in DOMAIN ready : ready[i][1] = ParserError
    BY <1>3 DEF Jams
  <2>2. i # 1
    BY <1>1, <1>2, <2>1
  <2>3. i - 1 \in DOMAIN ready' /\ (i - 1) + 1 = i
    <3>1. \A n \in Nat : \A k \in 1..n : k # 1 => k - 1 \in 1..(n - 1) /\ (k - 1) + 1 = k
      OBVIOUS
    <3> QED
      BY <1>2, <2>1, <2>2, <3>1
  <2> QED
    BY <1>2, <2>1, <2>3
<1> QED
  BY <1>3 DEF Jams

LEMMA JamsAdded ==
    ASSUME Types, Jams, NEW task \in Tasks, ready' = Append(ready, task),
           task[1] # ParserError => (jammed' => jammed)
    PROVE  Jams'
<1>1. ready \in Seq(Tasks)
  BY DEF Types
<1>2. PICK n \in Nat :
         /\ DOMAIN ready' = 1..(n + 1) /\ DOMAIN ready = 1..n
         /\ \A i \in 1..n : ready'[i] = ready[i]
         /\ ready'[n + 1] = task
  BY <1>1, Appended
<1>3. n + 1 \in DOMAIN ready' /\ \A i \in DOMAIN ready : i \in DOMAIN ready'
  BY <1>2
<1> QED
  BY <1>2, <1>3 DEF Jams

(* data_received puts the task of a frame behind those of the others, or   *)
(* that of the error that drops it.                                        *)
LEMMA DataReceivedPending ==
    ASSUME Types, Types', Jams, NEW frames \in Frames, NEW bad \in BOOLEAN,
           DataReceived(frames, bad)
    PROVE  Arrives /\ Jams' /\ \A h \in Nat : Pending(h) => Pending(h)'
<1>1. /\ wire' = IF frames \in {<<k>> : k \in Data} THEN wire \o frames ELSE wire
      /\ ready' = ready \o
           IF jammed' THEN <<<<"protocol error", 0>>>>
           ELSE [i \in DOMAIN frames |-> <<frames[i], Len(wire')>>]
      /\ jammed' = (jammed \/ bad)
  BY DEF DataReceived
<1>2. /\ frames \in {<<k>> : k \in Data} =>
            \E k \in Data : frames = <<k>> /\ wire' = Append(wire, k)
      /\ frames \notin {<<k>> : k \in Data} => wire' = wire
  <2>1. ASSUME NEW k \in Data, frames = <<k>>
        PROVE  wire \o frames = Append(wire, k)
    BY <2>1, JoinedOne DEF Types
  <2> QED
    BY <1>1, <2>1
<1>3. Arrives
  BY <1>2 DEF Arrives
<1>4. CASE jammed'
  <2> DEFINE task == <<"protocol error", 0>>
  <2>1. task \in Tasks /\ task[1] \notin Data
    BY LoopTask DEF Types
  <2>2. ready' = Append(ready, task)
    BY <1>1, <1>4, <2>1, JoinedOne DEF Types
  <2>3. Jams'
    <3>1. task[1] = ParserError
      BY DEF ParserError
    <3> HIDE DEF task
    <3> QED
      BY <2>1, <2>2, <3>1, JamsAdded
  <2>4. \A h \in Nat : Pending(h) => Pending(h)'
    <3> HIDE DEF task
    <3> QED
      BY <1>2, <1>4, <2>1, <2>2, PendingAdded
  <2> QED
    BY <1>3, <2>3, <2>4
<1>5. CASE ~jammed' /\ frames = <<>>
  <2>1. [i \in DOMAIN frames |-> <<frames[i], Len(wire')>>] = <<>>
    BY <1>5
  <2>2. ready' = ready \o <<>>
    BY <1>1, <1>5, <2>1
  <2>3. ready' = ready
    BY <2>2 DEF Types
  <2>4. wire' = wire
    BY <1>2, <1>5
  <2>5. jammed' = jammed
    BY <1>1, <1>5 DEF Types
  <2> QED
    BY <1>3, <1>5, <2>3, <2>4, <2>5, PendingSame
<1>6. CASE ~jammed' /\ frames # <<>>
  <2>1. PICK k \in Kinds : frames = <<k>>
    BY <1>6 DEF Frames
  <2> DEFINE task == <<k, Len(wire')>>
  <2>2. Len(wire') \in 0..setting.frames
    <3>1. setting' = setting /\ setting.frames \in Nat
      BY Bounds DEF Types, DataReceived
    <3>2. Len(wire') \in Nat /\ Len(wire') <= sent' /\ sent' \in 0..setting.frames
      BY <3>1 DEF Types
    <3> QED
      BY <3>1, <3>2
  <2>3. task \in Tasks /\ task[1] = k
    BY <2>2, PairIn DEF Tasks, Kinds, Data
  <2>4. [i \in DOMAIN frames |-> <<frames[i], Len(wire')>>] = <<task>>
    BY <2>1
  <2>5. ready' = ready \o <<task>>
    BY <1>1, <1>6, <2>4
  <2>6. ready' = Append(ready, task)
    BY <2>3, <2>5, JoinedOne DEF Types
  <2>7. ~jammed
    BY <1>1, <1>6
  <2>8. Jams'
    BY <1>6, <2>3, <2>6, JamsAdded
  <2>9. IF k \in Data THEN wire' = Append(wire, k) ELSE wire' = wire
    BY <1>2, <2>1
  <2>10. \/ wire' = wire /\ task[1] \notin Data
         \/ \E l \in Data : /\ wire' = Append(wire, l)
                            /\ task = <<l, Len(wire')>> \/ task[1] \notin Data
    BY <2>3, <2>9
  <2>11. wire' = wire \/ task[1] \in Data
    BY <2>3, <2>9
  <2>12. \A h \in Nat : Pending(h) => Pending(h)'
    <3> HIDE DEF task
    <3> QED
      BY <2>3, <2>6, <2>7, <2>10, <2>11, PendingAdded
  <2> QED
    BY <1>3, <2>8, <2>12
<1> QED
  BY <1>4, <1>5, <1>6

(* A frame taken from `ready` is the next one, gathered or delivered.      *)
LEMMA FrameGathered ==
    ASSUME Types, Types', Order, Reassembly, ~closed, ~closed',
           NEW kind \in Data, HandleFrame(kind),
           NEW parts \in Seq(1..setting.frames), Number \in 1..setting.frames,
           parts = IF kind \in {"text", "first"} THEN <<Number>> ELSE Append(partial, Number),
           IF kind \in Final
           THEN /\ events' = Append(events, Receive(parts))
                /\ partial' = IF kind = "text" THEN partial ELSE <<>>
           ELSE events' = events /\ partial' = parts
    PROVE  Reassembly'
<1>1. /\ Next1(kind) /\ wire' = wire /\ jammed' = jammed
      /\ kind # ParserError /\ kind # "handle"
  BY DEF HandleFrame, client, Data, ParserError
<1>2. Jams /\ Jams'
  BY <1>1, JamsTaken DEF Reassembly
<1>3. PICK h \in Nat : Pending(h) /\ (Lawful => Gathered(h))
  BY DEF Reassembly
<1>4. /\ Number = h + 1 /\ h + 1 <= Len(wire) /\ wire[h + 1] = kind
      /\ Pending(h + 1)'
  BY <1>1, <1>3, PendingTaken
<1>5. events # <<>> /\ EventsInOrder
  BY <1>1, TakenOrder DEF Order
<1>6. ASSUME Lawful
      PROVE  AllWhole' /\ Gathered(h + 1)'
  <2>1. AllWhole /\ Gathered(h)
    BY <1>3, <1>6 DEF Reassembly
  <2>2. kind \in {"text", "first"} => partial = <<>>
    BY <1>3, <1>4, <1>6, Fragment
  <2>3. parts = Append(partial, h + 1)
    <3>1. Append(<<>>, h + 1) = <<h + 1>>
      OBVIOUS
    <3> QED
      BY <1>4, <2>2, <3>1
  <2>4. CASE kind \in Final
    <3>1. partial' = <<>>
      BY <2>2, <2>4
    <3>2. Receive(parts) \in Events
      BY ReceiveIsEvent
    <3> QED
      BY <1>1, <1>4, <1>5, <2>1, <2>3, <2>4, <3>1, <3>2, GatheredWhole
  <2>5. CASE kind \notin Final
    <3>1. Gathered(h + 1)'
      BY <1>1, <1>4, <2>1, <2>3, <2>5, GatheredMore
    <3>2. AllWhole'
      BY <1>1, <1>5, <2>1, <2>5, AllWholeSame DEF Arrives
    <3> QED
      BY <3>1, <3>2
  <2> QED
    BY <2>4, <2>5
<1>7. Lawful' => Lawful
  BY <1>1 DEF Lawful
<1>8. h + 1 \in Nat
  OBVIOUS
<1> QED
  BY <1>2, <1>4, <1>6, <1>7, <1>8 DEF Reassembly

(* A step that delivers nothing and gathers nothing.                       *)
LEMMA NothingGathered ==
    ASSUME Types, Types', EventsInOrder, Reassembly, Arrives, events' = events,
           ~closed' => /\ ~closed /\ partial' = partial /\ Jams'
                       /\ \A h \in Nat : Pending(h) => Pending(h)'
    PROVE  Reassembly'
<1>1. Lawful' => Lawful
  BY WireAt
<1>2. Lawful' => AllWhole'
  BY <1>1, AllWholeSame DEF Reassembly
<1>3. ASSUME ~closed'
      PROVE  \E h \in Nat : Pending(h)' /\ (Lawful' => Gathered(h)')
  <2>1. PICK h \in Nat : Pending(h) /\ (Lawful => Gathered(h))
    BY <1>3 DEF Reassembly
  <2>2. h <= Len(wire)
    BY <2>1 DEF Pending
  <2>3. Lawful' => Gathered(h)'
    BY <1>1, <1>3, <2>1, <2>2, GatheredKept
  <2> QED
    BY <1>3, <2>1, <2>3
<1> QED
  BY <1>2, <1>3 DEF Reassembly

(* A close puts no message.                                                *)
LEMMA CloseGathered ==
    ASSUME NEW echo \in BOOLEAN, NEW put, Types, Types', EventsInOrder, Reassembly,
           Close(echo, put), wire' = wire,
           IF echo THEN ~closed /\ put = <<Disconnect>> ELSE put = <<>>
    PROVE  Reassembly'
<1>1. closed' /\ IF closed THEN events' = events ELSE events' = Append(events, Disconnect)
  BY CloseEvents
<1>2. CASE events' = events
  BY <1>1, <1>2, NothingGathered DEF Arrives
<1>3. CASE events' = Append(events, Disconnect)
  <2>1. PICK n \in Nat : n = Len(events) + 1
    BY DEF Types
  <2>2. Disconnect \in Events /\ Disconnect[1] # "receive"
    BY DisconnectIsEvent DEF Disconnect
  <2>3. AllWhole => AllWhole'
    BY <1>3, <2>1, <2>2, AllWholeMore DEF Arrives
  <2>4. Lawful' => Lawful
    BY DEF Lawful
  <2> QED
    BY <1>1, <2>3, <2>4 DEF Reassembly
<1> QED
  BY <1>1, <1>2, <1>3

(* A task that carries no frame, nor the parser's error, is run.           *)
LEMMA OtherTaken ==
    ASSUME Types, NEW task, Next1(task), task \notin Data, task # ParserError,
           wire' = wire, jammed' = jammed
    PROVE  /\ \A h \in Nat : Pending(h) => Pending(h)'
           /\ Jams => Jams'
<1>1. \A h \in Nat : Pending(h) => Pending(h)'
  BY PendingTaken
<1>2. Jams => Jams'
  BY JamsTaken
<1> QED
  BY <1>1, <1>2

(* Every step keeps the frames in order.                                   *)
LEMMA ReassemblyKept ==
    ASSUME Types, Order, Reassembly, [Next]_vars
    PROVE  Reassembly'
<1>a. Types'
  BY TypesKept
<1>b. EventsInOrder /\ setting' = setting
  BY SettingKept DEF Order
<1>1. CASE Handle
  <2>1. /\ Next1("handle") /\ wire' = wire /\ jammed' = jammed /\ partial' = partial
        /\ events' = Append(events, Connect) /\ closed' = closed
    BY <1>1 DEF Handle, client, flags
  <2>2. "handle" \notin Data /\ "handle" # ParserError
    BY DEF Data, ParserError
  <2>3. events = <<>> /\ ~closed
    <3>1. ready # <<>> /\ ready[1][1] = "handle" /\ 1 \in DOMAIN ready
      BY <2>1, TakenTypes DEF Next1
    <3> QED
      BY <3>1 DEF Order
  <2>4. /\ \A h \in Nat : Pending(h) => Pending(h)'
        /\ Jams => Jams'
    BY <2>1, <2>2, OtherTaken
  <2>5. events' # <<>> /\ Len(events') = 1 /\ events'[1] = Connect
    BY <2>1, <2>3
  <2>6. Delivered = 0 /\ Delivered' = 0
    BY <2>3, <2>5 DEF Delivered, Upto, Connect
  <2>7. \A h \in Nat : Gathered(h) => Gathered(h)'
    BY <2>1, <2>6 DEF Gathered
  <2>8. AllWhole'
    <3>1. \A i \in DOMAIN events' : i = 1
      BY <2>1, <2>3
    <3> QED
      BY <2>5, <3>1 DEF AllWhole, Connect
  <2>9. Lawful' => Lawful
    BY <2>1 DEF Lawful
  <2>10. PICK h \in Nat : Pending(h) /\ (Lawful => Gathered(h))
    BY <2>3 DEF Reassembly
  <2>11. Jams
    BY <2>3 DEF Reassembly
  <2> QED
    BY <2>4, <2>7, <2>8, <2>9, <2>10, <2>11 DEF Reassembly
<1>2. CASE HandleMessage
  <2>1. /\ HandleFrame("text") /\ ~closed /\ closed' = closed /\ partial' = partial
        /\ events' = Append(events, Receive(<<Number>>)) /\ "text" \in Data
    BY <1>2 DEF HandleMessage, Data
  <2>2. Number \in 1..setting.frames
    BY <2>1, TakenTypes DEF HandleFrame
  <2>3. <<Number>> \in Seq(1..setting.frames)
    BY <2>2, Short
  <2>4. "text" \in Final /\ "text" \in {"text", "first"}
    BY DEF Final
  <2> QED
    BY <1>a, <2>1, <2>2, <2>3, <2>4, FrameGathered
<1>3. CASE HandleFirst
  <2>1. /\ HandleFrame("first") /\ ~closed /\ closed' = closed
        /\ events' = events /\ partial' = <<Number>> /\ "first" \in Data
    BY <1>3 DEF HandleFirst, Data
  <2>2. Number \in 1..setting.frames
    BY <2>1, TakenTypes DEF HandleFrame
  <2>3. <<Number>> \in Seq(1..setting.frames)
    BY <2>2, Short
  <2>4. "first" \notin Final /\ "first" \in {"text", "first"}
    BY DEF Final
  <2> QED
    BY <1>a, <2>1, <2>2, <2>3, <2>4, FrameGathered
<1>4. CASE HandleMiddle
  <2>1. /\ HandleFrame("cont") /\ ~closed /\ closed' = closed
        /\ events' = events /\ partial' = Append(partial, Number) /\ "cont" \in Data
    BY <1>4 DEF HandleMiddle, Data
  <2>2. Number \in 1..setting.frames
    BY <2>1, TakenTypes DEF HandleFrame
  <2>3. Append(partial, Number) \in Seq(1..setting.frames)
    BY <2>2, Appended DEF Types
  <2>4. "cont" \notin Final /\ "cont" \notin {"text", "first"}
    BY DEF Final
  <2> QED
    BY <1>a, <2>1, <2>2, <2>3, <2>4, FrameGathered
<1>5. CASE HandleLast
  <2>1. /\ HandleFrame("last") /\ ~closed /\ closed' = closed /\ partial' = <<>>
        /\ events' = Append(events, Receive(Append(partial, Number))) /\ "last" \in Data
    BY <1>5 DEF HandleLast, Data
  <2>2. Number \in 1..setting.frames
    BY <2>1, TakenTypes DEF HandleFrame
  <2>3. Append(partial, Number) \in Seq(1..setting.frames)
    BY <2>2, Appended DEF Types
  <2>4. "last" \in Final /\ "last" \notin {"text", "first"} /\ "last" # "text"
    BY DEF Final
  <2> QED
    BY <1>a, <2>1, <2>2, <2>3, <2>4, FrameGathered
<1>6. CASE HandleClose
  <2>1. Close(TRUE, <<Disconnect>>) /\ ~closed /\ wire' = wire
    BY <1>6 DEF HandleClose, HandleFrame, client
  <2> QED
    BY <1>a, <1>b, <2>1, CloseGathered
<1>7. CASE HandlePing
  <2>1. /\ Next1("ping") /\ wire' = wire /\ jammed' = jammed /\ partial' = partial
        /\ events' = events /\ closed' = closed /\ ~closed
    BY <1>7 DEF HandlePing, HandleFrame, client
  <2>2. "ping" \notin Data /\ "ping" # ParserError
    BY DEF Data, ParserError
  <2>3. Jams
    BY <2>1 DEF Reassembly
  <2> QED
    BY <1>a, <1>b, <2>1, <2>2, <2>3, OtherTaken, NothingGathered DEF Arrives
<1>8. CASE HandleNothing
  <2>1. PICK kind \in Kinds :
           /\ HandleFrame(kind)
           /\ closed \/ kind = "pong" \/ (kind \in {"cont", "last"} /\ partial = <<>>)
    BY <1>8 DEF HandleNothing
  <2>2. /\ Next1(kind) /\ wire' = wire /\ jammed' = jammed /\ partial' = partial
        /\ events' = events /\ closed' = closed
    BY <1>8, <2>1 DEF HandleNothing, HandleFrame, client
  <2>3. CASE closed
    BY <1>a, <1>b, <2>2, <2>3, NothingGathered DEF Arrives
  <2>4. CASE ~closed /\ kind = "pong"
    <3>1. kind \notin Data /\ kind # ParserError
      BY <2>4 DEF Data, ParserError
    <3>2. Jams
      BY <2>4 DEF Reassembly
    <3> QED
      BY <1>a, <1>b, <2>2, <2>4, <3>1, <3>2, OtherTaken, NothingGathered DEF Arrives
  <2>5. CASE ~closed /\ kind \in {"cont", "last"} /\ partial = <<>>
    <3>1. PICK h \in Nat : Pending(h) /\ (Lawful => Gathered(h))
      BY <2>5 DEF Reassembly
    <3>2. kind \in Data /\ kind # ParserError
      BY <2>5 DEF Data, ParserError
    <3>3. h + 1 <= Len(wire) /\ wire[h + 1] = kind /\ Pending(h + 1)'
      BY <2>2, <3>1, <3>2, PendingTaken
    <3>4. ~Lawful
      BY <2>5, <3>1, <3>3, Fragment
    <3>5. ~Lawful'
      BY <2>2, <3>4 DEF Lawful
    <3>6. Jams'
      BY <2>2, <2>5, <3>2, JamsTaken DEF Reassembly
    <3>7. h + 1 \in Nat
      OBVIOUS
    <3> QED
      BY <3>3, <3>5, <3>6, <3>7 DEF Reassembly
  <2> QED
    BY <2>1, <2>3, <2>4, <2>5
<1>9. CASE CloseTask
  <2>1. Close(FALSE, <<>>) /\ wire' = wire
    BY <1>9 DEF CloseTask, client
  <2> QED
    BY <1>a, <1>b, <2>1, CloseGathered
<1>10. CASE \E frames \in Frames, bad \in BOOLEAN : DataReceived(frames, bad)
  <2>1. PICK frames \in Frames, bad \in BOOLEAN : DataReceived(frames, bad)
    BY <1>10
  <2>2. ~closed /\ closed' = closed /\ events' = events /\ partial' = partial
    BY <2>1 DEF DataReceived, queues, flags
  <2>3. Jams
    BY <2>2 DEF Reassembly
  <2>4. Arrives /\ Jams' /\ \A h \in Nat : Pending(h) => Pending(h)'
    BY <1>a, <2>1, <2>3, DataReceivedPending
  <2> QED
    BY <1>a, <1>b, <2>2, <2>4, NothingGathered
<1>11. CASE OnPingTimeout
  <2>1. /\ wire' = wire /\ jammed' = jammed /\ partial' = partial
        /\ events' = events /\ closed' = closed
    BY <1>11 DEF OnPingTimeout, client, queues, flags
  <2> DEFINE task == <<"ping timeout", 0>>
  <2>2. task \in Tasks /\ task[1] \notin Data
    BY LoopTask DEF Types
  <2>3. ready' = ready \/ ready' = Append(ready, task)
    BY <1>11 DEF OnPingTimeout
  <2> HIDE DEF task
  <2>4. CASE ready' = ready
    <3>1. \A h \in Nat : Pending(h) => Pending(h)'
      BY <2>1, <2>4, PendingSame
    <3>2. Jams => Jams'
      BY <2>1, <2>4, PendingSame
    <3> QED
      BY <1>a, <1>b, <2>1, <3>1, <3>2, NothingGathered DEF Reassembly, Arrives
  <2>5. CASE ready' = Append(ready, task)
    <3>1. jammed' \/ (~jammed /\ (wire' = wire \/ task[1] \in Data))
      BY <2>1
    <3>2. \A h \in Nat : Pending(h) => Pending(h)'
      BY <1>a, <2>1, <2>2, <2>5, <3>1, PendingAdded
    <3>3. Jams => Jams'
      BY <2>1, <2>2, <2>5, JamsAdded
    <3> QED
      BY <1>a, <1>b, <2>1, <3>2, <3>3, NothingGathered DEF Reassembly, Arrives
  <2> QED
    BY <2>3, <2>4, <2>5
<1>12. CASE AppRaise \/ HandleAppClose \/ Cleanup
  <2>1. Close(FALSE, <<>>) /\ wire' = wire
    BY <1>12 DEF AppRaise, HandleAppClose, Took, Cleanup, client
  <2> QED
    BY <1>a, <1>b, <2>1, CloseGathered
<1>13. CASE /\ events' = events /\ closed' = closed /\ partial' = partial
            /\ ready' = ready /\ wire' = wire /\ jammed' = jammed
  <2>1. \A h \in Nat : Pending(h) => Pending(h)'
    BY <1>13, PendingSame
  <2>2. Jams => Jams'
    BY <1>13, PendingSame
  <2> QED
    BY <1>a, <1>b, <1>13, <2>1, <2>2, NothingGathered DEF Reassembly, Arrives
<1>14. ASSUME \/ AppReturn \/ ConnectionLost \/ StreamFails
              \/ \E message \in Messages : AppSend(message)
              \/ SenderStart \/ SenderPoll \/ SenderFails
              \/ HandleAccept \/ HandleAccept101 \/ HandleSend
              \/ SendPing \/ Tick \/ UNCHANGED vars
       PROVE  Reassembly'
  <2>1. CASE AppReturn \/ ConnectionLost \/ StreamFails
    BY <1>13, <2>1 DEF AppReturn, ConnectionLost, StreamFails, queues, flags, client
  <2>2. CASE \E message \in Messages : AppSend(message)
    BY <1>13, <2>2 DEF AppSend, flags, client
  <2>3. CASE SenderStart \/ SenderPoll \/ SenderFails
    BY <1>13, <2>3 DEF SenderStart, SenderPoll, SenderFails, Took, queues, flags, client
  <2>4. CASE HandleAccept \/ HandleAccept101 \/ HandleSend
    BY <1>13, <2>4 DEF HandleAccept, HandleAccept101, HandleSend, Took, flags, client
  <2>5. CASE SendPing \/ Tick \/ UNCHANGED vars
    BY <1>13, <2>5 DEF SendPing, Tick, vars, queues, flags, client
  <2> QED
    BY <1>14, <2>1, <2>2, <2>3, <2>4, <2>5
<1> QED
  BY <1>1, <1>2, <1>3, <1>4, <1>5, <1>6, <1>7, <1>8, <1>9, <1>10, <1>11, <1>12,
     <1>14 DEF Next, LoopStep, SenderStep

(* When the loop has run what was ready, every frame is handled.           *)
LEMMA ReassemblyIsWhole ==
    ASSUME Types, Order, Reassembly
    PROVE  MessagesWhole
<1>1. Lawful => \A i \in DOMAIN events : events[i][1] = "receive" => Whole(i)
  BY DEF Reassembly, AllWhole
<1>2. ASSUME Lawful, ready = <<>>, ~closed, NEW n \in DOMAIN wire, wire[n] \in Final
      PROVE  n <= Upto(Len(events))
  <2>1. DOMAIN ready = {}
    BY <1>2
  <2>2. ~jammed
    BY <1>2, <2>1 DEF Reassembly, Jams
  <2>3. PICK h \in Nat : Pending(h) /\ Gathered(h)
    BY <1>2 DEF Reassembly
  <2>4. DOMAIN wire = 1..Len(wire) /\ Len(wire) \in Nat
    BY DEF Types
  <2>5. \A m \in (h + 1)..Len(wire) : FALSE
    BY <2>1, <2>2, <2>3 DEF Pending, NoneMissing
  <2>6. n \in 1..h
    <3>1. \A w \in Nat : \A k \in 1..w : k \in (h + 1)..w \/ k \in 1..h
      OBVIOUS
    <3> QED
      BY <2>4, <2>5, <3>1
  <2>7. n <= Delivered
    <3>1. Delivered \in 0..h /\ \A m \in (Delivered + 1)..h : wire[m] \notin Final
      BY <2>3 DEF Gathered
    <3> QED
      BY <1>2, <2>6, <3>1
  <2>8. events # <<>>
    BY <1>2 DEF Order
  <2> QED
    BY <2>7, <2>8 DEF Delivered
<1> QED
  BY <1>1, <1>2 DEF MessagesWhole

-----------------------------------------------------------------------------
(* The types hold throughout.                                              *)
LEMMA Typed == Spec => []Types
<1>1. Init => Types
  BY TypesAtFirst
<1>2. Types /\ [Next]_vars => Types'
  BY TypesKept
<1> QED
  BY <1>1, <1>2, PTL DEF Spec

(* handle() is the first task, and nothing is put before it runs.          *)
LEMMA OrderAtFirst == Init => Order
<1> SUFFICES ASSUME Init
             PROVE  Order
  OBVIOUS
<1>1. ready = << <<"handle", 0>> >> /\ handle = "new" /\ events = <<>>
      /\ ~closed /\ app = "new" /\ sender = "new"
  BY DEF Init
<1>2. DOMAIN ready = {1} /\ ready[1][1] = "handle" /\ ready # <<>> /\ DOMAIN events = {}
  BY <1>1
<1> QED
  BY <1>1, <1>2 DEF Order, EventsInOrder

(* Whoever closes a WebSocket first, and whoever tries after: the          *)
(* application's events begin with its only connect, and end with its only *)
(* disconnect as soon as the WebSocket is closed.                          *)
THEOREM EventsAreInOrder == Spec => []EventsInOrder
<1>1. Init => Order
  BY OrderAtFirst
<1>2. Types /\ Order /\ [Next]_vars => Order'
  BY OrderKept
<1>3. Order => EventsInOrder
  BY DEF Order
<1> QED
  BY <1>1, <1>2, <1>3, Typed, PTL DEF Spec

(* Whatever the sender, the frames' tasks and the heartbeat were about to  *)
(* write, nothing follows the close frame.                                 *)
THEOREM NothingFollowsTheClose == Spec => []NothingAfterClose
<1>1. Init => Silent
  BY DEF Init, Silent, NothingAfterClose
<1>2. Types /\ Silent /\ [Next]_vars => Silent'
  BY SilentKept
<1>3. Silent => NothingAfterClose
  BY DEF Silent
<1> QED
  BY <1>1, <1>2, <1>3, Typed, PTL DEF Spec

(* Whatever is dropped, refused or closed in between: what the application *)
(* sends is written in the order in which it sent it, and over HTTP/1.1    *)
(* nothing of it before the 101 (_sender_loop, _handle_accept).            *)
THEOREM SendsAreInOrder == Spec => []SendsInOrder
<1>1. Init => Sequenced
  BY DEF Init, Sequenced, SendsInOrder, Queued, Switched
<1>2. Types /\ Sequenced /\ [Next]_vars => Sequenced'
  BY SequencedKept
<1>3. Sequenced => SendsInOrder
  BY DEF Sequenced
<1> QED
  BY <1>1, <1>2, <1>3, Typed, PTL DEF Spec

(* MessagesWhole for every bound: the messages of a client that keeps the  *)
(* rules of fragmentation reach the application whole and in their order,  *)
(* and none is left behind when the loop has run what is ready, although   *)
(* every frame has a task of its own, and a parser's error and the         *)
(* watchdog have theirs among them.                                        *)
THEOREM MessagesAreWhole == Spec => []MessagesWhole
<1>1. Init => Order /\ Reassembly
  <2> SUFFICES ASSUME Init
               PROVE  Order /\ Reassembly
    OBVIOUS
  <2>1. Order
    BY OrderAtFirst
  <2>2. /\ ready = <<<<"handle", 0>>>> /\ events = <<>> /\ wire = <<>>
        /\ partial = <<>> /\ ~jammed /\ ~closed
    BY DEF Init
  <2>3. AllWhole /\ Jams
    BY <2>2 DEF AllWhole, Jams
  <2>4. Pending(0)
    <3>1. \A i \in DOMAIN ready : ready[i][1] \notin Data
      BY <2>2 DEF Data
    <3>2. Len(wire) = 0 /\ \A m \in (0 + 1)..0 : FALSE
      BY <2>2
    <3> QED
      BY <3>1, <3>2 DEF Pending, InTurn, NoneMissing
  <2>5. Gathered(0)
    <3>1. Delivered = 0
      BY <2>2 DEF Delivered
    <3>2. <<>> = [k \in 1..0 |-> 0 + k]
      BY Run
    <3> QED
      BY <2>2, <3>1, <3>2 DEF Gathered
  <2> QED
    BY <2>1, <2>3, <2>4, <2>5 DEF Reassembly
<1>2. Types /\ Order /\ Reassembly /\ [Next]_vars => Order' /\ Reassembly'
  BY OrderKept, ReassemblyKept
<1>3. Types /\ Order /\ Reassembly => MessagesWhole
  BY ReassemblyIsWhole
<1> QED
  BY <1>1, <1>2, <1>3, Typed, PTL DEF Spec

-----------------------------------------------------------------------------
(* Every step of the handler is a step of its heartbeat or leaves it alone. *)
THEOREM DrivesHeartbeat == Spec => Heartbeat!Spec
<1>1. Init => Heartbeat!Init
  BY DEF Init
<1>2. [Next]_vars => [Heartbeat!Next]_(Heartbeat!vars)
  <2> USE DEF beat, Heartbeat!vars
  <2>1. CASE LoopStep
    BY <2>1 DEF LoopStep, Handle, HandleMessage, HandleFirst, HandleMiddle,
       HandleLast, HandleClose, HandlePing, HandleNothing, HandleFrame,
       CloseTask, Heartbeat!Next
  <2>2. CASE \E frames \in Frames, bad \in BOOLEAN : DataReceived(frames, bad)
    BY <2>2 DEF DataReceived, Heartbeat!Next
  <2>3. CASE ConnectionLost \/ StreamFails \/ AppReturn \/ AppRaise
    BY <2>3 DEF ConnectionLost, StreamFails, AppReturn, AppRaise
  <2>4. CASE \E message \in Messages : AppSend(message)
    BY <2>4 DEF AppSend
  <2>5. CASE SenderStep
    BY <2>5 DEF SenderStep, SenderStart, SenderPoll, HandleAccept,
       HandleAccept101, HandleSend, HandleAppClose, SenderFails, Took
  <2>6. CASE Cleanup \/ SendPing \/ OnPingTimeout \/ Tick
    BY <2>6 DEF Cleanup, SendPing, OnPingTimeout, Tick, Heartbeat!Next
  <2>7. CASE UNCHANGED vars
    BY <2>7 DEF vars
  <2> QED
    BY <2>1, <2>2, <2>3, <2>4, <2>5, <2>6, <2>7 DEF Next
<1> QED
  BY <1>1, <1>2, PTL DEF Spec, Heartbeat!Spec

(* What is proved of the heartbeat alone holds of the handler's.           *)
HeartbeatProof == INSTANCE WebSocketHeartbeat_proof
                     WITH timing <- setting, Timings <- Settings

(* The instance of the proofs is the same heartbeat.                       *)
LEMMA SameHeartbeat == Heartbeat!Spec => HeartbeatProof!Spec
<1>1. Heartbeat!Init => HeartbeatProof!Init
  BY DEF Heartbeat!Init, HeartbeatProof!Init, Heartbeat!Valid, HeartbeatProof!Valid,
         Heartbeat!Interval, HeartbeatProof!Interval
<1>2. [Heartbeat!Next]_(Heartbeat!vars) => [HeartbeatProof!Next]_(HeartbeatProof!vars)
  BY DEF Heartbeat!Next, Heartbeat!vars, Heartbeat!Start, Heartbeat!Stop,
     Heartbeat!RecordActivity, Heartbeat!Ping, Heartbeat!Watchdog,
     Heartbeat!TimedOut, Heartbeat!Tick, Heartbeat!Due, Heartbeat!Elapsed,
     Heartbeat!Horizon, Heartbeat!Interval, Heartbeat!Timeout,
     HeartbeatProof!Interval, HeartbeatProof!Timeout, HeartbeatProof!Next, HeartbeatProof!vars, HeartbeatProof!Start,
     HeartbeatProof!Stop, HeartbeatProof!RecordActivity, HeartbeatProof!Ping,
     HeartbeatProof!Watchdog, HeartbeatProof!TimedOut, HeartbeatProof!Tick,
     HeartbeatProof!Due, HeartbeatProof!Elapsed, HeartbeatProof!Horizon
<1> QED
  BY <1>1, <1>2, PTL DEF Heartbeat!Spec, HeartbeatProof!Spec

(* The handler's variables keep their types.                               *)
THEOREM TypeCorrect == Spec => []TypeOK
<1>2. HeartbeatProof!Spec => []HeartbeatProof!TypeOK
  BY HeartbeatProof!TypeCorrect, PTL
<1>3. HeartbeatProof!TypeOK => Heartbeat!TypeOK
  BY DEF Heartbeat!TypeOK, HeartbeatProof!TypeOK, Heartbeat!Horizon,
     HeartbeatProof!Horizon, Heartbeat!Valid, HeartbeatProof!Valid,
     Heartbeat!Interval, HeartbeatProof!Interval, Heartbeat!Timeout,
     HeartbeatProof!Timeout
<1>4. Types /\ Heartbeat!TypeOK => TypeOK
  <2>1. ASSUME Types PROVE
          /\ ready \in Seq((Kinds \cup {"handle", "protocol error", "ping timeout"})
                           \X (0..setting.frames))
          /\ events \in Seq({"connect", "receive", "disconnect"}
                            \X Seq(1..setting.frames))
          /\ outbox \in Seq(Messages \X (1..setting.sends))
          /\ out \in Seq({"101", "data", "ping", "pong", "close"}
                         \X (0..setting.sends))
    BY <2>1 DEF Types, Tasks, Events, Sends, Written
  <2> QED
    BY <2>1 DEF Types, TypeOK
<1> QED
  BY <1>2, <1>3, <1>4, Typed, DrivesHeartbeat, SameHeartbeat, PTL

(* Once the heartbeat has given the peer up, the WebSocket is closed, or   *)
(* the task that closes it is ready.                                       *)
GivenUp ==
    expired => closed \/ \E i \in DOMAIN ready : ready[i][1] = "ping timeout"

(* A task that is added is the last one.                                   *)
LEMMA TaskAdded ==
    ASSUME ready \in Seq(Tasks), NEW task \in Tasks, ready' = Append(ready, task)
    PROVE  /\ DOMAIN ready' = 1..(Len(ready) + 1) /\ Len(ready) \in Nat
           /\ ready'[Len(ready) + 1] = task
  BY Appended

(* Numbers after the first have a predecessor.                             *)
LEMMA Predecessor ==
    \A n \in Nat : \A k \in 1..n :
        k # 1 => k - 1 \in 1..(n - 1) /\ (k - 1) + 1 = k
  OBVIOUS

(* The steps that handle a frame.                                          *)
LEMMA FrameHandled ==
    ASSUME \/ HandleMessage \/ HandleFirst \/ HandleMiddle \/ HandleLast
           \/ HandleClose \/ HandlePing \/ HandleNothing
    PROVE  \E kind \in Kinds : HandleFrame(kind)
<1>1. {"text", "first", "cont", "last", "close", "ping"} \subseteq Kinds
  BY DEF Kinds, Data
<1>2. CASE HandleMessage
  BY <1>1, <1>2 DEF HandleMessage
<1>3. CASE HandleFirst
  BY <1>1, <1>3 DEF HandleFirst
<1>4. CASE HandleMiddle
  BY <1>1, <1>4 DEF HandleMiddle
<1>5. CASE HandleLast
  BY <1>1, <1>5 DEF HandleLast
<1>6. CASE HandleClose
  BY <1>1, <1>6 DEF HandleClose
<1>7. CASE HandlePing
  BY <1>1, <1>7 DEF HandlePing
<1>8. CASE HandleNothing
  BY <1>8 DEF HandleNothing
<1> QED
  BY <1>2, <1>3, <1>4, <1>5, <1>6, <1>7, <1>8

(* A task that is taken leaves that of a watchdog in `ready`.              *)
LEMMA TakenGivenUp ==
    ASSUME Types, GivenUp, NEW task, Next1(task), task # "ping timeout",
           expired' = expired, closed => closed'
    PROVE  GivenUp'
<1>1. Head(ready)[1] = task /\ Head(ready) = ready[1]
  BY TakenTypes
<1>2. /\ DOMAIN ready = 1..Len(ready) /\ Len(ready) \in Nat
      /\ DOMAIN ready' = 1..(Len(ready) - 1)
      /\ \A i \in DOMAIN ready' : ready'[i] = ready[i + 1]
  BY Popped DEF Types, Next1
<1>3. ASSUME NEW i \in DOMAIN ready, ready[i][1] = "ping timeout"
      PROVE  i - 1 \in DOMAIN ready' /\ ready'[i - 1][1] = "ping timeout"
  <2>1. i # 1
    BY <1>1, <1>3
  <2>2. i \in 1..Len(ready) /\ Len(ready) \in Nat
    BY <1>2
  <2>3. i - 1 \in 1..(Len(ready) - 1) /\ (i - 1) + 1 = i
    BY <2>1, <2>2, Predecessor
  <2> QED
    BY <1>2, <1>3, <2>3
<1> QED
  BY <1>3 DEF GivenUp

(* Every step keeps GivenUp.                                               *)
LEMMA GivenUpKept ==
    ASSUME Types, GivenUp, [Next]_vars
    PROVE  GivenUp'
<1>r. ready \in Seq(Tasks)
  BY DEF Types
<1>1. closed => closed'
  <2>1. ASSUME NEW echo, NEW put, Close(echo, put) PROVE closed => closed'
    BY <2>1 DEF Close
  <2>2. CASE LoopStep
    BY <2>1, <2>2 DEF LoopStep, Handle, HandleMessage, HandleFirst, HandleMiddle,
       HandleLast, HandleClose, HandlePing, HandleNothing, CloseTask, flags
  <2>3. CASE \E frames \in Frames, bad \in BOOLEAN : DataReceived(frames, bad)
    BY <2>3 DEF DataReceived, flags
  <2>4. CASE ConnectionLost \/ StreamFails \/ AppReturn \/ AppRaise
    BY <2>1, <2>4 DEF ConnectionLost, StreamFails, AppReturn, AppRaise, flags
  <2>5. CASE \E message \in Messages : AppSend(message)
    BY <2>5 DEF AppSend, flags
  <2>6. CASE SenderStep
    BY <2>1, <2>6 DEF SenderStep, SenderStart, SenderPoll, HandleAccept,
       HandleAccept101, HandleSend, HandleAppClose, SenderFails, flags
  <2>7. CASE Cleanup \/ SendPing \/ OnPingTimeout \/ Tick
    BY <2>1, <2>7 DEF Cleanup, SendPing, OnPingTimeout, Tick, flags
  <2>8. CASE UNCHANGED vars
    BY <2>8 DEF vars, flags
  <2> QED
    BY <2>2, <2>3, <2>4, <2>5, <2>6, <2>7, <2>8 DEF Next
<1>2. CASE CloseTask
  BY <1>2 DEF CloseTask, Close, GivenUp
<1>3. CASE LoopStep /\ ~CloseTask
  <2>1. PICK task \in Kinds \cup {"handle"} : Next1(task)
    <3>1. CASE Handle
      <4>1. Next1("handle")
        BY <3>1 DEF Handle
      <4> QED
        BY <4>1
    <3>2. CASE ~Handle
      <4>1. PICK kind \in Kinds : HandleFrame(kind)
        BY <1>3, <3>2, FrameHandled DEF LoopStep
      <4> QED
        BY <4>1 DEF HandleFrame
    <3> QED
      BY <3>1, <3>2
  <2>3. task # "ping timeout"
    BY DEF Kinds, Data
  <2>2. expired' = expired
    BY <1>3 DEF LoopStep, Handle, HandleMessage, HandleFirst, HandleMiddle,
       HandleLast, HandleClose, HandlePing, HandleNothing, HandleFrame, beat,
       Heartbeat!Start
  <2> QED
    BY <1>1, <2>1, <2>2, <2>3, TakenGivenUp
<1>4. CASE \E frames \in Frames, bad \in BOOLEAN : DataReceived(frames, bad)
  <2>1. PICK frames \in Frames, bad \in BOOLEAN : DataReceived(frames, bad)
    BY <1>4
  <2>2. expired' = expired
    BY <2>1 DEF DataReceived, Heartbeat!RecordActivity
  <2>3. ready' = ready \/ \E task \in Tasks : ready' = Append(ready, task)
    BY <2>1, DataReceivedAdds
  <2>4. \A i \in DOMAIN ready : i \in DOMAIN ready' /\ ready'[i] = ready[i]
    BY <1>r, <2>3, Appended
  <2> QED
    BY <1>1, <2>2, <2>4 DEF GivenUp
<1>5. CASE OnPingTimeout
  <2>1. <<"ping timeout", 0>> \in Tasks
    BY LoopTask DEF Types
  <2>2. CASE Heartbeat!TimedOut
    <3>1. PICK task \in Tasks : ready' = Append(ready, task) /\ task[1] = "ping timeout"
      BY <1>5, <2>1, <2>2 DEF OnPingTimeout
    <3>2. /\ DOMAIN ready' = 1..(Len(ready) + 1) /\ Len(ready) \in Nat
          /\ ready'[Len(ready) + 1] = task
      BY <1>r, <3>1, TaskAdded
    <3>3. Len(ready) + 1 \in DOMAIN ready'
      BY <3>2
    <3> QED
      BY <3>1, <3>2, <3>3 DEF GivenUp
  <2>3. CASE ~Heartbeat!TimedOut
    <3>1. ready' = ready /\ Heartbeat!Watchdog
      BY <1>5, <2>3 DEF OnPingTimeout
    <3>2. expired' => expired
      BY <2>3, <3>1 DEF Heartbeat!Watchdog
    <3> QED
      BY <1>1, <3>1, <3>2 DEF GivenUp
  <2> QED
    BY <2>2, <2>3
<1>6. CASE \/ ConnectionLost \/ StreamFails \/ AppReturn \/ AppRaise \/ SenderStep
           \/ Cleanup \/ SendPing \/ Tick \/ UNCHANGED vars
           \/ \E message \in Messages : AppSend(message)
  <2>1. ready' = ready /\ expired' = expired
    <3>1. CASE ConnectionLost \/ StreamFails \/ AppReturn \/ AppRaise
      BY <3>1 DEF ConnectionLost, StreamFails, AppReturn, AppRaise, beat
    <3>2. CASE SenderStep
      BY <3>2 DEF SenderStep, SenderStart, SenderPoll, HandleAccept,
         HandleAccept101, HandleSend, HandleAppClose, SenderFails, Took, beat
    <3>3. CASE Cleanup \/ SendPing \/ Tick \/ UNCHANGED vars
      BY <3>3 DEF Cleanup, SendPing, Tick, vars, beat, Heartbeat!Stop,
         Heartbeat!Ping, Heartbeat!Tick
    <3>4. CASE \E message \in Messages : AppSend(message)
      BY <3>4 DEF AppSend, beat
    <3> QED
      BY <1>6, <3>1, <3>2, <3>3, <3>4
  <2> QED
    BY <1>1, <2>1 DEF GivenUp
<1> QED
  BY <1>2, <1>3, <1>4, <1>5, <1>6 DEF Next

(* A peer that falls silent is closed: no later than ping_interval and     *)
(* ping_timeout after it was last heard, whatever else goes on.            *)
THEOREM SilentPeersAreClosed == Spec => []PeerGivenUp
<1>1. HeartbeatProof!Spec => []HeartbeatProof!SilenceIsNoticed
  BY HeartbeatProof!SilentPeersAreGivenUp, PTL
<1>2. Init => GivenUp
  BY DEF Init, GivenUp, Heartbeat!Init
<1>3. Types /\ GivenUp /\ [Next]_vars => GivenUp'
  BY GivenUpKept
<1>4. GivenUp /\ HeartbeatProof!SilenceIsNoticed => PeerGivenUp
  <2>1. ready = <<>> => DOMAIN ready = {}
    OBVIOUS
  <2> QED
    BY <2>1 DEF GivenUp, PeerGivenUp, HeartbeatProof!SilenceIsNoticed,
                HeartbeatProof!Interval, HeartbeatProof!Timeout
<1>5. Spec => []GivenUp
  BY <1>2, <1>3, Typed, PTL DEF Spec
<1> QED
  BY <1>1, <1>4, <1>5, DrivesHeartbeat, SameHeartbeat, PTL

(* Whatever the interval and the timeout and whatever else goes on: a      *)
(* handler's heartbeat gives up no peer that was heard since the last      *)
(* ping, nor, with two intervals longer than the timeout, one heard within *)
(* the timeout.                                                            *)
THEOREM ActivePeersStayOpen == Spec => PeerKept
<1>1. HeartbeatProof!Spec => HeartbeatProof!ClosesOnlyUnanswered
  BY HeartbeatProof!ActivePeersAreKept, PTL
<1>2. [expired' # expired =>
         /\ silence >= HeartbeatProof!Interval - pingIn
         /\ HeartbeatProof!Timeout < 2 * HeartbeatProof!Interval
              => silence >= HeartbeatProof!Timeout]_(HeartbeatProof!vars)
      => [expired' # expired =>
            /\ silence >= Heartbeat!Interval - pingIn
            /\ Heartbeat!Timeout < 2 * Heartbeat!Interval
                 => silence >= Heartbeat!Timeout]_(Heartbeat!vars)
  BY DEF HeartbeatProof!vars, Heartbeat!vars, HeartbeatProof!Interval,
         Heartbeat!Interval, HeartbeatProof!Timeout, Heartbeat!Timeout
<1> QED
  BY <1>1, <1>2, DrivesHeartbeat, SameHeartbeat, PTL
     DEF PeerKept, Heartbeat!ClosesOnlyUnanswered,
         HeartbeatProof!ClosesOnlyUnanswered

=============================================================================
