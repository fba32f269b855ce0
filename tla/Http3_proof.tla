---------------------------- MODULE Http3_proof ----------------------------
(***************************************************************************)
(* Proofs about Http3 for any number of pieces, tasks and parts.           *)
(***************************************************************************)
EXTENDS Http3, FiniteSetTheorems, TLAPS

States == {"none", "created", "open", "running", "receiving", "done"}
Parts == {"head", "data", "end"}

(* The values of the variables.                                            *)
ClientTypes ==
    /\ kind \in Kinds /\ heads \in 0..2 /\ sent \in Nat /\ fin \in BOOLEAN

StreamTypes ==
    /\ task \in [Tasks -> States]
    /\ handler \in Tasks \cup {NoTask} /\ receiver \in Tasks \cup {NoTask}
    /\ ended \in BOOLEAN

InputTypes ==
    /\ queue \in [Tasks -> Seq(Nat)] /\ puts \in Seq(Tasks \X Nat)
    /\ initial \in [Tasks -> Nat] /\ finished \in [Tasks -> BOOLEAN]
    /\ waits \in [Tasks -> Tasks \cup {NoTask}] /\ woken \in [Tasks -> BOOLEAN]
    /\ received \in [Tasks -> Seq(Nat)] /\ told \in [Tasks -> BOOLEAN]
    /\ late \in BOOLEAN /\ missed \in BOOLEAN

OutputTypes ==
    /\ started \in [Tasks -> BOOLEAN] /\ wire \in Seq(Parts) /\ failed \subseteq Tasks

Types == ClientTypes /\ StreamTypes /\ InputTypes /\ OutputTypes

(* Which tasks there are.  They are created in order, one for each block   *)
(* of headers of a request or a WebSocket; without trailers there is one   *)
(* at a time, and that is the registered one.  Only tasks that run an      *)
(* application themselves have a queue.                                    *)
Served(t) == task[t] \in {"created", "running", "receiving"}
Live(t) == Served(t) \/ task[t] = "open"

TasksInOrder ==
    \A s, t \in Tasks : s < t /\ task[t] # "none" => task[s] # "none"

OnePerHead ==
    kind \in {"request", "websocket"} => \A t \in Tasks : task[t] # "none" <=> t <= heads

NoHeaders == kind = "webtransport" => heads = 0

Registered ==
    /\ handler # NoTask => Live(handler)
    /\ receiver # NoTask => Served(receiver)
    /\ ended => receiver # NoTask
    /\ ~Trailed => \A t \in Tasks : Live(t) <=> t = handler

RegistryInv ==
    TasksInOrder /\ OnePerHead /\ NoHeaders /\ Registered

(* The response.                                                           *)
OneResponse(w) ==
    /\ w # <<>>
    /\ \A i \in DOMAIN w : w[i] = "head" <=> i = 1
    /\ \A i \in DOMAIN w : w[i] = "end" => i = Len(w)

AnswerInv ==
    kind = "request" /\ ~Trailed =>
        /\ started[1] /\ task[1] # "done" => OneResponse(wire)
        /\ ~started[1] /\ task[1] # "done" => wire = <<>>
        /\ task[1] = "done" =>
             \/ OneResponse(wire) /\ wire[Len(wire)] = "end"
             \/ 1 \in failed /\ started[1]

(* What a task has been given, and what lies in its queue.                 *)
Count(t) == Len(received[t]) + Len(queue[t])
Piece(t, i) == IF i <= Len(received[t]) THEN received[t][i] ELSE queue[t][i - Len(received[t])]

(* Task 1 has the body up to what has been taken, and its queue the rest   *)
(* and the empty piece that ended it; what came before its HEADERS was     *)
(* nothing.                                                                *)
PiecesWhole ==
    /\ heads = 0 => sent = 0
    /\ Len(received[1]) <= sent /\ Count(1) <= sent + 1
    /\ \A i \in 1..Count(1) : Piece(1, i) = IF i <= sent THEN i ELSE 0
    /\ ~fin => Count(1) <= sent
    /\ receiver = 1 => Count(1) >= sent

(* The task that trailers start gets the end alone.                        *)
ZerosElsewhere ==
    \A t \in Tasks \ {1} : waits[t] # 1 /\ \A i \in DOMAIN queue[t] : queue[t][i] = 0

Receivers ==
    /\ receiver # NoTask => (receiver = 1 <=> ~Trailed)
    /\ ended => fin
    /\ ~Trailed /\ Live(1) => receiver = 1
    /\ ~Trailed /\ task[1] = "receiving" => waits[1] = 1 /\ (woken[1] \/ queue[1] = <<>>)

TellsTrue == told[1] /\ ~late /\ ~Trailed => fin /\ Len(received[1]) = sent

BodyInv == kind = "request" => PiecesWhole /\ ZerosElsewhere /\ Receivers /\ TellsTrue

(* WebTransport.                                                           *)
Queued(t) == task[t] \in {"running", "receiving", "done"}

PiecesInOrder ==
    \A t \in Tasks :
        /\ ~Queued(t) => Count(t) = 0
        /\ task[t] # "none" => initial[t] \in 1..sent
        /\ \A i \in 1..Count(t) : Piece(t, i) \in initial[t]..sent
        /\ \A i, j \in 1..Count(t) : i < j => Piece(t, i) < Piece(t, j)

TasksApart ==
    \A s, t \in Tasks :
        s < t /\ task[t] # "none" =>
            /\ initial[s] < initial[t]
            /\ \A i \in 1..Count(s) : Piece(s, i) < initial[t]

PutsInOrder ==
    /\ \A j \in DOMAIN puts, t \in Tasks :
          /\ puts[j][1] = t =>
                /\ Queued(t) /\ puts[j][2] \in initial[t]..sent
                /\ \A i \in 1..Count(t) : Piece(t, i) < puts[j][2]
          /\ puts[j][1] < t /\ task[t] # "none" => puts[j][2] < initial[t]
    /\ \A i, j \in DOMAIN puts : i < j => puts[i][1] <= puts[j][1] /\ puts[i][2] < puts[j][2]

NothingMissed ==
    ~missed =>
        /\ \A t \in Tasks : task[t] = "created" => initial[t] = sent
        /\ \A t \in Tasks : \A i \in 1..Count(t) : Piece(t, i) = initial[t] + i - 1
        /\ \A j \in DOMAIN puts, t \in Tasks :
              puts[j][1] = t =>
                 puts[j][2] = IF j > 1 /\ puts[j - 1][1] = t THEN puts[j - 1][2] + 1
                              ELSE initial[t] + Count(t)
        /\ \A t \in Tasks :
              receiver = t =>
                 sent + 1 = IF puts # <<>> /\ puts[Len(puts)][1] = t THEN puts[Len(puts)][2] + 1
                            ELSE initial[t] + Count(t)

ReceiverLast ==
    /\ receiver # NoTask => receiver = handler /\ Queued(receiver)
    /\ handler # NoTask => \A u \in Tasks : handler < u => task[u] = "none"

StreamInv ==
    kind = "webtransport" =>
        /\ ReceiverLast
        /\ PiecesInOrder /\ TasksApart /\ PutsInOrder /\ NothingMissed

-----------------------------------------------------------------------------
(* Types.  What the operators that actions share leave behind.             *)
LEMMA Numbers == MaxData \in Nat /\ 1 \in Tasks /\ Tasks \subseteq Nat /\ NoTask \notin Tasks
BY Http3Assumption DEF Tasks, NoTask

LEMMA PutTyped ==
    ASSUME InputTypes, NEW q \in Tasks, NEW piece \in Nat, PutNowait(q, piece)
    PROVE  queue' \in [Tasks -> Seq(Nat)] /\ woken' \in [Tasks -> BOOLEAN]
<1>1. Append(queue[q], piece) \in Seq(Nat)
  BY DEF InputTypes
<1>2. queue' \in [Tasks -> Seq(Nat)]
  BY <1>1 DEF PutNowait, InputTypes
<1>3. woken' \in [Tasks -> BOOLEAN]
  BY DEF PutNowait, InputTypes
<1> QED
  BY <1>2, <1>3

(* What receive() and the timeout of its poll may do.                      *)
Consumes(t, q) == Take(t, q) \/ TakeLast(t) \/ Wait(t, q)

LEMMA TakeTyped ==
    ASSUME InputTypes, NEW t \in Tasks, NEW q \in Tasks, Take(t, q)
    PROVE  /\ queue' \in [Tasks -> Seq(Nat)] /\ received' \in [Tasks -> Seq(Nat)]
           /\ told' \in [Tasks -> BOOLEAN] /\ woken' \in [Tasks -> BOOLEAN]
           /\ waits' \in [Tasks -> Tasks \cup {NoTask}]
<1>1. /\ queue[q] \in Seq(Nat) /\ queue[q] # <<>> /\ received[t] \in Seq(Nat)
      /\ queue' = [queue EXCEPT ![q] = Tail(queue[q])]
  BY DEF Take, InputTypes
<1>2. Tail(queue[q]) \in Seq(Nat) /\ Head(queue[q]) \in Nat
  BY <1>1
<1>3. Append(received[t], Head(queue[q])) \in Seq(Nat)
  BY <1>1, <1>2
<1>4. queue' \in [Tasks -> Seq(Nat)]
  BY <1>1, <1>2 DEF InputTypes
<1>5. received' \in [Tasks -> Seq(Nat)]
  BY <1>1, <1>3 DEF Take, InputTypes
<1>6. /\ told' = [told EXCEPT ![t] = told'[t]] /\ told'[t] \in BOOLEAN
  BY DEF Take, InputTypes
<1>7. /\ told' \in [Tasks -> BOOLEAN] /\ woken' \in [Tasks -> BOOLEAN]
      /\ waits' \in [Tasks -> Tasks \cup {NoTask}]
  BY <1>6 DEF Take, InputTypes
<1> QED
  BY <1>4, <1>5, <1>7

LEMMA ConsumesTyped ==
    ASSUME InputTypes, NEW t \in Tasks, NEW q \in Tasks, Consumes(t, q)
    PROVE  /\ queue' \in [Tasks -> Seq(Nat)] /\ received' \in [Tasks -> Seq(Nat)]
           /\ told' \in [Tasks -> BOOLEAN] /\ woken' \in [Tasks -> BOOLEAN]
           /\ waits' \in [Tasks -> Tasks \cup {NoTask}]
<1>1. CASE Take(t, q)
  BY <1>1, TakeTyped
<1>2. CASE TakeLast(t) \/ Wait(t, q)
  BY <1>2 DEF TakeLast, Wait, InputTypes, app
<1> QED
  BY <1>1, <1>2 DEF Consumes

(* The steps of the receiving side, of any kind of stream: only what the   *)
(* application receives, and whether it waits, changes.                    *)
ReceivesFrom(t, q) ==
    /\ task[t] \in {"running", "receiving"}
    /\ kind = "webtransport" => q = t
    /\ Consumes(t, q)
    /\ UNCHANGED <<kind, client, stream, puts, initial, finished, output, missed>>
    /\ late' \in BOOLEAN

(* A request's receive() waits for a queue that exists, and what is put    *)
(* there is put at once.                                                   *)
RequestQueues ==
    kind # "webtransport" =>
        /\ \A t \in Tasks : task[t] = "receiving" => waits[t] \in Tasks
        /\ puts = <<>>

Receiving(t) ==
    Receive(t) \/ GetReturns(t) \/ GetTimesOut(t) \/ StreamReceive(t) \/ StreamGetReturns(t)

LEMMA ReceivingConsumes ==
    ASSUME Types, RequestQueues, NEW t \in Tasks, Receiving(t)
    PROVE  \E q \in Tasks : ReceivesFrom(t, q)
<1> USE DEF ReceivesFrom, Consumes, Kinds
<1>1. CASE Receive(t)
  BY <1>1, Numbers DEF Receive, Types, StreamTypes, InputTypes, NoTask
<1>2. CASE GetReturns(t)
  <2>1. waits[t] \in Tasks
    BY <1>2 DEF GetReturns, RequestQueues
  <2>2. ReceivesFrom(t, waits[t])
    BY <1>2 DEF GetReturns, Types, InputTypes
  <2> QED
    BY <2>1, <2>2
<1>3. CASE GetTimesOut(t)
  <2>1. waits[t] \in Tasks
    BY <1>3 DEF GetTimesOut, RequestQueues
  <2>2. ReceivesFrom(t, waits[t])
    BY <1>3 DEF GetTimesOut, Types, InputTypes
  <2> QED
    BY <2>1, <2>2
<1>4. CASE StreamReceive(t) \/ StreamGetReturns(t)
  <2>1. ReceivesFrom(t, t)
    BY <1>4 DEF StreamReceive, StreamGetReturns, Types, InputTypes
  <2> QED
    BY <2>1
<1> QED
  BY <1>1, <1>2, <1>3, <1>4 DEF Receiving

LEMMA TypesInit == Init => Types
<1> SUFFICES ASSUME Init PROVE Types
  OBVIOUS
<1>1. ClientTypes /\ StreamTypes
  <2>1. kind \in Kinds /\ heads = 0 /\ sent = 0 /\ fin \in BOOLEAN
    BY DEF Init
  <2>2. ClientTypes
    BY <2>1 DEF ClientTypes
  <2>3. /\ task = [t \in Tasks |-> "none"]
        /\ handler = NoTask /\ receiver = NoTask /\ ended = FALSE
    BY DEF Init
  <2>4. StreamTypes
    BY <2>3 DEF StreamTypes, States
  <2> QED
    BY <2>2, <2>4
<1>2. queue \in [Tasks -> Seq(Nat)] /\ received \in [Tasks -> Seq(Nat)]
  <2>1. <<>> \in Seq(Nat)
    OBVIOUS
  <2> QED
    BY <2>1 DEF Init
<1>3. puts \in Seq(Tasks \X Nat) /\ wire \in Seq(Parts)
  BY DEF Init
<1>4. InputTypes /\ OutputTypes
  BY <1>2, <1>3 DEF Init, InputTypes, OutputTypes
<1> QED
  BY <1>1, <1>4 DEF Types

LEMMA ClientTypesStep ==
    ASSUME Types, Next
    PROVE  ClientTypes'
<1> USE Numbers DEF Types, ClientTypes, client, stream, input, app, output
<1>1. CASE Client
  BY <1>1 DEF Client, HandleRequest, DataReceived, ClientSends, HandleWebsocketConnect, WebsocketData,
              HandleWebtransportConnect, WebtransportData
<1>2. CASE PutRuns
  BY <1>2 DEF PutRuns
<1>3. ASSUME NEW t \in Tasks, Loop(t) \/ GetTimesOut(t) PROVE ClientTypes'
  BY <1>3 DEF Loop, RunAsgi, GetReturns, GetTimesOut, HandleWebtransportStream, StreamGetReturns
<1>4. ASSUME NEW t \in Tasks, Application(t) PROVE ClientTypes'
  BY <1>4 DEF Application, Receive, SendStart, SendBody, AppReturns, AppRaises, SendFrame,
              CloseStream, StreamReceive, StreamSend, StreamHandlerEnds
<1> QED
  BY <1>1, <1>2, <1>3, <1>4 DEF Next

(* The stretches of code that run between two suspensions.                 *)
Serving(t) ==
    \/ SendStart(t)
    \/ \E body \in BOOLEAN, more \in BOOLEAN : SendBody(t, body, more)
    \/ SendFrame(t)
    \/ \E end \in BOOLEAN : StreamSend(t, end)

Ending(t) == AppReturns(t) \/ AppRaises(t) \/ StreamHandlerEnds(t)

(* Next, by what the steps do to the tasks.                                *)
LEMMA Cases ==
    ASSUME Next
    PROVE  \/ \E t \in Tasks, end \in BOOLEAN : HandleRequest(t, end)
           \/ \E piece \in 0..MaxData, end \in BOOLEAN : DataReceived(piece, end)
           \/ \E t \in Tasks : HandleWebsocketConnect(t)
           \/ \E t \in Tasks, piece \in 0..MaxData, end \in BOOLEAN : WebsocketData(t, piece, end)
           \/ HandleWebtransportConnect
           \/ \E end \in BOOLEAN : WebtransportData(end)
           \/ PutRuns
           \/ \E t \in Tasks : RunAsgi(t) \/ HandleWebtransportStream(t)
           \/ \E t \in Tasks : Receiving(t) \/ Serving(t) \/ Ending(t) \/ CloseStream(t)
BY DEF Next, Client, Loop, Application, Receiving, Serving, Ending

LEMMA EndingFacts ==
    ASSUME NEW t \in Tasks, Ending(t)
    PROVE  /\ Cleanup(t) /\ Live(t)
           /\ UNCHANGED <<kind, client, input, app, started, late, missed>>
BY DEF Ending, AppReturns, AppRaises, StreamHandlerEnds, Live, Served, output

LEMMA ServingFacts ==
    ASSUME NEW t \in Tasks, Serving(t)
    PROVE  /\ Live(t)
           /\ UNCHANGED <<kind, client, task, stream, queue, puts, initial, waits, woken, app,
                          late, missed>>
BY DEF Serving, SendStart, SendBody, SendFrame, StreamSend, Live, Served, input, output

(* A stream stays of its kind, and its trailers are the last headers.      *)
LEMMA KindKept ==
    ASSUME Types, RequestQueues, Next
    PROVE  kind' = kind /\ heads' >= heads
<1> USE DEF Types, ClientTypes, client
<1>1. ASSUME NEW t \in Tasks, Receiving(t) PROVE UNCHANGED <<kind, client>>
  BY <1>1, ReceivingConsumes DEF ReceivesFrom
<1>2. ASSUME NEW t \in Tasks, Serving(t) \/ Ending(t) PROVE UNCHANGED <<kind, client>>
  BY <1>2, ServingFacts, EndingFacts
<1>3. ASSUME \/ \E t \in Tasks, end \in BOOLEAN : HandleRequest(t, end)
             \/ \E piece \in 0..MaxData, end \in BOOLEAN : DataReceived(piece, end)
             \/ \E t \in Tasks : HandleWebsocketConnect(t)
      PROVE  kind' = kind /\ heads' >= heads
  BY <1>3 DEF HandleRequest, DataReceived, ClientSends, HandleWebsocketConnect
<1>4. ASSUME \/ \E t \in Tasks, piece \in 0..MaxData, end \in BOOLEAN : WebsocketData(t, piece, end)
             \/ HandleWebtransportConnect
             \/ \E end \in BOOLEAN : WebtransportData(end)
             \/ PutRuns
             \/ \E t \in Tasks : RunAsgi(t) \/ HandleWebtransportStream(t) \/ CloseStream(t)
      PROVE  kind' = kind /\ heads' >= heads
  BY <1>4 DEF WebsocketData, HandleWebtransportConnect, WebtransportData, PutRuns, RunAsgi,
              HandleWebtransportStream, CloseStream
<1> QED
  BY <1>1, <1>2, <1>3, <1>4, Cases

LEMMA StreamTypesStep ==
    ASSUME Types, RequestQueues, Next
    PROVE  StreamTypes'
<1> USE Numbers DEF Types, StreamTypes, stream, States
<1>1. ASSUME NEW t \in Tasks, NEW end \in BOOLEAN, HandleRequest(t, end) PROVE StreamTypes'
  BY <1>1 DEF HandleRequest, Create
<1>2. ASSUME NEW piece \in 0..MaxData, NEW end \in BOOLEAN, DataReceived(piece, end)
      PROVE  StreamTypes'
  BY <1>2 DEF DataReceived, ClientSends
<1>3. ASSUME NEW t \in Tasks, HandleWebsocketConnect(t) PROVE StreamTypes'
  BY <1>3 DEF HandleWebsocketConnect, Create
<1>4. CASE \/ \E t \in Tasks, piece \in 0..MaxData, end \in BOOLEAN : WebsocketData(t, piece, end)
           \/ HandleWebtransportConnect \/ PutRuns
  BY <1>4 DEF WebsocketData, HandleWebtransportConnect, PutRuns
<1>5. ASSUME NEW end \in BOOLEAN, WebtransportData(end) PROVE StreamTypes'
  BY <1>5 DEF WebtransportData, Create
<1>6. ASSUME NEW t \in Tasks, RunAsgi(t) \/ HandleWebtransportStream(t) PROVE StreamTypes'
  BY <1>6 DEF RunAsgi, HandleWebtransportStream
<1>7. ASSUME NEW t \in Tasks, Receiving(t) PROVE StreamTypes'
  <2>1. PICK q \in Tasks : ReceivesFrom(t, q)
    BY <1>7, ReceivingConsumes
  <2> QED
    BY <2>1 DEF ReceivesFrom, Consumes, Take, TakeLast, Wait
<1>8. ASSUME NEW t \in Tasks, Serving(t) PROVE StreamTypes'
  BY <1>8, ServingFacts
<1>9. ASSUME NEW t \in Tasks, Ending(t) PROVE StreamTypes'
  BY <1>9, EndingFacts DEF Cleanup
<1>10. ASSUME NEW t \in Tasks, CloseStream(t) PROVE StreamTypes'
  BY <1>10 DEF CloseStream
<1> QED
  BY <1>1, <1>2, <1>3, <1>4, <1>5, <1>6, <1>7, <1>8, <1>9, <1>10, Cases

LEMMA InputTypesStep ==
    ASSUME Types, RequestQueues, Next
    PROVE  InputTypes'
<1> USE Numbers DEF Types, StreamTypes, InputTypes, input, app
<1>1. ASSUME NEW t \in Tasks, NEW end \in BOOLEAN, HandleRequest(t, end) PROVE InputTypes'
  BY <1>1 DEF HandleRequest
<1>2. ASSUME NEW piece \in 0..MaxData, NEW end \in BOOLEAN, DataReceived(piece, end)
      PROVE  InputTypes'
  <2>1. queue' \in [Tasks -> Seq(Nat)] /\ woken' \in [Tasks -> BOOLEAN]
    <3>1. CASE receiver # NoTask
      <4>1. receiver \in Tasks /\ piece \in Nat /\ PutNowait(receiver, piece)
        BY <1>2, <3>1 DEF DataReceived, ClientSends
      <4> QED
        BY <4>1, PutTyped
    <3>2. CASE receiver = NoTask
      BY <1>2, <3>2 DEF DataReceived, ClientSends
    <3> QED
      BY <3>1, <3>2
  <2>2. UNCHANGED <<puts, initial, finished, waits, received, told, late, missed>>
    BY <1>2 DEF DataReceived, ClientSends
  <2> QED
    BY <2>1, <2>2
<1>3. ASSUME NEW t \in Tasks, HandleWebsocketConnect(t) PROVE InputTypes'
  BY <1>3 DEF HandleWebsocketConnect
<1>4. ASSUME NEW t \in Tasks, NEW piece \in 0..MaxData, NEW end \in BOOLEAN,
             WebsocketData(t, piece, end)
      PROVE  InputTypes'
  <2>1. Append(received[t], piece) \in Seq(Nat)
    OBVIOUS
  <2>2. received' \in [Tasks -> Seq(Nat)]
    BY <1>4, <2>1 DEF WebsocketData
  <2> QED
    BY <1>4, <2>2 DEF WebsocketData
<1>5. CASE HandleWebtransportConnect
  BY <1>5 DEF HandleWebtransportConnect
<1>6. ASSUME NEW end \in BOOLEAN, WebtransportData(end) PROVE InputTypes'
  <2>1. sent + 1 \in Nat
    BY DEF ClientTypes
  <2>2. receiver # NoTask => Append(puts, <<receiver, sent + 1>>) \in Seq(Tasks \X Nat)
    BY <2>1
  <2>3. puts' \in Seq(Tasks \X Nat)
    BY <1>6, <2>2 DEF WebtransportData
  <2>4. /\ initial' \in [Tasks -> Nat] /\ finished' \in [Tasks -> BOOLEAN]
        /\ missed' \in BOOLEAN /\ UNCHANGED <<queue, waits, woken, received, told, late>>
    <3>1. initial' \in [Tasks -> Nat]
      BY <1>6, <2>1 DEF WebtransportData
    <3>2. finished' \in [Tasks -> BOOLEAN]
      BY <1>6 DEF WebtransportData
    <3> QED
      BY <1>6, <3>1, <3>2 DEF WebtransportData
  <2> QED
    BY <2>3, <2>4
<1>7. CASE PutRuns
  <2>1. /\ puts \in Seq(Tasks \X Nat) /\ puts # <<>>
        /\ puts' = Tail(puts)
    BY <1>7 DEF PutRuns
  <2>2. Head(puts) \in Tasks \X Nat /\ Tail(puts) \in Seq(Tasks \X Nat)
    BY <2>1
  <2>3. Head(puts)[1] \in Tasks /\ Head(puts)[2] \in Nat
    BY <2>2
  <2>4. queue' \in [Tasks -> Seq(Nat)] /\ woken' \in [Tasks -> BOOLEAN]
    BY <1>7, <2>3, PutTyped DEF PutRuns
  <2> QED
    BY <1>7, <2>1, <2>2, <2>4 DEF PutRuns
<1>8. ASSUME NEW t \in Tasks, RunAsgi(t) PROVE InputTypes'
  BY <1>8 DEF RunAsgi
<1>9. ASSUME NEW t \in Tasks, HandleWebtransportStream(t) PROVE InputTypes'
  <2>1. <<initial[t]>> \in Seq(Nat)
    OBVIOUS
  <2> QED
    BY <1>9, <2>1 DEF HandleWebtransportStream
<1>10. ASSUME NEW t \in Tasks, Receiving(t) PROVE InputTypes'
  <2>1. PICK q \in Tasks : ReceivesFrom(t, q)
    BY <1>10, ReceivingConsumes
  <2>2. Consumes(t, q) /\ UNCHANGED <<puts, initial, finished, missed>> /\ late' \in BOOLEAN
    BY <2>1 DEF ReceivesFrom
  <2> QED
    BY <2>2, ConsumesTyped
<1>11. ASSUME NEW t \in Tasks, Serving(t) PROVE InputTypes'
  <2>1. finished' \in [Tasks -> BOOLEAN]
    BY <1>11 DEF Serving, SendStart, SendBody, SendFrame, StreamSend
  <2> QED
    BY <1>11, <2>1, ServingFacts
<1>12. ASSUME NEW t \in Tasks, Ending(t) PROVE InputTypes'
  BY <1>12, EndingFacts
<1>13. ASSUME NEW t \in Tasks, CloseStream(t) PROVE InputTypes'
  BY <1>13 DEF CloseStream
<1> HIDE DEF Types, StreamTypes, InputTypes, input, app
<1> QED
  BY <1>1, <1>2, <1>3, <1>4, <1>5, <1>6, <1>7, <1>8, <1>9, <1>10, <1>11, <1>12, <1>13, Cases

LEMMA OutputTypesStep ==
    ASSUME Types, RequestQueues, Next
    PROVE  OutputTypes'
<1> USE Numbers DEF Types, OutputTypes, output
<1>1. CASE UNCHANGED output
  BY <1>1
<1>2. ASSUME NEW t \in Tasks, SendStart(t) PROVE OutputTypes'
  <2>1. Append(wire, "head") \in Seq(Parts)
    BY DEF Parts
  <2> QED
    BY <1>2, <2>1 DEF SendStart
<1>3. ASSUME NEW t \in Tasks, NEW body \in BOOLEAN, NEW more \in BOOLEAN, SendBody(t, body, more)
      PROVE  OutputTypes'
  <2>1. /\ (IF body THEN <<"data">> ELSE <<>>) \in Seq(Parts)
        /\ (IF more THEN <<>> ELSE <<"end">>) \in Seq(Parts)
    <3>1. <<"data">> \in Seq(Parts) /\ <<"end">> \in Seq(Parts) /\ <<>> \in Seq(Parts)
      BY DEF Parts
    <3> QED
      BY <3>1
  <2>2. \A u, v \in Seq(Parts) : wire \o u \o v \in Seq(Parts)
    OBVIOUS
  <2>3. wire' \in Seq(Parts)
    BY <1>3, <2>1, <2>2 DEF SendBody
  <2> QED
    BY <1>3, <2>3 DEF SendBody
<1>4. ASSUME NEW t \in Tasks, SendFrame(t) \/ CloseStream(t) PROVE OutputTypes'
  <2>1. Append(wire, "data") \in Seq(Parts) /\ Append(wire, "end") \in Seq(Parts)
    BY DEF Parts
  <2> QED
    BY <1>4, <2>1 DEF SendFrame, CloseStream
<1>5. ASSUME NEW t \in Tasks, NEW end \in BOOLEAN, StreamSend(t, end) PROVE OutputTypes'
  <2>1. Append(wire, "data") \in Seq(Parts) /\ Append(wire, "end") \in Seq(Parts)
    BY DEF Parts
  <2> QED
    BY <1>5, <2>1 DEF StreamSend
<1>6. ASSUME NEW t \in Tasks, AppRaises(t) PROVE OutputTypes'
  <2>1. /\ Append(wire, "head") \in Seq(Parts)
        /\ Append(wire, "head") \o <<"data", "end">> \in Seq(Parts)
    <3>1. Append(wire, "head") \in Seq(Parts) /\ <<"data", "end">> \in Seq(Parts)
      BY DEF Parts
    <3> QED
      BY <3>1
  <2>2. SendErrorResponse(wire) \in Seq(Parts)
    BY <2>1 DEF SendErrorResponse
  <2> QED
    BY <1>6, <2>2 DEF AppRaises
<1>7. ASSUME NEW t \in Tasks, Receiving(t) PROVE UNCHANGED output
  BY <1>7, ReceivingConsumes DEF ReceivesFrom
<1>8. ASSUME NEW t \in Tasks, AppReturns(t) \/ StreamHandlerEnds(t) PROVE UNCHANGED output
  BY <1>8 DEF AppReturns, StreamHandlerEnds
<1>9. ASSUME NEW t \in Tasks, Serving(t) \/ Ending(t) \/ CloseStream(t) PROVE OutputTypes'
  BY <1>1, <1>2, <1>3, <1>4, <1>5, <1>6, <1>8, <1>9 DEF Serving, Ending
<1>10. ASSUME \/ \E t \in Tasks, end \in BOOLEAN : HandleRequest(t, end)
              \/ \E piece \in 0..MaxData, end \in BOOLEAN : DataReceived(piece, end)
              \/ \E t \in Tasks : HandleWebsocketConnect(t)
              \/ \E t \in Tasks, piece \in 0..MaxData, end \in BOOLEAN :
                    WebsocketData(t, piece, end)
              \/ \E end \in BOOLEAN : WebtransportData(end)
              \/ PutRuns
              \/ \E t \in Tasks : RunAsgi(t) \/ HandleWebtransportStream(t)
       PROVE  UNCHANGED output
  BY <1>10 DEF HandleRequest, DataReceived, HandleWebsocketConnect, WebsocketData,
               WebtransportData, PutRuns, RunAsgi, HandleWebtransportStream
<1>11. CASE HandleWebtransportConnect
  <2>1. Append(wire, "head") \in Seq(Parts)
    BY DEF Parts
  <2> QED
    BY <1>11, <2>1 DEF HandleWebtransportConnect
<1> QED
  BY <1>1, <1>7, <1>9, <1>10, <1>11, Cases

LEMMA RequestQueuesStep ==
    ASSUME Types, RequestQueues, Registered, Next
    PROVE  RequestQueues'
<1> USE Numbers DEF Types, ClientTypes, StreamTypes, InputTypes, RequestQueues, input, stream
<1>1. ASSUME NEW t \in Tasks, NEW end \in BOOLEAN, HandleRequest(t, end) PROVE RequestQueues'
  BY <1>1 DEF HandleRequest, Create
<1>2. ASSUME NEW piece \in 0..MaxData, NEW end \in BOOLEAN, DataReceived(piece, end)
      PROVE  RequestQueues'
  BY <1>2 DEF DataReceived, ClientSends
<1>3. ASSUME NEW t \in Tasks, HandleWebsocketConnect(t) PROVE RequestQueues'
  BY <1>3 DEF HandleWebsocketConnect, Create
<1>4. CASE \/ \E t \in Tasks, piece \in 0..MaxData, end \in BOOLEAN : WebsocketData(t, piece, end)
           \/ HandleWebtransportConnect \/ PutRuns
  BY <1>4 DEF WebsocketData, HandleWebtransportConnect, PutRuns
<1>5. ASSUME NEW end \in BOOLEAN, WebtransportData(end) PROVE RequestQueues'
  BY <1>5 DEF WebtransportData
<1>6. ASSUME NEW t \in Tasks, RunAsgi(t) \/ HandleWebtransportStream(t) PROVE RequestQueues'
  BY <1>6 DEF RunAsgi, HandleWebtransportStream
<1>7. ASSUME NEW t \in Tasks, Receiving(t) PROVE RequestQueues'
  <2>1. PICK q \in Tasks : ReceivesFrom(t, q)
    BY <1>7, ReceivingConsumes
  <2>2. CASE Take(t, q)
    BY <2>1, <2>2 DEF ReceivesFrom, Take
  <2>3. CASE TakeLast(t)
    BY <2>1, <2>3 DEF ReceivesFrom, TakeLast
  <2>4. CASE Wait(t, q)
    BY <2>1, <2>4 DEF ReceivesFrom, Wait
  <2> QED
    BY <2>1, <2>2, <2>3, <2>4 DEF ReceivesFrom, Consumes
<1>8. ASSUME NEW t \in Tasks, Serving(t) PROVE RequestQueues'
  BY <1>8, ServingFacts
<1>9. ASSUME NEW t \in Tasks, Ending(t) PROVE RequestQueues'
  BY <1>9, EndingFacts DEF Cleanup
<1>10. ASSUME NEW t \in Tasks, CloseStream(t) PROVE RequestQueues'
  BY <1>10 DEF CloseStream
<1> HIDE DEF Types, ClientTypes, StreamTypes, InputTypes, RequestQueues, input, stream
<1> QED
  BY <1>1, <1>2, <1>3, <1>4, <1>5, <1>6, <1>7, <1>8, <1>9, <1>10, Cases

-----------------------------------------------------------------------------
(* The registry: which tasks there are, and which one is registered.       *)
LEMMA RegistryInit == Init => RegistryInv
BY Numbers
   DEF Init, RegistryInv, TasksInOrder, OnePerHead, NoHeaders, Registered, Trailed,
       Live, Served, NoTask, Tasks

(* A task is created behind all others, and when none is live but for the  *)
(* trailers.                                                               *)
LEMMA CreateFacts ==
    ASSUME Types, RegistryInv, NEW t \in Tasks, NEW begun \in {"created", "open"},
           Create(t, begun)
    PROVE  /\ TasksInOrder' /\ Live(t)'
           /\ \A s \in Tasks : s # t => task'[s] = task[s]
           /\ \A s \in Tasks : s < t <=> task[s] # "none"
           /\ task'[t] = begun /\ task[t] = "none"
           /\ kind \in {"request", "websocket"} => t = heads + 1
<1>1. \A s \in Tasks : s < t <=> task[s] # "none"
  <2>1. ASSUME NEW s \in Tasks, task[s] # "none" PROVE s < t
    <3>1. s # t /\ ~(t < s)
      BY <2>1 DEF Create, RegistryInv, TasksInOrder
    <3> QED
      BY <3>1, Numbers
  <2> QED
    BY <2>1 DEF Create
<1>2. task' = [task EXCEPT ![t] = begun] /\ task \in [Tasks -> States] /\ task[t] = "none"
  BY DEF Create, Types, StreamTypes
<1>3. TasksInOrder'
  BY <1>1, <1>2, Numbers DEF TasksInOrder
<1>4. kind \in {"request", "websocket"} => t = heads + 1
  <2>1. CASE kind \in {"request", "websocket"}
    <3>1. \A s \in Tasks : s < t <=> s <= heads
      BY <1>1, <2>1 DEF RegistryInv, OnePerHead
    <3>2. t \in 1..MaxTasks /\ heads \in Nat /\ heads + 1 \in 1..MaxTasks
      BY <3>1, Http3Assumption DEF Tasks, Types, ClientTypes
    <3> QED
      BY <3>1, <3>2 DEF Tasks
  <2> QED
    BY <2>1
<1> QED
  BY <1>1, <1>2, <1>3, <1>4 DEF Live, Served

LEMMA RegistryCreates ==
    ASSUME Types, RegistryInv, NEW t \in Tasks, NEW begun \in {"created", "open"},
           Create(t, begun), kind' = kind,
           \/ kind # "webtransport" /\ heads < 2 /\ heads' = heads + 1 /\ (kind = "session" => heads = 1)
           \/ kind = "webtransport" /\ heads' = heads /\ handler = NoTask,
           \/ receiver' = t /\ begun = "created"
           \/ receiver' = receiver /\ ended' = ended
    PROVE  RegistryInv'
<1>1. /\ TasksInOrder' /\ Live(t)'
      /\ \A s \in Tasks : s # t => task'[s] = task[s]
      /\ \A s \in Tasks : s < t <=> task[s] # "none"
      /\ task'[t] = begun /\ task[t] = "none"
      /\ kind \in {"request", "websocket"} => t = heads + 1
  BY CreateFacts
<1>2. handler' = t /\ t # NoTask /\ kind \in Kinds /\ heads \in 0..2
  BY Numbers DEF Create, Types, ClientTypes
<1>3. OnePerHead'
  <2>1. CASE kind \in {"request", "websocket"}
    <3>1. t = heads + 1 /\ heads' = heads + 1 /\ heads \in Nat
      BY <1>1, <1>2, <2>1
    <3>2. ASSUME NEW s \in Tasks PROVE task'[s] # "none" <=> s <= heads'
      <4>1. s \in Nat
        BY Numbers
      <4> QED
        BY <1>1, <3>1, <4>1
    <3> QED
      BY <3>2 DEF OnePerHead
  <2>2. CASE kind \notin {"request", "websocket"}
    BY <2>2 DEF OnePerHead
  <2> QED
    BY <2>1, <2>2
<1>4. NoHeaders'
  BY DEF NoHeaders, RegistryInv
<1>5. ~Trailed' => \A s \in Tasks : s # t => ~Live(s)'
  <2>1. ASSUME ~Trailed', kind # "webtransport", NEW s \in Tasks, s # t PROVE ~Live(s)'
    <3>1. heads' = heads + 1 /\ heads' # 2 /\ kind # "session"
      BY <1>2, <2>1 DEF Trailed
    <3>2. heads = 0 /\ kind \in {"request", "websocket"}
      <4>1. heads' \in 1..2 => heads = 0
        BY <1>2, <3>1
      <4> QED
        BY <1>2, <2>1, <3>1, <4>1 DEF Kinds
    <3>3. t = 1 /\ ~(s < t)
      BY <1>1, <2>1, <3>2 DEF Tasks
    <3> QED
      BY <1>1, <2>1, <3>3 DEF Live, Served
  <2>2. ASSUME ~Trailed', kind = "webtransport", NEW s \in Tasks, s # t PROVE ~Live(s)'
    <3>1. ~Trailed /\ handler = NoTask
      BY <2>2 DEF Trailed
    <3>2. ~Live(s)
      BY <3>1, Numbers DEF RegistryInv, Registered
    <3> QED
      BY <1>1, <2>2, <3>2 DEF Live, Served
  <2> QED
    BY <2>1, <2>2
<1>6. receiver' # NoTask => Served(receiver)'
  <2>1. CASE receiver' = t /\ begun = "created"
    BY <1>1, <2>1 DEF Served
  <2>2. CASE receiver' = receiver
    <3>1. receiver # NoTask => receiver \in Tasks /\ Served(receiver)
      BY DEF RegistryInv, Registered, Types, StreamTypes
    <3>2. receiver # NoTask => receiver # t
      BY <1>1, <3>1 DEF Served
    <3> QED
      BY <1>1, <2>2, <3>1, <3>2 DEF Served
  <2> QED
    BY <2>1, <2>2
<1>7. ended' => receiver' # NoTask
  BY <1>2 DEF RegistryInv, Registered
<1>8. Registered'
  BY <1>1, <1>2, <1>5, <1>6, <1>7 DEF Registered
<1> QED
  BY <1>1, <1>3, <1>4, <1>8 DEF RegistryInv

(* Steps that keep every task in its place.                                *)
SamePlaces ==
    /\ UNCHANGED <<kind, heads, handler>>
    /\ \A t \in Tasks :
          /\ task[t] = "none" <=> task'[t] = "none"
          /\ Live(t) <=> Live(t)'
          /\ Served(t) <=> Served(t)'

LEMMA RegistryKept ==
    ASSUME Types, RegistryInv, SamePlaces, UNCHANGED <<receiver, ended>>
    PROVE  RegistryInv'
BY DEF Types, StreamTypes, RegistryInv, TasksInOrder, OnePerHead, NoHeaders, Registered, Trailed, SamePlaces

LEMMA RegistryInvStep ==
    ASSUME Types, RequestQueues, RegistryInv, Next
    PROVE  RegistryInv'
<1>1. ASSUME NEW t \in Tasks, NEW end \in BOOLEAN, HandleRequest(t, end) PROVE RegistryInv'
  BY <1>1, RegistryCreates DEF HandleRequest
<1>2. ASSUME NEW piece \in 0..MaxData, NEW end \in BOOLEAN, DataReceived(piece, end)
      PROVE  RegistryInv'
  <2>1. SamePlaces /\ receiver' = receiver
    BY <1>2 DEF DataReceived, ClientSends, SamePlaces, Live, Served
  <2>2. ended' = ended \/ receiver # NoTask
    BY <1>2 DEF DataReceived, ClientSends
  <2> QED
    BY <2>1, <2>2
       DEF RegistryInv, TasksInOrder, OnePerHead, NoHeaders, Registered, Trailed,
           SamePlaces, Types, StreamTypes
<1>3. ASSUME NEW t \in Tasks, HandleWebsocketConnect(t) PROVE RegistryInv'
  <2>1. /\ Create(t, "open") /\ kind' = kind /\ kind = "websocket" /\ heads = 0 /\ heads' = 1
        /\ UNCHANGED <<receiver, ended>>
    BY <1>3 DEF HandleWebsocketConnect
  <2> QED
    BY <2>1, RegistryCreates
<1>4. CASE \/ \E t \in Tasks, piece \in 0..MaxData, end \in BOOLEAN : WebsocketData(t, piece, end)
           \/ PutRuns
  <2>1. SamePlaces /\ UNCHANGED <<receiver, ended>>
    BY <1>4 DEF WebsocketData, PutRuns, SamePlaces, Live, Served, stream, client
  <2> QED
    BY <2>1, RegistryKept
<1>5. CASE HandleWebtransportConnect
  BY <1>5
     DEF HandleWebtransportConnect, RegistryInv, TasksInOrder, OnePerHead, NoHeaders,
         Registered, Trailed, Live, Served, stream
<1>6. ASSUME NEW end \in BOOLEAN, WebtransportData(end) PROVE RegistryInv'
  <2>1. /\ kind = "webtransport" /\ UNCHANGED <<kind, heads, receiver, ended>>
        /\ IF handler = NoTask THEN \E t \in Tasks : Create(t, "created") ELSE UNCHANGED <<task, handler>>
    BY <1>6 DEF WebtransportData
  <2>2. CASE handler = NoTask
    BY <2>1, <2>2, RegistryCreates
  <2>3. CASE handler # NoTask
    BY <2>1, <2>3, RegistryKept DEF SamePlaces, Live, Served
  <2> QED
    BY <2>2, <2>3
<1>7. ASSUME NEW t \in Tasks, RunAsgi(t) PROVE RegistryInv'
  <2>1. SamePlaces /\ UNCHANGED <<receiver, ended>>
    BY <1>7 DEF RunAsgi, SamePlaces, Live, Served, stream, client, Types, StreamTypes
  <2> QED
    BY <2>1, RegistryKept
<1>8. ASSUME NEW t \in Tasks, HandleWebtransportStream(t) PROVE RegistryInv'
  <2>1. SamePlaces /\ UNCHANGED ended /\ Live(t) /\ Served(t) /\ receiver' = t
    BY <1>8 DEF HandleWebtransportStream, SamePlaces, Live, Served, stream, client, Types, StreamTypes
  <2>2. kind = "webtransport" /\ ~Trailed
    BY <1>8 DEF HandleWebtransportStream, RegistryInv, NoHeaders, Trailed
  <2>3. handler = t /\ t # NoTask
    BY <2>1, <2>2, Numbers DEF RegistryInv, Registered
  <2>4. Live(t)' /\ Served(t)' /\ handler' = handler
    BY <2>1 DEF SamePlaces
  <2> QED
    BY <2>1, <2>3, <2>4
       DEF RegistryInv, TasksInOrder, OnePerHead, NoHeaders, Registered, Trailed,
           SamePlaces
<1>9. ASSUME NEW t \in Tasks, Receiving(t) PROVE RegistryInv'
  <2>1. PICK q \in Tasks : ReceivesFrom(t, q)
    BY <1>9, ReceivingConsumes
  <2>2. SamePlaces /\ UNCHANGED <<receiver, ended>>
    BY <2>1 DEF ReceivesFrom, Consumes, Take, TakeLast, Wait, SamePlaces, Live, Served, stream, client,
                Types, StreamTypes
  <2> QED
    BY <2>2, RegistryKept
<1>10. ASSUME NEW t \in Tasks, Serving(t) PROVE RegistryInv'
  <2>1. SamePlaces /\ UNCHANGED <<receiver, ended>>
    BY <1>10, ServingFacts DEF SamePlaces, Live, Served, stream, client
  <2> QED
    BY <2>1, RegistryKept
<1>11. ASSUME NEW t \in Tasks, Ending(t) PROVE RegistryInv'
  <2>1. /\ UNCHANGED <<kind, heads>> /\ Live(t)
        /\ task' = [task EXCEPT ![t] = "done"]
        /\ handler' = NoTask /\ receiver' = NoTask /\ ended' = FALSE
    BY <1>11, EndingFacts DEF Cleanup, client
  <2>2. /\ \A s \in Tasks : task[s] = "none" <=> task'[s] = "none"
        /\ \A s \in Tasks : Live(s)' <=> (Live(s) /\ s # t)
    BY <2>1 DEF Live, Served, Types, StreamTypes
  <2>3. TasksInOrder' /\ OnePerHead' /\ NoHeaders'
    BY <2>1, <2>2 DEF RegistryInv, TasksInOrder, OnePerHead, NoHeaders, Trailed
  <2>4. ~Trailed' => \A s \in Tasks : ~Live(s)'
    BY <2>1, <2>2 DEF RegistryInv, Registered, Trailed
  <2>5. \A s \in Tasks : s # NoTask
    BY Numbers
  <2> QED
    BY <2>1, <2>3, <2>4, <2>5 DEF RegistryInv, Registered
<1>12. ASSUME NEW t \in Tasks, CloseStream(t) PROVE RegistryInv'
  <2>1. /\ UNCHANGED <<kind, heads, receiver, ended>> /\ Live(t) /\ ~Served(t)
        /\ task' = [task EXCEPT ![t] = "done"] /\ handler' = NoTask
    BY <1>12 DEF CloseStream, client, Live, Served
  <2>2. /\ \A s \in Tasks : task[s] = "none" <=> task'[s] = "none"
        /\ \A s \in Tasks : Live(s)' <=> (Live(s) /\ s # t)
        /\ \A s \in Tasks : Served(s)' <=> Served(s)
    BY <2>1 DEF Live, Served, Types, StreamTypes
  <2>3. TasksInOrder' /\ OnePerHead' /\ NoHeaders'
    BY <2>1, <2>2 DEF RegistryInv, TasksInOrder, OnePerHead, NoHeaders
  <2>4. ~Trailed' => \A s \in Tasks : ~Live(s)'
    BY <2>1, <2>2 DEF RegistryInv, Registered, Trailed
  <2>5. receiver # NoTask => receiver \in Tasks
    BY DEF Types, StreamTypes
  <2>6. \A s \in Tasks : s # NoTask
    BY Numbers
  <2> QED
    BY <2>1, <2>2, <2>3, <2>4, <2>5, <2>6 DEF RegistryInv, Registered
<1> QED
  BY <1>1, <1>2, <1>3, <1>4, <1>5, <1>6, <1>7, <1>8, <1>9, <1>10, <1>11, <1>12, Cases

Base == Types /\ RequestQueues /\ RegistryInv

LEMMA BaseUntouched == Base /\ UNCHANGED vars => Base'
BY DEF Base, Types, ClientTypes, StreamTypes, InputTypes, OutputTypes, RequestQueues, RegistryInv,
       TasksInOrder, OnePerHead, NoHeaders, Registered, Trailed, Live, Served, vars, stream,
       input, client, app, output

LEMMA BaseInvariant == Spec => []Base
<1>1. Init => Base
  <2>1. Init => RequestQueues
    BY DEF Init, RequestQueues
  <2> QED
    BY <2>1, TypesInit, RegistryInit DEF Base
<1>2. Base /\ [Next]_vars => Base'
  <2> SUFFICES ASSUME Base, Next PROVE Base'
    BY BaseUntouched
  <2>1. Types' /\ RequestQueues'
    BY ClientTypesStep, StreamTypesStep, InputTypesStep, OutputTypesStep, RequestQueuesStep
       DEF Base, Types, RegistryInv
  <2> QED
    BY <2>1, RegistryInvStep DEF Base
<1> QED
  BY <1>1, <1>2, PTL DEF Spec

(* For any number of tasks: what the dictionaries hold belongs to a task   *)
(* in progress, whatever trailers have added to a request, a WebSocket or  *)
(* a session, and without trailers that task is registered (_run_asgi,     *)
(* close_stream).                                                          *)
THEOREM RegistryIsExact == Spec => []RegistryExact
<1>1. Base => RegistryExact
  <2> SUFFICES ASSUME Base PROVE RegistryExact
    OBVIOUS
  <2> DEFINE live == {t \in Tasks : task[t] \in {"created", "open", "running", "receiving"}}
  <2>1. \A t \in Tasks : t \in live <=> Live(t)
    BY DEF Live, Served
  <2>2. handler \in Tasks \cup {NoTask} /\ receiver \in Tasks \cup {NoTask}
    BY DEF Base, Types, StreamTypes
  <2>3. {handler, receiver} \ {NoTask} \subseteq live
    BY <2>1, <2>2 DEF Base, RegistryInv, Registered, Live
  <2>4. ended => receiver # NoTask
    BY DEF Base, RegistryInv, Registered
  <2>5. ~Trailed => live = {handler} \ {NoTask}
    BY <2>1, <2>2, Numbers DEF Base, RegistryInv, Registered
  <2> QED
    BY <2>3, <2>4, <2>5 DEF RegistryExact
<1> QED
  BY <1>1, BaseInvariant, PTL

-----------------------------------------------------------------------------
(* The response of a request without trailers.                             *)
LEMMA OneHead ==
    ASSUME NEW w \in Seq(Parts), OneResponse(w)
    PROVE  HeadsOn(w) = 1 /\ w[1] = "head"
<1>1. 1 \in DOMAIN w
  BY DEF OneResponse
<1>2. {i \in DOMAIN w : w[i] = "head"} = {1}
  BY <1>1 DEF OneResponse
<1> QED
  BY <1>1, <1>2, FS_Singleton DEF HeadsOn, OneResponse

LEMMA FirstHead ==
    ASSUME NEW w, w = Append(<<>>, "head")
    PROVE  w = <<"head">> /\ w \in Seq(Parts) /\ OneResponse(w) /\ ~EndedOn(w)
<1>1. w = <<"head">>
  OBVIOUS
<1>2. w \in Seq(Parts)
  BY <1>1 DEF Parts
<1>3. DOMAIN w = {1} /\ w[1] = "head" /\ Len(w) = 1 /\ w # <<>>
  BY <1>1
<1> QED
  BY <1>1, <1>2, <1>3 DEF OneResponse, EndedOn

LEMMA EndedLast ==
    ASSUME NEW w \in Seq(Parts), OneResponse(w)
    PROVE  EndedOn(w) <=> w[Len(w)] = "end"
BY DEF OneResponse, EndedOn

(* More of a response that has not ended.                                  *)
LEMMA LongerResponse ==
    ASSUME NEW w \in Seq(Parts), OneResponse(w), ~EndedOn(w), NEW e \in {"data", "end"}
    PROVE  /\ Append(w, e) \in Seq(Parts) /\ OneResponse(Append(w, e))
           /\ EndedOn(Append(w, e)) <=> e = "end"
<1> DEFINE v == Append(w, e)
<1>1. /\ v \in Seq(Parts) /\ Len(v) = Len(w) + 1 /\ v[Len(v)] = e /\ v # <<>>
      /\ \A i \in 1..Len(w) : v[i] = w[i]
  BY DEF Parts
<1>2. /\ Len(w) \in Nat /\ Len(w) > 0 /\ DOMAIN w = 1..Len(w) /\ DOMAIN v = 1..Len(v)
      /\ \A i \in 1..Len(w) : w[i] # "end"
  BY <1>1 DEF OneResponse, EndedOn
<1>3. \A i \in 1..Len(v) : i \in 1..Len(w) \/ i = Len(v)
  BY <1>1, <1>2
<1> HIDE DEF v
<1>4. OneResponse(v)
  <2>1. \A i \in DOMAIN v : v[i] = "head" <=> i = 1
    BY <1>1, <1>2, <1>3 DEF OneResponse
  <2>2. \A i \in DOMAIN v : v[i] = "end" => i = Len(v)
    BY <1>1, <1>2, <1>3
  <2> QED
    BY <1>1, <2>1, <2>2 DEF OneResponse
<1>5. EndedOn(v) <=> e = "end"
  BY <1>1, <1>4, EndedLast
<1> QED
  BY <1>1, <1>4, <1>5 DEF v

LEMMA ErrorResponse ==
    ASSUME NEW w, w = <<>>
    PROVE  OneResponse(SendErrorResponse(w)) /\ EndedOn(SendErrorResponse(w))
<1> DEFINE headed == Append(w, "head")
<1>1. MaySendHeaders(w)
  <2>1. {i \in DOMAIN w : w[i] = "head"} = {} /\ ~EndedOn(w)
    BY DEF EndedOn
  <2> QED
    BY <2>1, FS_EmptySet DEF MaySendHeaders, HeadsOn
<1>2. headed \in Seq(Parts) /\ OneResponse(headed) /\ ~EndedOn(headed)
  BY FirstHead
<1>3. MaySendData(headed)
  BY <1>2, OneHead DEF MaySendData
<1>4. SendErrorResponse(w) = headed \o <<"data", "end">>
  BY <1>1, <1>3 DEF SendErrorResponse
<1>5. headed \o <<"data", "end">> = Append(Append(headed, "data"), "end")
  BY <1>2
<1> HIDE DEF headed
<1>6. /\ Append(headed, "data") \in Seq(Parts) /\ OneResponse(Append(headed, "data"))
      /\ ~EndedOn(Append(headed, "data"))
  BY <1>2, LongerResponse
<1>7. OneResponse(Append(Append(headed, "data"), "end")) /\ EndedOn(Append(Append(headed, "data"), "end"))
  BY <1>6, LongerResponse
<1> QED
  BY <1>4, <1>5, <1>7

(* SendBody's piece, of any of its forms.                                  *)
LEMMA BodyResponse ==
    ASSUME Types, NEW t \in Tasks, NEW body \in BOOLEAN, NEW more \in BOOLEAN,
           SendBody(t, body, more), OneResponse(wire)
    PROVE  OneResponse(wire')
<1>1. wire \in Seq(Parts) /\ ~EndedOn(wire)
  BY DEF SendBody, MaySendData, Types, OutputTypes
<1>2. /\ Append(wire, "data") \in Seq(Parts) /\ OneResponse(Append(wire, "data"))
      /\ ~EndedOn(Append(wire, "data"))
      /\ OneResponse(Append(wire, "end"))
      /\ OneResponse(Append(Append(wire, "data"), "end"))
  BY <1>1, LongerResponse
<1>3. /\ wire \o <<"data">> \o <<>> = Append(wire, "data")
      /\ wire \o <<>> \o <<"end">> = Append(wire, "end")
      /\ wire \o <<"data">> \o <<"end">> = Append(Append(wire, "data"), "end")
  BY <1>1
<1>4. \/ wire' = wire \o <<"data">> \o <<>>
      \/ wire' = wire \o <<>> \o <<"end">>
      \/ wire' = wire \o <<"data">> \o <<"end">>
  BY DEF SendBody
<1> QED
  BY <1>2, <1>3, <1>4

LEMMA AnswerInvInit == Init => AnswerInv
<1> SUFFICES ASSUME Init PROVE ~started[1] /\ wire = <<>> /\ task[1] = "none"
  BY DEF AnswerInv
<1> QED
  BY Numbers DEF Init

(* Without trailers a request has its first task only.                     *)
LEMMA OnlyFirst ==
    ASSUME Base, kind = "request", ~Trailed
    PROVE  \A t \in Tasks : task[t] # "none" => t = 1
BY DEF Base, Types, ClientTypes, RegistryInv, OnePerHead, Trailed, Tasks

LEMMA AnswerInvStep ==
    ASSUME Base, AnswerInv, Next
    PROVE  AnswerInv'
<1> SUFFICES ASSUME kind = "request", kind' = "request", ~Trailed, ~Trailed'
             PROVE  AnswerInv'
  <2>1. kind' = kind /\ (Trailed => Trailed')
    BY KindKept, ClientTypesStep DEF Base, Trailed, Types, ClientTypes
  <2> QED
    BY <2>1 DEF AnswerInv
<1> USE Numbers DEF AnswerInv
<1>0. \A t \in Tasks : task[t] # "none" => t = 1
  BY OnlyFirst
<1>1. ASSUME UNCHANGED <<started, wire, failed>>, task'[1] = "done" <=> task[1] = "done"
      PROVE  AnswerInv'
  BY <1>1
<1>2. ASSUME NEW t \in Tasks, NEW end \in BOOLEAN, HandleRequest(t, end) PROVE AnswerInv'
  BY <1>1, <1>2 DEF HandleRequest, Create, Base, Types, StreamTypes, output
<1>3. ASSUME \/ \E piece \in 0..MaxData, end \in BOOLEAN : DataReceived(piece, end)
             \/ PutRuns
             \/ \E t \in Tasks : RunAsgi(t)
      PROVE  AnswerInv'
  BY <1>1, <1>3 DEF DataReceived, ClientSends, PutRuns, RunAsgi, Base, Types, StreamTypes, output
<1>4. ASSUME NEW t \in Tasks, Receiving(t) PROVE AnswerInv'
  <2>1. PICK q \in Tasks : ReceivesFrom(t, q)
    BY <1>4, ReceivingConsumes DEF Base
  <2> QED
    BY <1>1, <2>1 DEF ReceivesFrom, Consumes, Take, TakeLast, Wait, output, Base, Types, StreamTypes
<1>5. ASSUME NEW t \in Tasks, SendStart(t) PROVE AnswerInv'
  <2>1. t = 1 /\ task[1] = "running" /\ task' = task /\ ~started[1]
    BY <1>0, <1>5 DEF SendStart
  <2>2. wire = <<>> /\ wire' = Append(wire, "head") /\ started'[1]
    BY <1>5, <2>1 DEF SendStart, Base, Types, OutputTypes
  <2>3. OneResponse(wire')
    BY <2>2, FirstHead
  <2> QED
    BY <2>1, <2>2, <2>3
<1>6. ASSUME NEW t \in Tasks, NEW body \in BOOLEAN, NEW more \in BOOLEAN, SendBody(t, body, more)
      PROVE  AnswerInv'
  <2>1. t = 1 /\ task[1] = "running" /\ task' = task /\ started[1] /\ started' = started
    BY <1>0, <1>6 DEF SendBody
  <2>2. OneResponse(wire')
    BY <1>6, <2>1, BodyResponse DEF Base
  <2> QED
    BY <2>1, <2>2
<1>7. ASSUME NEW t \in Tasks, AppReturns(t) PROVE AnswerInv'
  <2>1. /\ t = 1 /\ task[1] = "running" /\ task'[1] = "done" /\ EndedOn(wire)
        /\ UNCHANGED <<started, wire, failed>>
    BY <1>0, <1>7 DEF AppReturns, Cleanup, output, Base, Types, StreamTypes
  <2>2. wire # <<>>
    BY <2>1 DEF EndedOn
  <2>3. OneResponse(wire)
    BY <2>1, <2>2
  <2>4. wire[Len(wire)] = "end"
    BY <2>1, <2>3, EndedLast DEF Base, Types, OutputTypes
  <2> QED
    BY <2>1, <2>3, <2>4
<1>8. ASSUME NEW t \in Tasks, AppRaises(t) PROVE AnswerInv'
  <2>1. /\ t = 1 /\ task[1] = "running" /\ task'[1] = "done" /\ wire' = SendErrorResponse(wire)
        /\ started' = started /\ 1 \in failed'
    BY <1>0, <1>8 DEF AppRaises, Cleanup, Base, Types, StreamTypes
  <2>2. CASE started[1]
    BY <2>1, <2>2
  <2>3. CASE ~started[1]
    <3>1. wire = <<>>
      BY <2>1, <2>3
    <3>2. OneResponse(wire') /\ EndedOn(wire')
      BY <2>1, <3>1, ErrorResponse
    <3>3. wire' \in Seq(Parts)
      BY OutputTypesStep DEF Base, OutputTypes
    <3>4. wire'[Len(wire')] = "end"
      BY <3>2, <3>3, EndedLast
    <3> QED
      BY <2>1, <3>2, <3>4
  <2> QED
    BY <2>2, <2>3
<1>9. /\ \A t \in Tasks, piece \in 0..MaxData, end \in BOOLEAN : ~WebsocketData(t, piece, end)
      /\ \A end \in BOOLEAN : ~WebtransportData(end)
      /\ \A t \in Tasks, end \in BOOLEAN : ~StreamSend(t, end)
      /\ \A t \in Tasks :
            /\ ~HandleWebsocketConnect(t) /\ ~HandleWebtransportStream(t)
            /\ ~SendFrame(t) /\ ~CloseStream(t) /\ ~StreamHandlerEnds(t)
      /\ ~HandleWebtransportConnect
  BY DEF HandleWebsocketConnect, WebsocketData, HandleWebtransportConnect,
         WebtransportData, HandleWebtransportStream, SendFrame, StreamSend, CloseStream,
         StreamHandlerEnds
<1> HIDE DEF AnswerInv
<1>10. ASSUME NEW t \in Tasks, Serving(t) \/ Ending(t) PROVE AnswerInv'
  BY <1>5, <1>6, <1>7, <1>8, <1>9, <1>10 DEF Serving, Ending
<1> QED
  BY <1>2, <1>3, <1>4, <1>9, <1>10, Cases

(* For any cut of the response and any number of tasks: a request whose    *)
(* task is over has been answered with one response, which is complete;    *)
(* unless the application failed in the middle of it, or there were        *)
(* trailers (_run_asgi, _create_sender, h3's checks).                      *)
THEOREM RequestIsAnsweredOnce == Spec => []AnsweredOnce
<1>1. Base /\ AnswerInv => AnsweredOnce
  <2> SUFFICES ASSUME Base, AnswerInv, kind = "request", ~Trailed, task[1] = "done",
                      ~(1 \in failed /\ started[1])
               PROVE  /\ wire # <<>> /\ wire[1] = "head" /\ HeadsOn(wire) = 1
                      /\ \A i \in DOMAIN wire : wire[i] = "end" <=> i = Len(wire)
    BY DEF AnsweredOnce
  <2>1. OneResponse(wire) /\ wire[Len(wire)] = "end" /\ wire \in Seq(Parts)
    BY DEF AnswerInv, Base, Types, OutputTypes
  <2> QED
    BY <2>1, OneHead DEF OneResponse
<1>2. AnswerInv /\ UNCHANGED vars => AnswerInv'
  BY DEF AnswerInv, Trailed, vars, client, output
<1> QED
  BY <1>1, <1>2, AnswerInvInit, AnswerInvStep, BaseInvariant, PTL DEF Spec

-----------------------------------------------------------------------------
(* The pieces of a task: those it has received, and behind them those that *)
(* lie in its queue.                                                       *)
LEMMA Counted ==
    ASSUME NEW t \in Tasks, InputTypes, queue' \in [Tasks -> Seq(Nat)],
           received' \in [Tasks -> Seq(Nat)]
    PROVE  /\ Count(t) = Len(received[t]) + Len(queue[t])
           /\ Len(received[t]) \in Nat /\ Len(queue[t]) \in Nat /\ Count(t) \in Nat
           /\ Count(t)' = Len(received'[t]) + Len(queue'[t])
           /\ Len(received'[t]) \in Nat /\ Len(queue'[t]) \in Nat /\ Count(t)' \in Nat
BY DEF InputTypes, Count

LEMMA PutPieces ==
    ASSUME InputTypes, NEW q \in Tasks, NEW piece \in Nat, PutNowait(q, piece),
           received' = received
    PROVE  /\ \A t \in Tasks : t # q => queue'[t] = queue[t] /\ Count(t)' = Count(t)
           /\ Count(q)' = Count(q) + 1 /\ Piece(q, Count(q))' = piece
           /\ queue'[q] # <<>>
           /\ \A i \in 1..Len(queue'[q]) : \/ i \in 1..Len(queue[q]) /\ queue'[q][i] = queue[q][i]
                                           \/ queue'[q][i] = piece
           /\ \A t \in Tasks : \A i \in 1..Count(t) : Piece(t, i)' = Piece(t, i)
<1>1. /\ queue[q] \in Seq(Nat) /\ queue' = [queue EXCEPT ![q] = Append(queue[q], piece)]
      /\ queue \in [Tasks -> Seq(Nat)] /\ received \in [Tasks -> Seq(Nat)]
      /\ queue' \in [Tasks -> Seq(Nat)] /\ received' \in [Tasks -> Seq(Nat)]
  BY PutTyped DEF PutNowait, InputTypes
<1>2. /\ queue'[q] = Append(queue[q], piece)
      /\ \A t \in Tasks : t # q => queue'[t] = queue[t]
  BY <1>1
<1>3. /\ Len(queue'[q]) = Len(queue[q]) + 1 /\ Len(queue[q]) \in Nat /\ Len(received[q]) \in Nat
      /\ queue'[q][Len(queue[q]) + 1] = piece /\ queue'[q] # <<>>
      /\ \A i \in 1..Len(queue[q]) : queue'[q][i] = queue[q][i]
  <2>1. \A w \in Seq(Nat) :
           /\ Len(Append(w, piece)) = Len(w) + 1 /\ Len(w) \in Nat
           /\ Append(w, piece)[Len(w) + 1] = piece /\ Append(w, piece) # <<>>
           /\ \A i \in 1..Len(w) : Append(w, piece)[i] = w[i]
    OBVIOUS
  <2>2. received[q] \in Seq(Nat)
    BY <1>1
  <2> QED
    BY <1>1, <1>2, <2>1, <2>2
<1>4. Count(q)' = Count(q) + 1 /\ Piece(q, Count(q))' = piece
  <2>1. /\ Count(q)' = Len(received[q]) + Len(queue'[q])
        /\ Count(q) = Len(received[q]) + Len(queue[q])
    BY <1>1, Counted
  <2>3. Count(q)' = Count(q) + 1
    BY <1>1, <1>3, <2>1
  <2>2. Piece(q, Count(q))' = queue'[q][Len(queue[q]) + 1]
    <3>1. ~(Count(q)' <= Len(received[q])) /\ Count(q)' - Len(received[q]) = Len(queue[q]) + 1
      BY <1>1, <1>3, <2>1
    <3> QED
      BY <3>1 DEF Piece
  <2> QED
    BY <1>3, <2>2, <2>3
<1>5. ASSUME NEW i \in 1..Count(q) PROVE Piece(q, i)' = Piece(q, i)
  <2>1. CASE i <= Len(received[q])
    BY <2>1 DEF Piece
  <2>2. CASE ~(i <= Len(received[q]))
    <3>1. i - Len(received[q]) \in 1..Len(queue[q])
      <4> DEFINE n == Len(received[q])
                 m == Len(queue[q])
                 k == Count(q)
      <4>1. n \in Nat /\ m \in Nat /\ k = n + m /\ i \in 1..k /\ ~(i <= n)
        BY <1>1, <2>2, Counted
      <4> HIDE DEF n, m, k
      <4>2. i - n \in 1..m
        BY <4>1
      <4> QED
        BY <4>2 DEF n, m
    <3> QED
      BY <1>3, <2>2, <3>1 DEF Piece
  <2> QED
    BY <2>1, <2>2
<1>6. \A t \in Tasks : t # q =>
        /\ Count(t)' = Count(t) /\ \A i \in 1..Count(t) : Piece(t, i)' = Piece(t, i)
  BY <1>2 DEF Count, Piece
<1>7. \A i \in 1..Len(queue'[q]) : \/ i \in 1..Len(queue[q]) /\ queue'[q][i] = queue[q][i]
                                   \/ queue'[q][i] = piece
  BY <1>3
<1> QED
  BY <1>2, <1>3, <1>4, <1>5, <1>6, <1>7

(* A piece that is taken by the task it was for stays that task's piece;   *)
(* the empty one disappears.                                               *)
LEMMA TakePieces ==
    ASSUME InputTypes, NEW t \in Tasks, Take(t, t)
    PROVE  /\ Head(queue[t]) = queue[t][1] /\ Len(queue[t]) \in Nat \ {0}
           /\ Head(queue[t]) # 0 =>
                /\ Len(received'[t]) = Len(received[t]) + 1 /\ Count(t)' = Count(t)
                /\ \A i \in 1..Count(t) : Piece(t, i)' = Piece(t, i)
           /\ Head(queue[t]) = 0 =>
                /\ received'[t] = received[t] /\ Count(t)' = Count(t) - 1
                /\ Len(queue'[t]) = Len(queue[t]) - 1
                /\ \A i \in 1..Len(received[t]) : Piece(t, i)' = Piece(t, i)
           /\ Tail(queue[t]) = <<>> <=> Len(queue[t]) = 1
           /\ queue'[t] = Tail(queue[t])
           /\ \A s \in Tasks : s # t => queue'[s] = queue[s] /\ received'[s] = received[s]
<1>1. /\ queue[t] \in Seq(Nat) /\ queue[t] # <<>> /\ received[t] \in Seq(Nat)
      /\ queue' = [queue EXCEPT ![t] = Tail(queue[t])]
      /\ queue \in [Tasks -> Seq(Nat)] /\ received \in [Tasks -> Seq(Nat)]
      /\ queue' \in [Tasks -> Seq(Nat)] /\ received' \in [Tasks -> Seq(Nat)]
  BY TakeTyped DEF Take, InputTypes
<1>2. /\ Head(queue[t]) = queue[t][1] /\ Len(queue[t]) \in Nat \ {0}
      /\ Head(queue[t]) \in Nat
      /\ Tail(queue[t]) \in Seq(Nat) /\ Len(Tail(queue[t])) = Len(queue[t]) - 1
      /\ \A i \in 1..(Len(queue[t]) - 1) : Tail(queue[t])[i] = queue[t][i + 1]
      /\ Tail(queue[t]) = <<>> <=> Len(queue[t]) = 1
  <2>1. \A s \in Seq(Nat) : s # <<>> =>
          /\ Head(s) = s[1] /\ Len(s) \in Nat \ {0} /\ Head(s) \in Nat
          /\ Tail(s) \in Seq(Nat) /\ Len(Tail(s)) = Len(s) - 1
          /\ \A i \in 1..(Len(s) - 1) : Tail(s)[i] = s[i + 1]
    OBVIOUS
  <2>2. \A s \in Seq(Nat) : s = <<>> <=> Len(s) = 0
    OBVIOUS
  <2> DEFINE tail == Tail(queue[t])
             m == Len(queue[t])
  <2>3. tail \in Seq(Nat) /\ Len(tail) = m - 1 /\ m \in Nat
    BY <1>1, <2>1
  <2>4. tail = <<>> <=> m = 1
    <3> HIDE DEF tail, m
    <3> QED
      BY <2>2, <2>3
  <2> QED
    BY <1>1, <2>1, <2>4
<1>3. /\ queue'[t] = Tail(queue[t])
      /\ \A s \in Tasks : s # t => queue'[s] = queue[s]
  BY <1>1
<1>4. /\ received'[t] = IF Head(queue[t]) = 0 THEN received[t]
                        ELSE Append(received[t], Head(queue[t]))
      /\ \A s \in Tasks : s # t => received'[s] = received[s]
  BY <1>1 DEF Take
<1>5. ASSUME Head(queue[t]) # 0
      PROVE  /\ Len(received'[t]) = Len(received[t]) + 1 /\ Count(t)' = Count(t)
             /\ \A i \in 1..Count(t) : Piece(t, i)' = Piece(t, i)
  <2>1. /\ Len(received'[t]) = Len(received[t]) + 1 /\ Len(received[t]) \in Nat
        /\ \A i \in 1..Len(received[t]) : received'[t][i] = received[t][i]
        /\ received'[t][Len(received[t]) + 1] = queue[t][1]
    BY <1>1, <1>2, <1>4, <1>5
  <2>2. Count(t)' = Count(t)
    <3> DEFINE n == Len(received[t])
               m == Len(queue[t])
    <3>1. n \in Nat /\ m \in Nat /\ Count(t) = n + m
      BY <1>1, Counted
    <3>2. Len(received'[t]) = n + 1 /\ Len(queue'[t]) = m - 1
      BY <1>2, <1>3, <2>1
    <3>3. Count(t)' = (n + 1) + (m - 1)
      BY <1>1, <3>2, Counted
    <3> HIDE DEF n, m
    <3> QED
      BY <3>1, <3>3
  <2>3. ASSUME NEW i \in 1..Count(t) PROVE Piece(t, i)' = Piece(t, i)
    <3>1. CASE i <= Len(received[t])
      BY <2>1, <3>1 DEF Piece, Count
    <3>2. CASE i = Len(received[t]) + 1
      BY <2>1, <3>2 DEF Piece, Count
    <3>3. CASE i > Len(received[t]) + 1
      <4>1. /\ i - Len(received'[t]) \in 1..(Len(queue[t]) - 1)
            /\ (i - Len(received'[t])) + 1 = i - Len(received[t])
        <5> DEFINE n == Len(received[t])
                   m == Len(queue[t])
                   k == Count(t)
                   o == Len(received'[t])
        <5>1. n \in Nat /\ m \in Nat /\ k = n + m /\ i \in 1..k /\ i > n + 1 /\ o = n + 1
          BY <1>1, <2>1, <3>3, Counted
        <5> HIDE DEF n, m, k, o
        <5>2. i - o \in 1..(m - 1) /\ (i - o) + 1 = i - n
          BY <5>1
        <5> QED
          BY <5>2 DEF n, m, o
      <4>2. queue'[t][i - Len(received'[t])] = queue[t][i - Len(received[t])]
        BY <1>2, <1>3, <4>1
      <4> QED
        BY <2>1, <3>3, <4>2 DEF Piece, Count
    <3> QED
      BY <2>1, <3>1, <3>2, <3>3 DEF Count
  <2> QED
    BY <2>1, <2>2, <2>3
<1>6. ASSUME Head(queue[t]) = 0
      PROVE  /\ received'[t] = received[t] /\ Count(t)' = Count(t) - 1
             /\ Len(queue'[t]) = Len(queue[t]) - 1
             /\ \A i \in 1..Len(received[t]) : Piece(t, i)' = Piece(t, i)
  <2>1. received'[t] = received[t] /\ Len(received[t]) \in Nat
    BY <1>1, <1>4, <1>6
  <2>2. Count(t)' = Count(t) - 1 /\ Len(queue'[t]) = Len(queue[t]) - 1
    <3> DEFINE n == Len(received[t])
               m == Len(queue[t])
    <3>1. n \in Nat /\ m \in Nat /\ Count(t) = n + m
      BY <1>1, Counted
    <3>2. Len(received'[t]) = n /\ Len(queue'[t]) = m - 1
      BY <1>2, <1>3, <2>1
    <3>3. Count(t)' = n + (m - 1)
      BY <1>1, <3>2, Counted
    <3> HIDE DEF n, m
    <3>4. Count(t)' = Count(t) - 1
      BY <3>1, <3>3
    <3> QED
      BY <3>2, <3>4 DEF m
  <2>3. \A i \in 1..Len(received[t]) : Piece(t, i)' = Piece(t, i)
    BY <2>1 DEF Piece
  <2> QED
    BY <2>1, <2>2, <2>3
<1> QED
  BY <1>2, <1>3, <1>4, <1>5, <1>6

-----------------------------------------------------------------------------
(* The body of a request.                                                  *)
LEMMA BodyInvInit == Init => BodyInv
<1> SUFFICES ASSUME Init, kind = "request" PROVE BodyInv
  BY DEF BodyInv
<1>1. /\ queue = [t \in Tasks |-> <<>>] /\ received = [t \in Tasks |-> <<>>]
      /\ sent = 0 /\ receiver = NoTask /\ task[1] = "none" /\ ~told[1] /\ ~ended
      /\ \A t \in Tasks : waits[t] = NoTask
  BY Numbers DEF Init
<1>2. Len(received[1]) = 0 /\ Count(1) = 0
  BY <1>1, Numbers DEF Count
<1>3. PiecesWhole
  BY <1>1, <1>2 DEF PiecesWhole, NoTask
<1>4. ZerosElsewhere
  BY <1>1 DEF ZerosElsewhere, NoTask
<1>5. Receivers /\ TellsTrue
  BY <1>1 DEF Receivers, TellsTrue, Live, Served
<1> QED
  BY <1>3, <1>4, <1>5 DEF BodyInv

LEMMA BodyKept ==
    ASSUME BodyInv,
           UNCHANGED <<kind, heads, sent, fin, receiver, ended, queue, received, waits, woken,
                       told, late>>,
           Live(1)' <=> Live(1), task'[1] = "receiving" <=> task[1] = "receiving"
    PROVE  BodyInv'
BY DEF BodyInv, PiecesWhole, ZerosElsewhere, Receivers, TellsTrue, Count, Piece, Trailed

LEMMA BodyHandleRequest ==
    ASSUME Base, BodyInv, kind = "request",
           NEW t \in Tasks, NEW end \in BOOLEAN, HandleRequest(t, end)
    PROVE  BodyInv'
<1>1. /\ kind = "request" /\ heads < 2 /\ ~fin /\ heads' = heads + 1 /\ fin' = end
      /\ receiver' = t /\ ended' = end /\ task' = [task EXCEPT ![t] = "created"]
      /\ UNCHANGED <<kind, sent, queue, received, waits, woken, told, late>>
  BY DEF HandleRequest, Create, input, app
<1>2. t = heads + 1 /\ heads \in {0, 1}
  BY <1>1, CreateFacts DEF HandleRequest, Base, Types, ClientTypes
<1>3. PiecesWhole /\ ZerosElsewhere /\ Receivers /\ TellsTrue
  BY <1>1 DEF BodyInv
<1>4. received[1] \in Seq(Nat) /\ queue[1] \in Seq(Nat) /\ sent \in Nat /\ Count(1) \in Nat
  <2>1. received[1] \in Seq(Nat) /\ queue[1] \in Seq(Nat) /\ sent \in Nat
    BY Numbers DEF Base, Types, InputTypes, ClientTypes
  <2>2. \A v, w \in Seq(Nat) : Len(v) + Len(w) \in Nat
    OBVIOUS
  <2> QED
    BY <2>1, <2>2 DEF Count
<1>5. PiecesWhole'
  <2>1. Count(1)' = Count(1) /\ \A i \in 1..Count(1) : Piece(1, i)' = Piece(1, i)
    BY <1>1 DEF Count, Piece
  <2>2. Count(1) \in Nat /\ Count(1) <= sent
    <3>1. Count(1) \in Nat
      BY <1>4
    <3> QED
      BY <1>1, <1>3, <3>1 DEF PiecesWhole
  <2>3. receiver' = 1 => Count(1) >= sent
    BY <1>1, <1>2, <1>3, <2>2 DEF PiecesWhole
  <2> QED
    BY <1>1, <1>2, <1>3, <2>1, <2>2, <2>3 DEF PiecesWhole
<1>6. ZerosElsewhere'
  BY <1>1, <1>3 DEF ZerosElsewhere
<1>7. task \in [Tasks -> States]
  BY DEF Base, Types, StreamTypes
<1>8. Receivers'
  <2>1. Trailed' <=> t = 2
    BY <1>1, <1>2 DEF Trailed
  <2>2. ~Trailed' => t = 1 /\ task'[1] = "created"
    BY <1>1, <1>2, <1>7, <2>1
  <2> QED
    BY <1>1, <1>2, <2>1, <2>2 DEF Receivers
<1>9. TellsTrue'
  BY <1>1, <1>2, <1>3 DEF TellsTrue, Trailed
<1> QED
  BY <1>5, <1>6, <1>8, <1>9 DEF BodyInv

LEMMA BodyDataReceived ==
    ASSUME Base, BodyInv, kind = "request",
           NEW piece \in 0..MaxData, NEW end \in BOOLEAN, DataReceived(piece, end)
    PROVE  BodyInv'
<1>1. /\ kind = "request" /\ heads > 0 /\ ~fin /\ fin' = end
      /\ IF piece = 0 THEN end /\ sent' = sent
         ELSE piece = sent + 1 /\ heads = 1 /\ sent' = piece
      /\ UNCHANGED <<kind, heads, task, receiver, received, waits, told, late>>
  BY DEF DataReceived, ClientSends, app
<1>2. PiecesWhole /\ ZerosElsewhere /\ Receivers /\ TellsTrue
  BY <1>1 DEF BodyInv
<1>3. received[1] \in Seq(Nat) /\ queue[1] \in Seq(Nat) /\ sent \in Nat /\ InputTypes
  BY Numbers DEF Base, Types, InputTypes, ClientTypes
<1>4. Count(1) \in Nat /\ Count(1) <= sent /\ Len(received[1]) \in Nat
  <2>1. Count(1) \in Nat /\ Len(received[1]) \in Nat
    BY <1>3, Numbers, InputTypesStep, Counted DEF Base, Types, RegistryInv, InputTypes, Next, Client
  <2> QED
    BY <1>1, <1>2, <2>1 DEF PiecesWhole
<1>5. piece \in Nat
  BY Numbers
<1>6. (Trailed' <=> Trailed) /\ (Live(1)' <=> Live(1)) /\ (piece # 0 => ~Trailed)
  BY <1>1 DEF Trailed, Live, Served
<1>7. TellsTrue'
  BY <1>1, <1>2, <1>6 DEF TellsTrue
<1>8. CASE receiver = NoTask
  <2>1. UNCHANGED <<queue, woken, ended>>
    BY <1>8 DEF DataReceived, ClientSends
  <2>2. Count(1)' = Count(1) /\ \A i \in 1..Count(1) : Piece(1, i)' = Piece(1, i)
    BY <1>1, <2>1 DEF Count, Piece
  <2>3. PiecesWhole'
    BY <1>1, <1>2, <1>3, <1>4, <1>8, <2>2 DEF PiecesWhole, NoTask
  <2>4. ZerosElsewhere'
    BY <1>1, <1>2, <2>1 DEF ZerosElsewhere
  <2>5. Receivers'
    BY <1>1, <1>2, <1>6, <1>8, <2>1 DEF Receivers, Live, Served, NoTask
  <2> QED
    BY <1>7, <2>3, <2>4, <2>5 DEF BodyInv
<1>9. CASE receiver # NoTask
  <2>1. receiver \in Tasks /\ PutNowait(receiver, piece) /\ (ended' => ended \/ end)
    BY <1>9 DEF DataReceived, ClientSends, Base, Types, StreamTypes
  <2>2. /\ \A t \in Tasks : t # receiver => queue'[t] = queue[t] /\ Count(t)' = Count(t)
        /\ Count(receiver)' = Count(receiver) + 1 /\ Piece(receiver, Count(receiver))' = piece
        /\ \A i \in 1..Len(queue'[receiver]) :
             \/ i \in 1..Len(queue[receiver]) /\ queue'[receiver][i] = queue[receiver][i]
             \/ queue'[receiver][i] = piece
        /\ \A t \in Tasks : \A i \in 1..Count(t) : Piece(t, i)' = Piece(t, i)
    BY <1>1, <1>3, <1>5, <2>1, PutPieces
  <2>3. PiecesWhole'
    <3>1. CASE receiver = 1
      <4>1. Count(1) = sent
        BY <1>2, <1>3, <1>4, <3>1 DEF PiecesWhole
      <4>2. \A i \in 1..(Count(1) + 1) : i \in 1..Count(1) \/ i = Count(1) + 1
        BY <1>4
      <4>3. \A i \in 1..(Count(1) + 1) : Piece(1, i)' = IF i <= sent' THEN i ELSE 0
        BY <1>1, <1>2, <1>3, <1>4, <2>2, <3>1, <4>1, <4>2, Numbers DEF PiecesWhole
      <4> QED
        BY <1>1, <1>2, <1>3, <1>4, <2>2, <3>1, <4>1, <4>3 DEF PiecesWhole
    <3>2. CASE receiver # 1
      <4>1. Count(1)' = Count(1) /\ sent' = sent
        BY <1>1, <1>2, <1>6, <1>9, <2>2, <3>2, Numbers DEF Receivers
      <4> QED
        BY <1>1, <1>2, <1>3, <1>4, <2>2, <3>2, <4>1, Numbers DEF PiecesWhole
    <3> QED
      BY <3>1, <3>2
  <2>4. ZerosElsewhere'
    <3>1. receiver # 1 => piece = 0
      BY <1>2, <1>6, <1>9 DEF Receivers
    <3>2. /\ queue' \in [Tasks -> Seq(Nat)] /\ queue \in [Tasks -> Seq(Nat)]
      BY <1>3, <1>5, <2>1, PutTyped DEF InputTypes
    <3>3. ASSUME NEW t \in Tasks \ {1}, NEW i \in DOMAIN queue'[t] PROVE queue'[t][i] = 0
      <4>1. i \in 1..Len(queue'[t])
        BY <3>2
      <4>2. \A j \in 1..Len(queue[t]) : queue[t][j] = 0
        BY <1>2, <3>2 DEF ZerosElsewhere
      <4>3. CASE t = receiver
        BY <2>2, <3>1, <4>1, <4>2, <4>3
      <4>4. CASE t # receiver
        BY <2>2, <4>1, <4>2, <4>4
      <4> QED
        BY <4>3, <4>4
    <3> QED
      BY <1>1, <1>2, <3>3 DEF ZerosElsewhere
  <2>5. Receivers'
    <3>1. /\ receiver' # NoTask => (receiver' = 1 <=> ~Trailed')
          /\ ended' => fin'
          /\ ~Trailed' /\ Live(1)' => receiver' = 1
      BY <1>1, <1>2, <1>6, <2>1 DEF Receivers
    <3>2. ASSUME ~Trailed', task'[1] = "receiving"
          PROVE  waits'[1] = 1 /\ woken'[1]
      <4>1. receiver = 1 /\ waits[1] = 1 /\ \A t \in Tasks : waits[t] = 1 => t = 1
        BY <1>1, <1>2, <1>6, <1>9, <3>2 DEF Receivers, ZerosElsewhere
      <4> DEFINE waiting == {t \in Tasks : waits[t] = 1 /\ ~woken[t]}
      <4>2. IF waiting = {} THEN UNCHANGED woken
            ELSE \E t \in waiting : woken' = [woken EXCEPT ![t] = TRUE]
        BY <2>1, <4>1 DEF PutNowait
      <4>3. CASE woken[1]
        <5>1. waiting = {}
          BY <4>1, <4>3
        <5> QED
          BY <1>1, <4>1, <4>2, <4>3, <5>1
      <4>4. CASE ~woken[1]
        <5>1. waiting = {1}
          BY <4>1, <4>4, Numbers
        <5>2. woken' = [woken EXCEPT ![1] = TRUE]
          BY <4>2, <5>1
        <5> QED
          BY <1>1, <1>3, <4>1, <5>2, Numbers DEF InputTypes
      <4> QED
        BY <4>3, <4>4
    <3> QED
      BY <3>1, <3>2 DEF Receivers
  <2> QED
    BY <1>7, <2>3, <2>4, <2>5 DEF BodyInv
<1> QED
  BY <1>8, <1>9

LEMMA TailIsOther == \A w \in Seq(Nat) : w # <<>> => Tail(w) # w
<1>1. \A w \in Seq(Nat) : w # <<>> => Len(Tail(w)) = Len(w) - 1 /\ Len(w) \in Nat
  OBVIOUS
<1> QED
  BY <1>1

(* Which queue a request's receive() has to do with, and what it tells.    *)
LEMMA ReceivingRequest ==
    ASSUME Base, BodyInv, kind = "request", NEW t \in Tasks, Receiving(t)
    PROVE  \E q \in Tasks :
             /\ ReceivesFrom(t, q)
             /\ t # 1 => q # 1
             /\ ~Trailed => t = 1 /\ q = 1
             /\ late => late'
             /\ TakeLast(t) /\ ~late' /\ ~Trailed => ended /\ queue[1] = <<>>
<1>1. ZerosElsewhere /\ Receivers
  BY DEF BodyInv
<1>2. task[t] \in {"running", "receiving"}
  BY ReceivingConsumes DEF Base, ReceivesFrom
<1>3. ~Trailed => t = 1 /\ receiver = 1
  <2>1. ~Trailed => t = 1
    BY <1>2, OnlyFirst
  <2> QED
    BY <1>1, <1>2, <2>1 DEF Receivers, Live, Served
<1>4. t # 1 => receiver # 1
  BY <1>1, <1>3 DEF Receivers, NoTask
<1>5. CASE Receive(t)
  <2>1. CASE receiver = NoTask
    <3>1. TakeLast(t) /\ Trailed /\ late' = late
      BY <1>3, <1>5, <2>1 DEF Receive, NoTask
    <3>2. \E q \in Tasks : (t # 1 => q # 1)
      OBVIOUS
    <3>3. \A q \in Tasks : ReceivesFrom(t, q)
      BY <1>2, <1>5, <3>1 DEF Receive, ReceivesFrom, Consumes, Base, Types, InputTypes
    <3> QED
      BY <3>1, <3>2, <3>3
  <2>2. CASE receiver # NoTask
    <3>1. receiver \in Tasks
      BY <2>2 DEF Base, Types, StreamTypes
    <3>2. ReceivesFrom(t, receiver) /\ late' = late
      BY <1>2, <1>5, <2>2 DEF Receive, ReceivesFrom, Consumes, Base, Types, InputTypes
    <3>3. TakeLast(t) => (ended /\ queue[receiver] = <<>>) \/ Take(t, receiver) \/ Wait(t, receiver)
      BY <1>5, <2>2 DEF Receive
    <3>4. TakeLast(t) => ~Take(t, receiver) /\ ~Wait(t, receiver)
      <4>1. queue[receiver] \in Seq(Nat) /\ queue \in [Tasks -> Seq(Nat)]
        BY <3>1 DEF Base, Types, InputTypes
      <4>2. queue[receiver] # <<>> => Tail(queue[receiver]) # queue[receiver]
        BY <4>1, TailIsOther
      <4>3. ASSUME TakeLast(t), Take(t, receiver) PROVE FALSE
        BY <3>1, <4>1, <4>2, <4>3 DEF TakeLast, Take
      <4>4. ASSUME TakeLast(t), Wait(t, receiver) PROVE FALSE
        BY <4>4 DEF TakeLast, Wait, Base, Types, StreamTypes
      <4> QED
        BY <4>3, <4>4
    <3>5. TakeLast(t) /\ ~Trailed => ended /\ queue[1] = <<>>
      BY <1>3, <3>3, <3>4
    <3> QED
      BY <1>3, <1>4, <3>1, <3>2, <3>5
  <2> QED
    BY <2>1, <2>2
<1>6. CASE GetReturns(t) \/ GetTimesOut(t)
  <2>1. waits[t] \in Tasks /\ task[t] = "receiving"
    BY <1>6 DEF GetReturns, GetTimesOut, Base, RequestQueues
  <2>2. /\ t # 1 => waits[t] # 1
        /\ ~Trailed => waits[t] = 1 /\ (woken[1] \/ queue[1] = <<>>)
    BY <1>1, <1>3, <2>1 DEF Receivers, ZerosElsewhere
  <2>3. ReceivesFrom(t, waits[t])
    BY <1>6, <2>1 DEF GetReturns, GetTimesOut, ReceivesFrom, Consumes, Base, Types, InputTypes
  <2>4. late => late'
    BY <1>6 DEF GetReturns, GetTimesOut
  <2>5. ASSUME TakeLast(t), ~late', ~Trailed PROVE ended /\ queue[1] = <<>>
    <3>1. \A q \in Tasks : ~Take(t, q) /\ ~Wait(t, q)
      <4>1. ASSUME NEW q \in Tasks, Take(t, q) PROVE FALSE
        <5>1. queue[q] \in Seq(Nat) /\ queue \in [Tasks -> Seq(Nat)]
          BY DEF Base, Types, InputTypes
        <5>2. queue[q] # <<>> => Tail(queue[q]) # queue[q]
          BY <5>1, TailIsOther
        <5> QED
          BY <2>5, <4>1, <5>1, <5>2 DEF TakeLast, Take
      <4>2. ASSUME NEW q \in Tasks, Wait(t, q) PROVE FALSE
        BY <2>5, <4>2 DEF TakeLast, Wait, Base, Types, StreamTypes
      <4> QED
        BY <4>1, <4>2
    <3>2. GetTimesOut(t) /\ ended
      BY <1>6, <2>1, <3>1 DEF GetReturns, GetTimesOut
    <3>3. ~woken[1]
      BY <1>3, <2>5, <3>2 DEF GetTimesOut
    <3> QED
      BY <2>2, <2>5, <3>2, <3>3
  <2> QED
    BY <1>3, <2>1, <2>2, <2>3, <2>4, <2>5
<1>7. CASE StreamReceive(t) \/ StreamGetReturns(t)
  BY <1>7 DEF StreamReceive, StreamGetReturns
<1> QED
  BY <1>5, <1>6, <1>7 DEF Receiving

(* What taking a piece does to the body.                                   *)
LEMMA BodyTakes ==
    ASSUME Base, PiecesWhole, Take(1, 1),
           InputTypes', UNCHANGED <<heads, sent, fin, receiver>>
    PROVE  /\ PiecesWhole'
           /\ Len(received'[1]) >= Len(received[1])
           /\ receiver = 1 /\ Tail(queue[1]) = <<>> => Len(received'[1]) = sent
<1> DEFINE n == Len(received[1])
           m == Len(queue[1])
           k == Count(1)
<1>1. InputTypes /\ sent \in Nat /\ 1 \in Tasks
  BY Numbers DEF Base, Types, ClientTypes
<1>2. /\ k = n + m /\ n \in Nat /\ m \in Nat \ {0} /\ k \in Nat
      /\ Head(queue[1]) = queue[1][1]
      /\ Tail(queue[1]) = <<>> <=> m = 1
  BY <1>1, Counted, TakePieces DEF InputTypes
<1>3. Piece(1, n + 1) = queue[1][1]
  <2>1. ~(n + 1 <= n) /\ (n + 1) - n = 1
    BY <1>2
  <2> QED
    BY <2>1 DEF Piece
<1>4. /\ n <= sent /\ k <= sent + 1 /\ (~fin => k <= sent) /\ (receiver = 1 => k >= sent)
      /\ \A i \in 1..k : Piece(1, i) = IF i <= sent THEN i ELSE 0
  BY DEF PiecesWhole
<1>5. Head(queue[1]) = IF n + 1 <= sent THEN n + 1 ELSE 0
  <2>1. n + 1 \in 1..k
    <3> HIDE DEF n, m, k
    <3> QED
      BY <1>2
  <2> QED
    BY <1>2, <1>3, <1>4, <2>1
<1>6. CASE Head(queue[1]) # 0
  <2>1. /\ Len(received'[1]) = n + 1 /\ Count(1)' = k
        /\ \A i \in 1..k : Piece(1, i)' = Piece(1, i)
    BY <1>1, <1>6, TakePieces
  <2>2. n + 1 <= sent
    BY <1>5, <1>6
  <2>3. Len(received'[1]) <= sent /\ Len(received'[1]) >= n
    <3> HIDE DEF n, m, k
    <3> QED
      BY <1>2, <2>1, <2>2
  <2>4. m = 1 /\ k >= sent => n + 1 = sent
    <3> HIDE DEF n, m, k
    <3> QED
      BY <1>1, <1>2, <1>4, <2>2
  <2>5. PiecesWhole'
    BY <1>4, <2>1, <2>3 DEF PiecesWhole
  <2> QED
    BY <1>2, <1>4, <2>1, <2>3, <2>4, <2>5
<1>7. CASE Head(queue[1]) = 0
  <2>1. /\ received'[1] = received[1] /\ Count(1)' = k - 1
        /\ \A i \in 1..n : Piece(1, i)' = Piece(1, i)
    BY <1>1, <1>7, TakePieces
  <2>2. n = sent /\ m = 1
    <3>1. ~(n + 1 <= sent)
      <4> HIDE DEF n, m, k
      <4> QED
        BY <1>2, <1>5, <1>7
    <3> HIDE DEF n, m, k
    <3> QED
      BY <1>1, <1>2, <1>4, <3>1
  <2>3. k - 1 = n
    <3> HIDE DEF n, m, k
    <3> QED
      BY <1>2, <2>2
  <2>4. \A i \in 1..n : Piece(1, i)' = IF i <= sent THEN i ELSE 0
    <3>1. \A i \in 1..n : i \in 1..k
      <4> HIDE DEF n, m, k
      <4> QED
        BY <1>2
    <3> QED
      BY <1>4, <2>1, <3>1
  <2>5. heads = 0 => sent = 0
    BY DEF PiecesWhole
  <2>6. PiecesWhole'
    <3>1. Count(1)' = n /\ Len(received'[1]) = n
      BY <2>1, <2>3
    <3>2. n <= sent /\ n <= sent + 1 /\ n >= sent
      <4> HIDE DEF n, m, k
      <4> QED
        BY <1>1, <2>2
    <3> HIDE DEF n, m, k
    <3> QED
      BY <2>4, <2>5, <3>1, <3>2 DEF PiecesWhole
  <2>7. Len(received'[1]) = n /\ n >= n /\ n = sent
    <3>1. Len(received'[1]) = n
      BY <2>1
    <3> HIDE DEF n, m, k
    <3> QED
      BY <1>2, <2>2, <3>1
  <2> QED
    BY <2>6, <2>7
<1> QED
  BY <1>6, <1>7

LEMMA BodyReceiving ==
    ASSUME Base, BodyInv, kind = "request", NEW t \in Tasks, Receiving(t)
    PROVE  BodyInv'
<1>1. PICK q \in Tasks :
        /\ ReceivesFrom(t, q)
        /\ t # 1 => q # 1
        /\ ~Trailed => t = 1 /\ q = 1
        /\ late => late'
        /\ TakeLast(t) /\ ~late' /\ ~Trailed => ended /\ queue[1] = <<>>
  BY ReceivingRequest
<1>2. /\ UNCHANGED <<kind, heads, sent, fin, receiver, ended>>
      /\ Take(t, q) \/ TakeLast(t) \/ Wait(t, q)
  BY <1>1 DEF ReceivesFrom, Consumes, client, stream
<1>3. PiecesWhole /\ ZerosElsewhere /\ Receivers /\ TellsTrue
  BY DEF BodyInv
<1>4. /\ InputTypes /\ StreamTypes /\ sent \in Nat /\ 1 \in Tasks
      /\ received \in [Tasks -> Seq(Nat)] /\ queue \in [Tasks -> Seq(Nat)]
  BY Numbers DEF Base, Types, InputTypes, ClientTypes
<1>5. InputTypes'
  <2>1. Next
    BY DEF Receiving, Next, Loop, Application
  <2> QED
    BY <2>1, InputTypesStep DEF Base
<1>6. (Trailed' <=> Trailed) /\ (Live(1)' <=> Live(1))
  BY <1>1, <1>2, <1>4 DEF Trailed, Live, Served, Take, TakeLast, Wait, ReceivesFrom, StreamTypes
<1>7. ZerosElsewhere'
  <2>1. ASSUME NEW s \in Tasks \ {1} PROVE waits'[s] # 1
    BY <1>1, <1>2, <1>3, <1>4
       DEF Take, TakeLast, Wait, ZerosElsewhere, InputTypes, NoTask
  <2>2. ASSUME NEW s \in Tasks \ {1} PROVE \A i \in DOMAIN queue'[s] : queue'[s][i] = 0
    <3>1. CASE queue'[s] = queue[s]
      BY <1>3, <3>1 DEF ZerosElsewhere
    <3>2. CASE queue'[s] # queue[s]
      <4>1. Take(t, q) /\ q = s /\ queue[s] # <<>> /\ queue'[s] = Tail(queue[s])
        BY <1>2, <1>4, <3>2 DEF Take, TakeLast, Wait
      <4>2. \A w \in Seq(Nat) : w # <<>> =>
              \A i \in DOMAIN Tail(w) : i + 1 \in DOMAIN w /\ Tail(w)[i] = w[i + 1]
        OBVIOUS
      <4> QED
        BY <1>3, <1>4, <4>1, <4>2 DEF ZerosElsewhere
    <3> QED
      BY <3>1, <3>2
  <2> QED
    BY <2>1, <2>2 DEF ZerosElsewhere
<1>8. Receivers'
  <2>1. ASSUME ~Trailed, task'[1] = "receiving" PROVE waits'[1] = 1 /\ queue'[1] = <<>>
    <3>1. Wait(1, 1)
      BY <1>1, <1>2, <1>4, <2>1 DEF Take, TakeLast, StreamTypes
    <3>2. queue[1] = <<>>
      <4>1. /\ kind = "request" /\ t = 1
        BY <1>1, <2>1
      <4>2. /\ waits' = [waits EXCEPT ![1] = 1] /\ task' = [task EXCEPT ![1] = "receiving"]
            /\ UNCHANGED <<queue, app>>
        BY <3>1 DEF Wait
      <4>3. \A r \in Tasks : ~Take(1, r) /\ ~TakeLast(1)
        BY <1>4, <4>2 DEF Take, TakeLast, StreamTypes
      <4>4. \/ \E r \in Tasks : queue[r] = <<>> /\ Wait(1, r)
        <5>1. CASE Receive(t)
          BY <1>4, <4>1, <4>3, <5>1 DEF Receive, StreamTypes, NoTask
        <5>2. CASE GetReturns(t) \/ GetTimesOut(t)
          <6>1. waits[1] \in Tasks
            BY <4>1, <5>2 DEF GetReturns, GetTimesOut, Base, RequestQueues
          <6> QED
            BY <4>1, <4>3, <5>2, <6>1 DEF GetReturns, GetTimesOut
        <5>3. CASE StreamReceive(t) \/ StreamGetReturns(t)
          BY <5>3 DEF StreamReceive, StreamGetReturns
        <5> QED
          BY <5>1, <5>2, <5>3 DEF Receiving
      <4>5. PICK r \in Tasks : queue[r] = <<>> /\ Wait(1, r)
        BY <4>4
      <4>6. r = 1
        BY <1>4, <4>2, <4>5 DEF Wait, InputTypes
      <4> QED
        BY <4>5, <4>6
    <3> QED
      BY <1>4, <3>1, <3>2 DEF Wait, InputTypes
  <2> QED
    BY <1>2, <1>3, <1>6, <2>1 DEF Receivers
<1>9. CASE Take(t, q) /\ q = 1
  <2>1. t = 1
    BY <1>1, <1>9
  <2>2. /\ PiecesWhole'
        /\ Len(received'[1]) >= Len(received[1])
        /\ receiver = 1 /\ Tail(queue[1]) = <<>> => Len(received'[1]) = sent
    BY <1>2, <1>3, <1>5, <1>9, <2>1, BodyTakes
  <2>3. TellsTrue'
    <3>1. SUFFICES ASSUME told'[1], ~late', ~Trailed' PROVE fin' /\ Len(received'[1]) = sent'
      BY DEF TellsTrue
    <3>2. ~late /\ ~Trailed
      BY <1>1, <1>6, <3>1
    <3>3. told[1] \/ (ended /\ Tail(queue[1]) = <<>>)
      BY <1>4, <1>9, <2>1, <3>1 DEF Take, InputTypes
    <3>4. CASE told[1]
      <4>1. fin /\ Len(received[1]) = sent
        BY <1>3, <3>2, <3>4 DEF TellsTrue
      <4>2. Len(received'[1]) <= sent' /\ sent' = sent
        BY <1>2, <2>2 DEF PiecesWhole
      <4>3. Len(received'[1]) \in Nat
        BY <1>4, <1>5 DEF InputTypes
      <4> DEFINE n == Len(received'[1])
      <4>4. n >= sent /\ n <= sent /\ n \in Nat
        BY <2>2, <4>1, <4>2, <4>3
      <4> HIDE DEF n
      <4>5. n = sent
        BY <1>4, <4>4
      <4> QED
        BY <1>2, <4>1, <4>5 DEF n
    <3>5. CASE ended /\ Tail(queue[1]) = <<>>
      <4>1. Live(1)
        BY <1>1, <2>1 DEF ReceivesFrom, Live, Served
      <4>2. fin /\ receiver = 1
        BY <1>3, <3>2, <3>5, <4>1 DEF Receivers
      <4> QED
        BY <1>2, <2>2, <3>5, <4>2
    <3> QED
      BY <3>3, <3>4, <3>5
  <2> QED
    BY <1>7, <1>8, <2>2, <2>3 DEF BodyInv
<1>10. CASE ~(Take(t, q) /\ q = 1)
  <2>1. queue'[1] = queue[1] /\ received'[1] = received[1]
    <3>1. CASE Take(t, q)
      <4>1. q # 1
        BY <1>10, <3>1
      <4>2. Head(queue[q]) = 0
        <5>1. queue[q] \in Seq(Nat) /\ queue[q] # <<>>
          BY <1>4, <3>1 DEF Take
        <5>2. 1 \in DOMAIN queue[q] /\ Head(queue[q]) = queue[q][1]
          BY <5>1
        <5> QED
          BY <1>3, <4>1, <5>2 DEF ZerosElsewhere
      <4> QED
        BY <1>4, <3>1, <4>1, <4>2 DEF Take
    <3>2. CASE TakeLast(t) \/ Wait(t, q)
      BY <3>2 DEF TakeLast, Wait, app
    <3> QED
      BY <1>2, <3>1, <3>2
  <2>2. PiecesWhole'
    BY <1>2, <1>3, <2>1 DEF PiecesWhole, Count, Piece
  <2>3. TellsTrue'
    <3>1. SUFFICES ASSUME told'[1], ~late', ~Trailed' PROVE fin' /\ Len(received'[1]) = sent'
      BY DEF TellsTrue
    <3>2. ~late /\ ~Trailed /\ t = 1 /\ q = 1
      BY <1>1, <1>6, <3>1
    <3>3. CASE told[1]
      BY <1>2, <1>3, <2>1, <3>2, <3>3 DEF TellsTrue
    <3>4. CASE ~told[1]
      <4>1. TakeLast(t)
        BY <1>2, <1>10, <3>1, <3>2, <3>4 DEF Wait, app
      <4>2. ended /\ queue[1] = <<>>
        BY <1>1, <3>1, <3>2, <4>1
      <4>3. fin /\ receiver = 1
        BY <1>1, <1>3, <3>2, <4>2 DEF Receivers, ReceivesFrom, Live, Served
      <4> DEFINE n == Len(received[1])
                 k == Count(1)
      <4>4. k >= sent /\ n <= sent
        BY <1>3, <4>3 DEF PiecesWhole
      <4>5. k = n + 0 /\ n \in Nat
        <5>1. Len(queue[1]) = 0
          BY <4>2
        <5>2. k = n + Len(queue[1]) /\ n \in Nat
          BY <1>4, <1>5, Counted DEF InputTypes
        <5> QED
          BY <5>1, <5>2
      <4>6. n = sent
        <5> HIDE DEF n, k
        <5> QED
          BY <1>4, <4>4, <4>5
      <4> QED
        BY <1>2, <2>1, <4>3, <4>6
    <3> QED
      BY <3>3, <3>4
  <2> QED
    BY <1>7, <1>8, <2>2, <2>3 DEF BodyInv
<1> QED
  BY <1>9, <1>10

LEMMA BodyInvStep ==
    ASSUME Base, BodyInv, Next
    PROVE  BodyInv'
<1> SUFFICES ASSUME kind = "request" PROVE BodyInv'
  BY KindKept DEF BodyInv, Base
<1>1. ASSUME NEW t \in Tasks, NEW end \in BOOLEAN, HandleRequest(t, end) PROVE BodyInv'
  BY <1>1, BodyHandleRequest
<1>2. ASSUME NEW piece \in 0..MaxData, NEW end \in BOOLEAN, DataReceived(piece, end)
      PROVE  BodyInv'
  BY <1>2, BodyDataReceived
<1>3. /\ \A t \in Tasks, piece \in 0..MaxData, end \in BOOLEAN : ~WebsocketData(t, piece, end)
      /\ \A end \in BOOLEAN : ~WebtransportData(end)
      /\ \A t \in Tasks :
            ~HandleWebsocketConnect(t) /\ ~CloseStream(t) /\ ~HandleWebtransportStream(t)
      /\ ~HandleWebtransportConnect
  BY DEF HandleWebsocketConnect, WebsocketData, CloseStream, HandleWebtransportConnect,
         WebtransportData, HandleWebtransportStream
<1>4. ~PutRuns
  BY DEF PutRuns, Base, RequestQueues
<1>5. ASSUME NEW t \in Tasks, RunAsgi(t) PROVE BodyInv'
  BY <1>5, BodyKept DEF RunAsgi, Live, Served, client, stream, input, app, Base, Types, StreamTypes
<1>6. ASSUME NEW t \in Tasks, Receiving(t) PROVE BodyInv'
  BY <1>6, BodyReceiving
<1>7. ASSUME NEW t \in Tasks, Serving(t) PROVE BodyInv'
  <2>1. UNCHANGED <<kind, client, task, stream, queue, puts, initial, waits, woken, app, late, missed>>
    BY <1>7, ServingFacts
  <2> QED
    BY <2>1, BodyKept DEF Live, Served, client, stream, app
<1>8. ASSUME NEW t \in Tasks, Ending(t) PROVE BodyInv'
  <2>1. /\ UNCHANGED <<kind, heads, sent, fin, queue, received, waits, woken, told, late>>
        /\ task' = [task EXCEPT ![t] = "done"] /\ receiver' = NoTask /\ ended' = FALSE
        /\ Live(t)
    BY <1>8, EndingFacts DEF Cleanup, client, input, app
  <2>2. PiecesWhole /\ ZerosElsewhere /\ Receivers /\ TellsTrue
    BY DEF BodyInv
  <2>3. PiecesWhole'
    <3>1. Count(1)' = Count(1) /\ \A i \in 1..Count(1) : Piece(1, i)' = Piece(1, i)
      BY <2>1 DEF Count, Piece
    <3>2. receiver' # 1
      BY <2>1 DEF NoTask
    <3> QED
      BY <2>1, <2>2, <3>1, <3>2 DEF PiecesWhole
  <2>4. ZerosElsewhere' /\ TellsTrue'
    BY <2>1, <2>2 DEF ZerosElsewhere, TellsTrue, Trailed
  <2>5. ~Trailed => t = 1
    BY <2>1, OnlyFirst DEF Live, Served
  <2>6. ~Trailed' => task'[1] = "done"
    BY <2>1, <2>5 DEF Trailed, Base, Types, StreamTypes
  <2>7. Receivers'
    BY <2>1, <2>6 DEF Receivers, Live, Served
  <2> QED
    BY <2>3, <2>4, <2>7 DEF BodyInv
<1> QED
  BY <1>1, <1>2, <1>3, <1>4, <1>5, <1>6, <1>7, <1>8, Cases

(* For any number of pieces and tasks: an application is told that its     *)
(* body is complete only when it has got every piece the client sent, in   *)
(* order, whatever the timing of polls and datagrams; unless a poll times  *)
(* out in the very turn in which its data came, or trailers have replaced  *)
(* the queue (receive, _handle_request).                                   *)
THEOREM BodyIsWhole == Spec => []WholeBody
<1>1. Base /\ BodyInv => WholeBody
  <2> SUFFICES ASSUME Base, BodyInv, kind = "request" PROVE WholeBody
    BY DEF WholeBody
  <2>1. PiecesWhole /\ TellsTrue
    BY DEF BodyInv
  <2>2. /\ received \in [Tasks -> Seq(Nat)] /\ queue \in [Tasks -> Seq(Nat)] /\ sent \in Nat
        /\ 1 \in Tasks
    BY Numbers DEF Base, Types, InputTypes, ClientTypes
  <2>3. ASSUME NEW i \in DOMAIN received[1] PROVE received[1][i] = i
    <3> DEFINE n == Len(received[1])
               m == Len(queue[1])
               k == Count(1)
    <3>1. i \in 1..n /\ n \in Nat /\ m \in Nat /\ k = n + m
      BY <2>2 DEF Count
    <3>2. Piece(1, i) = received[1][i]
      BY <3>1 DEF Piece
    <3>3. n <= sent /\ \A j \in 1..k : Piece(1, j) = IF j <= sent THEN j ELSE 0
      BY <2>1 DEF PiecesWhole
    <3>4. i \in 1..k /\ i <= sent
      <4> HIDE DEF n, m, k
      <4> QED
        BY <2>2, <3>1, <3>3
    <3> QED
      BY <3>2, <3>3, <3>4
  <2> QED
    BY <2>1, <2>3 DEF WholeBody, TellsTrue
<1>2. BodyInv /\ UNCHANGED vars => BodyInv'
  BY BodyKept DEF Live, Served, vars, client, stream, input, app
<1> QED
  BY <1>1, <1>2, BodyInvInit, BodyInvStep, BaseInvariant, PTL DEF Spec

-----------------------------------------------------------------------------
(* WebTransport streams.                                                   *)
LEMMA StreamInvInit == Init => StreamInv
<1> SUFFICES ASSUME Init, kind = "webtransport"
             PROVE  /\ ReceiverLast /\ PiecesInOrder /\ TasksApart /\ PutsInOrder
                    /\ NothingMissed
  BY DEF StreamInv
<1>1. /\ queue = [t \in Tasks |-> <<>>] /\ received = [t \in Tasks |-> <<>>]
      /\ task = [t \in Tasks |-> "none"] /\ puts = <<>>
      /\ handler = NoTask /\ receiver = NoTask
  BY DEF Init
<1>2. \A t \in Tasks : Count(t) = 0 /\ ~Queued(t) /\ task[t] = "none"
  BY <1>1 DEF Count, Queued
<1>3. \A t \in Tasks : 1..Count(t) = {}
  BY <1>2
<1>4. DOMAIN puts = {}
  BY <1>1
<1>5. ReceiverLast
  BY <1>1 DEF ReceiverLast
<1>6. PiecesInOrder /\ TasksApart
  BY <1>2, <1>3 DEF PiecesInOrder, TasksApart
<1>7. PutsInOrder
  BY <1>4 DEF PutsInOrder
<1>8. NothingMissed
  <2>1. \A t \in Tasks : receiver # t /\ task[t] # "created"
    BY <1>1, <1>2, Numbers
  <2> QED
    BY <1>3, <1>4, <2>1 DEF NothingMissed
<1> QED
  BY <1>5, <1>6, <1>7, <1>8

(* Steps that give no task a new piece, and leave the tasks in place.      *)
LEMMA StreamKept ==
    ASSUME StreamInv, UNCHANGED <<kind, sent, puts, initial, missed>>,
           \/ UNCHANGED <<handler, receiver>>
           \/ handler' = NoTask /\ receiver' = NoTask,
           \A t \in Tasks :
              /\ task'[t] = "none" <=> task[t] = "none"
              /\ task'[t] = "created" <=> task[t] = "created"
              /\ Queued(t)' <=> Queued(t)
              /\ Count(t)' = Count(t)
              /\ \A i \in 1..Count(t) : Piece(t, i)' = Piece(t, i),
           puts \in Seq(Tasks \X Nat), receiver \in Tasks \cup {NoTask}
    PROVE  StreamInv'
<1> SUFFICES ASSUME kind = "webtransport"
             PROVE  /\ ReceiverLast' /\ PiecesInOrder' /\ TasksApart' /\ PutsInOrder'
                    /\ NothingMissed'
  BY DEF StreamInv
<1>1. ReceiverLast /\ PiecesInOrder /\ TasksApart /\ PutsInOrder /\ NothingMissed
  BY DEF StreamInv
<1>2. \A j \in DOMAIN puts : puts[j][1] \in Tasks
  OBVIOUS
<1>3. ReceiverLast'
  BY <1>1 DEF ReceiverLast
<1>4. PiecesInOrder'
  BY <1>1 DEF PiecesInOrder
<1>5. TasksApart'
  BY <1>1 DEF TasksApart
<1>6. PutsInOrder'
  BY <1>1, <1>2 DEF PutsInOrder
<1>7. NothingMissed'
  <2> SUFFICES ASSUME ~missed PROVE NothingMissed'
    BY DEF NothingMissed
  <2>1. \A t \in Tasks : receiver' = t => receiver = t
    BY Numbers
  <2> QED
    BY <1>1, <1>2, <2>1 DEF NothingMissed
<1> QED
  BY <1>3, <1>4, <1>5, <1>6, <1>7

(* Data that starts a task.                                                *)
LEMMA StreamStarts ==
    ASSUME Base, StreamInv, NEW end \in BOOLEAN, WebtransportData(end), handler = NoTask
    PROVE  StreamInv'
<1>1. PICK t \in Tasks :
        /\ Create(t, "created") /\ initial' = [initial EXCEPT ![t] = sent + 1]
        /\ UNCHANGED <<puts, missed>>
  BY DEF WebtransportData
<1>2. /\ kind = "webtransport" /\ sent' = sent + 1 /\ handler' = t
      /\ task' = [task EXCEPT ![t] = "created"]
      /\ UNCHANGED <<kind, receiver, queue, received>>
  BY <1>1 DEF WebtransportData, Create, app
<1>3. ReceiverLast /\ PiecesInOrder /\ TasksApart /\ PutsInOrder /\ NothingMissed
  BY <1>2 DEF StreamInv
<1>4. /\ sent \in Nat /\ initial \in [Tasks -> Nat] /\ task \in [Tasks -> States]
      /\ puts \in Seq(Tasks \X Nat) /\ Tasks \subseteq Nat
  BY Numbers DEF Base, Types, ClientTypes, StreamTypes, InputTypes
<1>5. /\ task[t] = "none" /\ \A s \in Tasks : s < t <=> task[s] # "none"
  BY <1>1, CreateFacts DEF Base, Create
<1>6. receiver = NoTask /\ \A s \in Tasks : task[s] # "created"
  <2>1. ~Trailed /\ receiver = NoTask
    <3>1. ~Trailed /\ handler = NoTask
      BY <1>2 DEF Base, RegistryInv, NoHeaders, Trailed, WebtransportData
    <3>2. receiver # NoTask => receiver \in Tasks /\ Live(receiver)
      BY DEF Base, RegistryInv, Registered, Types, StreamTypes, Live
    <3>3. \A s \in Tasks : s # NoTask
      BY Numbers
    <3> QED
      BY <3>1, <3>2, <3>3 DEF Base, RegistryInv, Registered
  <2>2. \A s \in Tasks : ~Live(s)
    BY <2>1, Numbers DEF Base, RegistryInv, Registered
  <2> QED
    BY <2>1, <2>2 DEF Live, Served
<1>7. /\ initial'[t] = sent + 1 /\ task'[t] = "created"
      /\ \A s \in Tasks : s # t => initial'[s] = initial[s] /\ task'[s] = task[s]
  BY <1>1, <1>2, <1>4
<1>8. \A s \in Tasks :
        /\ Count(s)' = Count(s) /\ (Queued(s)' <=> Queued(s))
        /\ \A i \in 1..Count(s) : Piece(s, i)' = Piece(s, i)
  BY <1>2, <1>5, <1>7 DEF Count, Piece, Queued
<1>9. Count(t) = 0 /\ 1..Count(t) = {} /\ ~Queued(t)
  <2>1. ~Queued(t)
    BY <1>5 DEF Queued
  <2>2. Count(t) = 0
    BY <1>3, <2>1 DEF PiecesInOrder
  <2> QED
    BY <2>1, <2>2
<1>10. ReceiverLast'
  BY <1>2, <1>4, <1>5, <1>6, <1>7 DEF ReceiverLast
<1>11. PiecesInOrder'
  <2>1. ASSUME NEW s \in Tasks, s # t, task[s] # "none"
        PROVE  initial[s] \in 1..sent' /\ \A i \in 1..Count(s) : Piece(s, i) \in initial[s]..sent'
    <3>1. initial[s] \in 1..sent /\ \A i \in 1..Count(s) : Piece(s, i) \in initial[s]..sent
      BY <1>3, <2>1 DEF PiecesInOrder
    <3> QED
      BY <1>2, <1>4, <3>1
  <2>2. \A s \in Tasks : task[s] = "none" => ~Queued(s) /\ Count(s) = 0 /\ 1..Count(s) = {}
    BY <1>3 DEF PiecesInOrder, Queued
  <2>3. initial'[t] \in 1..sent'
    BY <1>2, <1>4, <1>7
  <2> QED
    BY <1>3, <1>7, <1>8, <1>9, <2>1, <2>2, <2>3 DEF PiecesInOrder
<1>12. TasksApart'
  <2>1. ASSUME NEW s \in Tasks, s < t
        PROVE  initial[s] < sent + 1 /\ \A i \in 1..Count(s) : Piece(s, i) < sent + 1
    <3>1. initial[s] \in 1..sent /\ \A i \in 1..Count(s) : Piece(s, i) \in initial[s]..sent
      BY <1>3, <1>5, <2>1 DEF PiecesInOrder
    <3> QED
      BY <1>4, <3>1
  <2>2. ASSUME NEW s \in Tasks, NEW u \in Tasks, s < u, task'[u] # "none"
        PROVE  /\ initial'[s] < initial'[u]
               /\ \A i \in 1..Count(s)' : Piece(s, i)' < initial'[u]
    <3>1. CASE u = t
      <4>1. s # t
        BY <1>4, <2>2, <3>1
      <4> QED
        BY <1>7, <1>8, <2>1, <2>2, <3>1, <4>1
    <3>2. CASE u # t
      <4>1. task[u] # "none" /\ u < t
        BY <1>5, <1>7, <2>2, <3>2
      <4>2. s # t
        BY <1>4, <2>2, <4>1
      <4> QED
        BY <1>3, <1>7, <1>8, <2>2, <3>2, <4>1, <4>2 DEF TasksApart
    <3> QED
      BY <3>1, <3>2
  <2> QED
    BY <2>2 DEF TasksApart
<1>13. \A j \in DOMAIN puts : puts[j][1] \in Tasks /\ puts[j][2] \in Nat /\ puts[j][1] # t
  BY <1>3, <1>4, <1>9 DEF PutsInOrder
<1>14. PutsInOrder'
  <2>1. ASSUME NEW j \in DOMAIN puts, NEW s \in Tasks, puts[j][1] = s
        PROVE  /\ Queued(s) /\ puts[j][2] \in initial[s]..sent' /\ puts[j][2] < sent + 1
               /\ \A i \in 1..Count(s) : Piece(s, i) < puts[j][2]
    <3>1. /\ Queued(s) /\ puts[j][2] \in initial[s]..sent
          /\ \A i \in 1..Count(s) : Piece(s, i) < puts[j][2]
      BY <1>3, <2>1 DEF PutsInOrder
    <3> QED
      BY <1>2, <1>4, <3>1
  <2>2. ASSUME NEW j \in DOMAIN puts, NEW u \in Tasks, puts[j][1] < u, task'[u] # "none"
        PROVE  puts[j][2] < initial'[u]
    <3>1. CASE u = t
      BY <1>7, <1>13, <2>1, <3>1
    <3>2. CASE u # t
      BY <1>3, <1>7, <2>2, <3>2 DEF PutsInOrder
    <3> QED
      BY <3>1, <3>2
  <2>3. ASSUME NEW j \in DOMAIN puts, NEW s \in Tasks, puts[j][1] = s
        PROVE  /\ Queued(s)' /\ puts[j][2] \in initial'[s]..sent'
               /\ \A i \in 1..Count(s)' : Piece(s, i)' < puts[j][2]
    <3>1. s # t
      BY <1>13, <2>3
    <3>2. /\ Queued(s) /\ puts[j][2] \in initial[s]..sent'
          /\ \A i \in 1..Count(s) : Piece(s, i) < puts[j][2]
      BY <2>1, <2>3
    <3>3. initial'[s] = initial[s]
      BY <1>7, <3>1
    <3>4. (Queued(s)' <=> Queued(s)) /\ Count(s)' = Count(s)
      BY <1>8, <3>1
    <3>5. \A i \in 1..Count(s) : Piece(s, i)' = Piece(s, i)
      BY <1>8, <3>1
    <3> QED
      BY <3>2, <3>3, <3>4, <3>5
  <2> QED
    BY <1>1, <1>3, <2>2, <2>3 DEF PutsInOrder
<1>15. NothingMissed'
  <2> SUFFICES ASSUME ~missed PROVE NothingMissed'
    BY <1>1 DEF NothingMissed
  <2>1. \A s \in Tasks : task'[s] = "created" => initial'[s] = sent'
    BY <1>2, <1>6, <1>7
  <2>2. \A s \in Tasks : \A i \in 1..Count(s)' : Piece(s, i)' = initial'[s] + i - 1
    BY <1>3, <1>7, <1>8, <1>9 DEF NothingMissed
  <2>3. \A j \in DOMAIN puts, s \in Tasks :
          puts[j][1] = s =>
             puts[j][2] = IF j > 1 /\ puts[j - 1][1] = s THEN puts[j - 1][2] + 1
                          ELSE initial'[s] + Count(s)'
    BY <1>3, <1>7, <1>8, <1>13 DEF NothingMissed
  <2>4. \A s \in Tasks : receiver' # s
    BY <1>2, <1>6, Numbers
  <2> QED
    BY <1>1, <2>1, <2>2, <2>3, <2>4 DEF NothingMissed
<1> QED
  BY <1>2, <1>10, <1>11, <1>12, <1>14, <1>15 DEF StreamInv

(* Data for a task that is there.                                          *)
LEMMA StreamGrows ==
    ASSUME Base, StreamInv, NEW end \in BOOLEAN, WebtransportData(end), handler # NoTask
    PROVE  StreamInv'
<1>1. /\ kind = "webtransport" /\ sent' = sent + 1
      /\ UNCHANGED <<kind, receiver, handler, queue, received, task, initial>>
      /\ IF receiver # NoTask
         THEN puts' = Append(puts, <<receiver, sent + 1>>) /\ UNCHANGED missed
         ELSE missed' = TRUE /\ UNCHANGED puts
  BY DEF WebtransportData, app
<1>2. ReceiverLast /\ PiecesInOrder /\ TasksApart /\ PutsInOrder /\ NothingMissed
  BY <1>1 DEF StreamInv
<1>3. /\ sent \in Nat /\ initial \in [Tasks -> Nat] /\ task \in [Tasks -> States]
      /\ puts \in Seq(Tasks \X Nat) /\ Tasks \subseteq Nat /\ missed \in BOOLEAN
  BY Numbers DEF Base, Types, ClientTypes, StreamTypes, InputTypes
<1>4. \A s \in Tasks :
        /\ Count(s)' = Count(s) /\ (Queued(s)' <=> Queued(s))
        /\ \A i \in 1..Count(s) : Piece(s, i)' = Piece(s, i)
  BY <1>1 DEF Count, Piece, Queued
<1>5. ReceiverLast'
  BY <1>1, <1>2, <1>4 DEF ReceiverLast, Queued
<1>6. PiecesInOrder'
  <2>1. ASSUME NEW s \in Tasks PROVE /\ initial[s] \in 1..sent => initial[s] \in 1..sent'
                                     /\ \A x \in initial[s]..sent : x \in initial[s]..sent'
    BY <1>1, <1>3
  <2> QED
    BY <1>1, <1>2, <1>4, <2>1 DEF PiecesInOrder
<1>7. TasksApart'
  BY <1>1, <1>2, <1>4 DEF TasksApart
<1>8. \A j \in DOMAIN puts : puts[j][1] \in Tasks /\ puts[j][2] \in Nat
  BY <1>3
<1>9. ASSUME NEW j \in DOMAIN puts, NEW t \in Tasks
      PROVE  /\ puts[j][1] = t =>
                   /\ Queued(t) /\ puts[j][2] \in initial[t]..(sent + 1) /\ puts[j][2] < sent + 1
                   /\ \A i \in 1..Count(t) : Piece(t, i) < puts[j][2]
             /\ puts[j][1] < t /\ task[t] # "none" => puts[j][2] < initial[t]
  <2>1. /\ puts[j][1] = t =>
              /\ Queued(t) /\ puts[j][2] \in initial[t]..sent
              /\ \A i \in 1..Count(t) : Piece(t, i) < puts[j][2]
        /\ puts[j][1] < t /\ task[t] # "none" => puts[j][2] < initial[t]
    BY <1>2 DEF PutsInOrder
  <2>2. initial[t] \in Nat /\ \A x \in initial[t]..sent : x < sent + 1 /\ x \in initial[t]..(sent + 1)
    BY <1>3
  <2> QED
    BY <2>1, <2>2
<1>10. CASE receiver = NoTask
  <2>1. PutsInOrder'
    BY <1>1, <1>2, <1>4, <1>8, <1>9, <1>10 DEF PutsInOrder
  <2>2. NothingMissed'
    BY <1>1, <1>10 DEF NothingMissed
  <2> QED
    BY <1>1, <1>5, <1>6, <1>7, <2>1, <2>2 DEF StreamInv
<1>11. CASE receiver # NoTask
  <2> DEFINE m == Len(puts)
             new == <<receiver, sent + 1>>
  <2>1. /\ receiver \in Tasks /\ handler = receiver /\ Queued(receiver)
        /\ \A u \in Tasks : receiver < u => task[u] = "none"
    BY <1>2, <1>11 DEF ReceiverLast, Base, Types, StreamTypes
  <2>2. /\ m \in Nat /\ DOMAIN puts = 1..m /\ puts' = Append(puts, new)
        /\ Len(puts') = m + 1 /\ DOMAIN puts' = 1..(m + 1) /\ puts'[m + 1] = new /\ puts' # <<>>
        /\ \A j \in 1..m : puts'[j] = puts[j]
    BY <1>1, <1>3, <1>11
  <2>3. \A j \in 1..(m + 1) : j \in 1..m \/ j = m + 1
    BY <2>2
  <2>4. new[1] = receiver /\ new[2] = sent + 1
    OBVIOUS
  <2>5. /\ initial[receiver] \in Nat
        /\ sent + 1 \in initial[receiver]..(sent + 1)
        /\ \A i \in 1..Count(receiver) : Piece(receiver, i) < sent + 1
    <3>1. initial[receiver] \in 1..sent
          /\ \A i \in 1..Count(receiver) : Piece(receiver, i) \in initial[receiver]..sent
      BY <1>2, <2>1 DEF PiecesInOrder, Queued
    <3>2. initial[receiver] \in Nat
      BY <1>3, <2>1
    <3>3. \A a \in Nat : \A x \in a..sent : x < sent + 1
      BY <1>3
    <3>4. \A a \in Nat : a \in 1..sent => sent + 1 \in a..(sent + 1)
      BY <1>3
    <3> QED
      BY <3>1, <3>2, <3>3, <3>4
  <2>6. \A j \in 1..m : puts[j][1] <= receiver
    <3>1. \A j \in 1..m, t \in Tasks : puts[j][1] = t => ~(receiver < t)
      BY <1>9, <2>1, <2>2 DEF Queued
    <3>2. \A t \in Tasks : ~(receiver < t) => t <= receiver
      BY <2>1, Numbers
    <3> QED
      BY <1>8, <2>2, <3>1, <3>2
  <2> HIDE DEF m, new
  <2>7. PutsInOrder'
    <3>1. ASSUME NEW j \in 1..(m + 1), NEW t \in Tasks
          PROVE  /\ puts'[j][1] = t =>
                       /\ Queued(t)' /\ puts'[j][2] \in initial'[t]..sent'
                       /\ \A i \in 1..Count(t)' : Piece(t, i)' < puts'[j][2]
                 /\ puts'[j][1] < t /\ task'[t] # "none" => puts'[j][2] < initial'[t]
      <4>1. CASE j \in 1..m
        BY <1>1, <1>4, <1>9, <2>2, <4>1
      <4>2. CASE j = m + 1
        BY <1>1, <1>4, <2>1, <2>2, <2>4, <2>5, <4>2
      <4> QED
        BY <2>3, <4>1, <4>2
    <3>2. ASSUME NEW i \in 1..(m + 1), NEW j \in 1..(m + 1), i < j
          PROVE  puts'[i][1] <= puts'[j][1] /\ puts'[i][2] < puts'[j][2]
      <4>1. i \in 1..m
        BY <2>2, <2>3, <3>2
      <4>2. CASE j \in 1..m
        BY <1>2, <2>2, <3>2, <4>1, <4>2 DEF PutsInOrder
      <4>3. CASE j = m + 1
        <5>1. puts[i][1] \in Tasks /\ puts[i][2] < sent + 1
          BY <1>8, <1>9, <2>2, <4>1
        <5> QED
          BY <2>2, <2>4, <2>6, <4>1, <4>3, <5>1
      <4> QED
        BY <2>3, <4>2, <4>3
    <3> QED
      BY <2>2, <3>1, <3>2 DEF PutsInOrder
  <2>8. NothingMissed'
    <3> SUFFICES ASSUME ~missed PROVE NothingMissed'
      BY <1>1, <1>11 DEF NothingMissed
    <3>1. /\ \A t \in Tasks : \A i \in 1..Count(t) : Piece(t, i) = initial[t] + i - 1
          /\ \A j \in 1..m, t \in Tasks :
                puts[j][1] = t =>
                   puts[j][2] = IF j > 1 /\ puts[j - 1][1] = t THEN puts[j - 1][2] + 1
                                ELSE initial[t] + Count(t)
          /\ sent + 1 = IF puts # <<>> /\ puts[m][1] = receiver THEN puts[m][2] + 1
                        ELSE initial[receiver] + Count(receiver)
      BY <1>2, <2>1, <2>2 DEF NothingMissed, m
    <3>2. \A t \in Tasks : task[t] # "created"
      <4>1. ~Trailed
        BY <1>1 DEF Base, RegistryInv, NoHeaders, Trailed
      <4>2. \A t \in Tasks : Live(t) => t = receiver
        BY <2>1, <4>1 DEF Base, RegistryInv, Registered
      <4> QED
        BY <2>1, <4>2 DEF Live, Served, Queued
    <3>3. puts # <<>> <=> m > 0
      BY <1>3 DEF m
    <3>4. ASSUME NEW j \in 1..(m + 1), NEW t \in Tasks, puts'[j][1] = t
          PROVE  puts'[j][2] = IF j > 1 /\ puts'[j - 1][1] = t THEN puts'[j - 1][2] + 1
                               ELSE initial'[t] + Count(t)'
      <4>1. CASE j \in 1..m
        <5>1. j > 1 => j - 1 \in 1..m
          BY <2>2, <4>1
        <5>2. puts'[j] = puts[j] /\ (j > 1 => puts'[j - 1] = puts[j - 1])
          BY <2>2, <4>1, <5>1
        <5>3. puts[j][2] = IF j > 1 /\ puts[j - 1][1] = t THEN puts[j - 1][2] + 1
                           ELSE initial[t] + Count(t)
          BY <3>1, <3>4, <4>1, <5>2
        <5> QED
          BY <1>1, <1>4, <5>2, <5>3
      <4>2. CASE j = m + 1
        <5>1. t = receiver /\ puts'[j][2] = sent + 1
          BY <2>2, <2>4, <3>4, <4>2
        <5>2. j > 1 <=> m > 0
          BY <2>2, <4>2
        <5>3. j > 1 => j - 1 = m /\ m \in 1..m
          BY <2>2, <4>2
        <5>4. j > 1 => puts'[j - 1] = puts[m]
          BY <2>2, <5>3
        <5> QED
          BY <1>1, <1>4, <3>1, <3>3, <5>1, <5>2, <5>4
      <4> QED
        BY <2>3, <4>1, <4>2
    <3>5. /\ puts' # <<>> /\ puts'[Len(puts')][1] = receiver'
          /\ puts'[Len(puts')][2] = sent'
      BY <1>1, <2>2, <2>4
    <3>6. sent' \in Nat
      BY <1>1, <1>3
    <3>7. \A t \in Tasks : \A i \in 1..Count(t)' : Piece(t, i)' = initial'[t] + i - 1
      BY <1>1, <1>4, <3>1
    <3>8. \A t \in Tasks :
            receiver' = t =>
               sent' + 1 = IF puts' # <<>> /\ puts'[Len(puts')][1] = t THEN puts'[Len(puts')][2] + 1
                           ELSE initial'[t] + Count(t)'
      BY <3>5, <3>6
    <3>9. \A t \in Tasks : task'[t] # "created"
      BY <1>1, <3>2
    <3> QED
      BY <2>2, <3>4, <3>7, <3>8, <3>9 DEF NothingMissed
  <2> QED
    BY <1>1, <1>5, <1>6, <1>7, <2>7, <2>8 DEF StreamInv
<1> QED
  BY <1>10, <1>11

(* The task makes its queue, and puts the first piece there.               *)
LEMMA StreamQueues ==
    ASSUME Base, StreamInv, NEW t \in Tasks, HandleWebtransportStream(t)
    PROVE  StreamInv'
<1>1. /\ kind = "webtransport" /\ task[t] = "created" /\ receiver' = t
      /\ task' = [task EXCEPT ![t] = "running"] /\ queue' = [queue EXCEPT ![t] = <<initial[t]>>]
      /\ UNCHANGED <<kind, sent, handler, puts, initial, received, missed>>
  BY DEF HandleWebtransportStream, client, app
<1>2. ReceiverLast /\ PiecesInOrder /\ TasksApart /\ PutsInOrder /\ NothingMissed
  BY <1>1 DEF StreamInv
<1>3. /\ sent \in Nat /\ initial \in [Tasks -> Nat] /\ task \in [Tasks -> States]
      /\ puts \in Seq(Tasks \X Nat) /\ queue \in [Tasks -> Seq(Nat)]
      /\ received \in [Tasks -> Seq(Nat)] /\ InputTypes
  BY DEF Base, Types, ClientTypes, StreamTypes, InputTypes
<1>4. /\ task'[t] = "running" /\ queue'[t] = <<initial[t]>>
      /\ \A s \in Tasks : s # t => task'[s] = task[s] /\ queue'[s] = queue[s]
  BY <1>1, <1>3
<1>5. handler = t
  <2>1. ~Trailed
    BY <1>1 DEF Base, RegistryInv, NoHeaders, Trailed
  <2> QED
    BY <1>1, <2>1 DEF Base, RegistryInv, Registered, Live, Served
<1>6. ~Queued(t) /\ Queued(t)' /\ Count(t) = 0
  <2>1. ~Queued(t)
    BY <1>1 DEF Queued
  <2> QED
    BY <1>2, <1>4, <2>1 DEF Queued, PiecesInOrder
<1>7. Count(t)' = 1 /\ 1..Count(t) = {} /\ Piece(t, 1)' = initial[t]
  <2> DEFINE n == Len(received[t])
             m == Len(queue[t])
  <2>1. n \in Nat /\ m \in Nat /\ n + m = 0
    BY <1>3, <1>6 DEF Count
  <2>2. n = 0
    <3> HIDE DEF n, m
    <3> QED
      BY <2>1
  <2>3. received'[t] = received[t] /\ Len(queue'[t]) = 1 /\ queue'[t][1] = initial[t]
    BY <1>1, <1>4
  <2>4. Count(t)' = 1
    BY <2>2, <2>3 DEF Count
  <2>5. Piece(t, 1)' = initial[t]
    <3>1. ~(1 <= Len(received'[t])) /\ 1 - Len(received'[t]) = 1
      BY <2>2, <2>3
    <3> QED
      BY <2>3, <3>1 DEF Piece
  <2> QED
    BY <1>6, <2>4, <2>5
<1>8. \A s \in Tasks : s # t =>
        /\ task'[s] = task[s] /\ (Queued(s)' <=> Queued(s)) /\ Count(s)' = Count(s)
        /\ \A i \in 1..Count(s) : Piece(s, i)' = Piece(s, i)
  BY <1>1, <1>4 DEF Queued, Count, Piece
<1>9. initial[t] \in Nat /\ initial[t] \in 1..sent
  BY <1>1, <1>2, <1>3 DEF PiecesInOrder
<1>10. \A i \in 1..Count(t)' : i = 1
  BY <1>7
<1>11. ReceiverLast'
  BY <1>1, <1>2, <1>5, <1>6, <1>8, Numbers DEF ReceiverLast
<1>12. PiecesInOrder'
  <2>1. \A i \in 1..Count(t)' : Piece(t, i)' \in initial[t]..sent
    BY <1>3, <1>7, <1>9, <1>10
  <2>2. \A i, j \in 1..Count(t)' : ~(i < j)
    BY <1>7
  <2>3. ASSUME NEW s \in Tasks
        PROVE  /\ ~Queued(s)' => Count(s)' = 0
               /\ task'[s] # "none" => initial'[s] \in 1..sent'
               /\ \A i \in 1..Count(s)' : Piece(s, i)' \in initial'[s]..sent'
               /\ \A i, j \in 1..Count(s)' : i < j => Piece(s, i)' < Piece(s, j)'
    <3>1. CASE s = t
      BY <1>1, <1>6, <1>9, <2>1, <2>2, <3>1
    <3>2. CASE s # t
      BY <1>1, <1>2, <1>8, <3>2 DEF PiecesInOrder
    <3> QED
      BY <3>1, <3>2
  <2> QED
    BY <2>3 DEF PiecesInOrder
<1>13. TasksApart'
  <2>1. ASSUME NEW s \in Tasks, NEW u \in Tasks, s < u, task'[u] # "none"
        PROVE  /\ initial'[s] < initial'[u]
               /\ \A i \in 1..Count(s)' : Piece(s, i)' < initial'[u]
    <3>1. /\ initial[s] < initial[u]
          /\ \A i \in 1..Count(s) : Piece(s, i) < initial[u]
      BY <1>1, <1>2, <1>8, <2>1 DEF TasksApart
    <3>2. CASE s = t
      BY <1>1, <1>7, <1>10, <3>1, <3>2
    <3>3. CASE s # t
      BY <1>1, <1>8, <3>1, <3>3
    <3> QED
      BY <3>2, <3>3
  <2> QED
    BY <2>1 DEF TasksApart
<1>14. \A j \in DOMAIN puts : puts[j][1] \in Tasks /\ puts[j][1] # t
  BY <1>2, <1>3, <1>6 DEF PutsInOrder
<1>15. PutsInOrder'
  <2>1. ASSUME NEW j \in DOMAIN puts, NEW s \in Tasks
        PROVE  /\ puts[j][1] = s =>
                     /\ Queued(s)' /\ puts[j][2] \in initial[s]..sent
                     /\ \A i \in 1..Count(s)' : Piece(s, i)' < puts[j][2]
               /\ puts[j][1] < s /\ task'[s] # "none" => puts[j][2] < initial[s]
    <3>1. /\ puts[j][1] = s =>
                /\ Queued(s) /\ puts[j][2] \in initial[s]..sent
                /\ \A i \in 1..Count(s) : Piece(s, i) < puts[j][2]
          /\ puts[j][1] < s /\ task[s] # "none" => puts[j][2] < initial[s]
      BY <1>2 DEF PutsInOrder
    <3>2. puts[j][1] = s => s # t
      BY <1>14
    <3> QED
      BY <1>1, <1>8, <3>1, <3>2
  <2> QED
    BY <1>1, <1>2, <2>1 DEF PutsInOrder
<1>16. NothingMissed'
  <2> SUFFICES ASSUME ~missed PROVE NothingMissed'
    BY <1>1 DEF NothingMissed
  <2>1. /\ \A s \in Tasks : task[s] = "created" => initial[s] = sent
        /\ \A s \in Tasks : \A i \in 1..Count(s) : Piece(s, i) = initial[s] + i - 1
        /\ \A j \in DOMAIN puts, s \in Tasks :
              puts[j][1] = s =>
                 puts[j][2] = IF j > 1 /\ puts[j - 1][1] = s THEN puts[j - 1][2] + 1
                              ELSE initial[s] + Count(s)
    BY <1>2 DEF NothingMissed
  <2>2. \A s \in Tasks : task'[s] = "created" => initial'[s] = sent'
    BY <1>1, <1>4, <2>1
  <2>3. ASSUME NEW s \in Tasks, NEW i \in 1..Count(s)' PROVE Piece(s, i)' = initial'[s] + i - 1
    <3>1. CASE s = t
      BY <1>1, <1>7, <1>9, <1>10, <3>1
    <3>2. CASE s # t
      BY <1>1, <1>8, <2>1, <3>2
    <3> QED
      BY <3>1, <3>2
  <2>4. ASSUME NEW j \in DOMAIN puts, NEW s \in Tasks, puts[j][1] = s
        PROVE  puts[j][2] = IF j > 1 /\ puts[j - 1][1] = s THEN puts[j - 1][2] + 1
                            ELSE initial[s] + Count(s)'
    <3>1. s # t
      BY <1>14, <2>4
    <3> QED
      BY <1>8, <2>1, <2>4, <3>1
  <2>5. sent' + 1 = initial'[t] + Count(t)'
    BY <1>1, <1>3, <1>7, <2>1
  <2>6. puts # <<>> => puts[Len(puts)][1] # t
    BY <1>3, <1>14
  <2>7. \A s \in Tasks :
          receiver' = s =>
             sent' + 1 = IF puts' # <<>> /\ puts'[Len(puts')][1] = s THEN puts'[Len(puts')][2] + 1
                         ELSE initial'[s] + Count(s)'
    BY <1>1, <2>5, <2>6
  <2> QED
    BY <1>1, <2>2, <2>3, <2>4, <2>7 DEF NothingMissed
<1> QED
  BY <1>11, <1>12, <1>13, <1>15, <1>16 DEF StreamInv

(* A put task runs: the piece joins the queue it was meant for.            *)
LEMMA StreamPuts ==
    ASSUME Base, StreamInv, PutRuns, kind = "webtransport"
    PROVE  StreamInv'
<1> DEFINE m == Len(puts)
<1>1. /\ puts # <<>> /\ puts' = Tail(puts) /\ PutNowait(Head(puts)[1], Head(puts)[2])
      /\ UNCHANGED <<kind, sent, task, handler, receiver, initial, received, missed>>
  BY DEF PutRuns, client, stream, app
<1>2. ReceiverLast /\ PiecesInOrder /\ TasksApart /\ PutsInOrder /\ NothingMissed
  BY DEF StreamInv
<1>3. /\ sent \in Nat /\ initial \in [Tasks -> Nat] /\ puts \in Seq(Tasks \X Nat)
      /\ InputTypes
      /\ handler \in Tasks \cup {NoTask} /\ receiver \in Tasks \cup {NoTask}
  BY DEF Base, Types, ClientTypes, StreamTypes, InputTypes
<1>4. /\ m \in Nat \ {0} /\ DOMAIN puts = 1..m /\ Head(puts) = puts[1]
      /\ Len(puts') = m - 1 /\ DOMAIN puts' = 1..(m - 1)
      /\ \A j \in 1..(m - 1) : puts'[j] = puts[j + 1]
  <2>1. \A w \in Seq(Tasks \X Nat) : w # <<>> =>
          /\ Len(w) \in Nat \ {0} /\ DOMAIN w = 1..Len(w) /\ Head(w) = w[1]
          /\ Tail(w) \in Seq(Tasks \X Nat) /\ Len(Tail(w)) = Len(w) - 1
          /\ DOMAIN Tail(w) = 1..(Len(w) - 1)
          /\ \A j \in 1..(Len(w) - 1) : Tail(w)[j] = w[j + 1]
    OBVIOUS
  <2> QED
    BY <1>1, <1>3, <2>1
<1>5. \A j \in 1..m : puts[j][1] \in Tasks /\ puts[j][2] \in Nat
  BY <1>3, <1>4
<1>6. PICK r \in Tasks, n \in Nat : puts[1][1] = r /\ puts[1][2] = n /\ 1 \in 1..m
  BY <1>4, <1>5
<1>7. ASSUME NEW t \in Tasks
      PROVE  /\ t = r => /\ Count(t)' = Count(t) + 1
                         /\ \A i : i = Count(t) + 1 => Piece(t, i)' = n
             /\ t # r => Count(t)' = Count(t)
             /\ \A i \in 1..Count(t) : Piece(t, i)' = Piece(t, i)
  <2>1. PutNowait(r, n)
    BY <1>1, <1>4, <1>6
  <2>2. /\ t # r => Count(t)' = Count(t)
        /\ \A i \in 1..Count(t) : Piece(t, i)' = Piece(t, i)
    BY <1>1, <1>3, <2>1, PutPieces
  <2>3. ASSUME t = r
        PROVE  /\ Count(t)' = Count(t) + 1
               /\ \A i : i = Count(t) + 1 => Piece(t, i)' = n
    <3>1. PutNowait(t, n)
      BY <2>1, <2>3
    <3>2. Count(t)' = Count(t) + 1 /\ Piece(t, Count(t))' = n
      BY <1>1, <1>3, <3>1, PutPieces
    <3> QED
      BY <3>2 DEF Piece
  <2> QED
    BY <2>2, <2>3
<1>8. /\ \A t \in Tasks : Count(t) \in Nat /\ (Queued(t)' <=> Queued(t))
  BY <1>1, <1>3 DEF Count, Queued, InputTypes
<1>9. ASSUME NEW t \in Tasks, NEW i \in 1..Count(t)'
      PROVE  \/ i \in 1..Count(t) /\ Piece(t, i)' = Piece(t, i)
             \/ t = r /\ i = Count(t) + 1 /\ Piece(t, i)' = n
  <2>1. CASE t # r
    BY <1>7, <2>1
  <2>2. CASE t = r
    <3>1. i \in 1..Count(t) \/ i = Count(t) + 1
      BY <1>7, <1>8, <2>2
    <3> QED
      BY <1>7, <2>2, <3>1
  <2> QED
    BY <2>1, <2>2
<1>10. /\ \A j \in 1..m, t \in Tasks :
             /\ puts[j][1] = t =>
                   /\ Queued(t) /\ puts[j][2] \in initial[t]..sent
                   /\ \A i \in 1..Count(t) : Piece(t, i) < puts[j][2]
             /\ puts[j][1] < t /\ task[t] # "none" => puts[j][2] < initial[t]
       /\ \A i, j \in 1..m : i < j => puts[i][1] <= puts[j][1] /\ puts[i][2] < puts[j][2]
  BY <1>2, <1>4 DEF PutsInOrder
<1>11. /\ Queued(r) /\ n \in initial[r]..sent /\ \A i \in 1..Count(r) : Piece(r, i) < n
       /\ \A t \in Tasks : r < t /\ task[t] # "none" => n < initial[t]
  BY <1>6, <1>10
<1>12. ASSUME NEW j \in 1..(m - 1) PROVE j \in 1..m /\ j + 1 \in 1..m /\ j + 1 > 1 /\ (j + 1) - 1 = j
  BY <1>4
<1> HIDE DEF m
<1>13. ReceiverLast'
  BY <1>1, <1>2, <1>8 DEF ReceiverLast, Queued
<1>14. PiecesInOrder'
  <2>1. ASSUME NEW t \in Tasks, NEW i \in 1..Count(t)' PROVE Piece(t, i)' \in initial[t]..sent
    BY <1>2, <1>9, <1>11 DEF PiecesInOrder
  <2>2. ASSUME NEW t \in Tasks, NEW i \in 1..Count(t)', NEW j \in 1..Count(t)', i < j
        PROVE  Piece(t, i)' < Piece(t, j)'
    <3>1. i \in 1..Count(t) /\ Piece(t, i)' = Piece(t, i)
      <4>1. ~(t = r /\ i = Count(t) + 1)
        BY <1>7, <1>8, <2>2
      <4> QED
        BY <1>9, <4>1
    <3>2. CASE j \in 1..Count(t) /\ Piece(t, j)' = Piece(t, j)
      BY <1>2, <2>2, <3>1, <3>2 DEF PiecesInOrder
    <3>3. CASE t = r /\ Piece(t, j)' = n
      BY <1>11, <3>1, <3>3
    <3> QED
      BY <1>9, <3>2, <3>3
  <2>3. \A t \in Tasks : ~Queued(t)' => Count(t)' = 0
    BY <1>2, <1>7, <1>8, <1>11 DEF PiecesInOrder
  <2> QED
    BY <1>1, <1>2, <2>1, <2>2, <2>3 DEF PiecesInOrder
<1>15. TasksApart'
  <2>1. ASSUME NEW s \in Tasks, NEW u \in Tasks, s < u, task[u] # "none", NEW i \in 1..Count(s)'
        PROVE  Piece(s, i)' < initial[u]
    BY <1>2, <1>9, <1>11, <2>1 DEF TasksApart
  <2> QED
    BY <1>1, <1>2, <2>1 DEF TasksApart
<1>16. PutsInOrder'
  <2>1. ASSUME NEW j \in 1..(m - 1), NEW t \in Tasks
        PROVE  /\ puts'[j][1] = t =>
                     /\ Queued(t)' /\ puts'[j][2] \in initial[t]..sent
                     /\ \A i \in 1..Count(t)' : Piece(t, i)' < puts'[j][2]
               /\ puts'[j][1] < t /\ task[t] # "none" => puts'[j][2] < initial[t]
    <3>1. puts'[j] = puts[j + 1] /\ j + 1 \in 1..m /\ 1 < j + 1
      BY <1>4, <1>12
    <3>2. n < puts[j + 1][2]
      BY <1>6, <1>10, <3>1
    <3> QED
      BY <1>8, <1>9, <1>10, <3>1, <3>2
  <2>2. ASSUME NEW i \in 1..(m - 1), NEW j \in 1..(m - 1), i < j
        PROVE  puts'[i][1] <= puts'[j][1] /\ puts'[i][2] < puts'[j][2]
    <3>1. i + 1 \in 1..m /\ j + 1 \in 1..m /\ i + 1 < j + 1
      BY <1>4, <1>12, <2>2
    <3> QED
      BY <1>4, <1>10, <3>1
  <2> QED
    BY <1>1, <1>4, <2>1, <2>2 DEF PutsInOrder
<1>17. NothingMissed'
  <2> SUFFICES ASSUME ~missed PROVE NothingMissed'
    BY <1>1 DEF NothingMissed
  <2>1. /\ \A t \in Tasks : task[t] = "created" => initial[t] = sent
        /\ \A t \in Tasks : \A i \in 1..Count(t) : Piece(t, i) = initial[t] + i - 1
        /\ \A j \in 1..m, t \in Tasks :
              puts[j][1] = t =>
                 puts[j][2] = IF j > 1 /\ puts[j - 1][1] = t THEN puts[j - 1][2] + 1
                              ELSE initial[t] + Count(t)
        /\ \A t \in Tasks :
              receiver = t =>
                 sent + 1 = IF puts[m][1] = t THEN puts[m][2] + 1 ELSE initial[t] + Count(t)
    BY <1>1, <1>2, <1>4 DEF NothingMissed, m
  <2>2. n = initial[r] + Count(r)
    BY <1>6, <2>1
  <2>3. initial[r] \in Nat /\ Count(r) \in Nat /\ \A t \in Tasks : initial[t] \in Nat
    BY <1>3, <1>6, <1>8
  <2>4. ASSUME NEW t \in Tasks, NEW i \in 1..Count(t)' PROVE Piece(t, i)' = initial[t] + i - 1
    BY <1>9, <2>1, <2>2, <2>3
  <2>5. \A t \in Tasks : t = r => n + 1 = initial[t] + Count(t)'
    BY <1>7, <2>2, <2>3
  <2>6. \A j \in 1..m : r <= puts[j][1]
    <3>1. r \in Nat
      BY <1>6, Numbers
    <3>2. \A j \in 1..m : j = 1 \/ 1 < j
      BY <1>4
    <3>3. \A j \in 1..m : 1 < j => r <= puts[j][1]
      BY <1>6, <1>10
    <3>4. r <= puts[1][1]
      BY <1>6, <3>1
    <3> QED
      BY <3>2, <3>3, <3>4
  <2>7. ASSUME NEW j \in 1..(m - 1), NEW t \in Tasks, puts'[j][1] = t
        PROVE  puts'[j][2] = IF j > 1 /\ puts'[j - 1][1] = t THEN puts'[j - 1][2] + 1
                             ELSE initial[t] + Count(t)'
    <3>1. /\ puts'[j] = puts[j + 1] /\ puts[j + 1][1] = t /\ j + 1 \in 1..m /\ j \in 1..m
      BY <1>4, <1>12, <2>7
    <3>2. puts[j + 1][2] = IF puts[j][1] = t THEN puts[j][2] + 1 ELSE initial[t] + Count(t)
      BY <1>12, <2>1, <3>1
    <3>3. CASE j = 1
      <4>1. puts[j][1] = r /\ puts[j][2] = n
        BY <1>6, <3>3
      <4>2. CASE t = r
        BY <2>5, <3>1, <3>2, <3>3, <4>1, <4>2
      <4>3. CASE t # r
        BY <1>7, <3>1, <3>2, <3>3, <4>1, <4>3
      <4> QED
        BY <4>2, <4>3
    <3>4. CASE j > 1
      <4>1. j - 1 \in 1..(m - 1) /\ puts'[j - 1] = puts[j]
        <5>1. j - 1 \in 1..(m - 1) /\ (j - 1) + 1 = j
          BY <1>4, <3>4
        <5> QED
          BY <1>4, <5>1
      <4>2. puts[j][1] # t => t # r
        <5>1. r <= puts[j][1] /\ puts[j][1] <= puts[j + 1][1] /\ r \in Nat /\ puts[j][1] \in Nat
          <6>1. j < j + 1
            BY <1>4
          <6> QED
            BY <1>5, <1>6, <1>10, <2>6, <3>1, <6>1, Numbers
        <5>2. \A a, b \in Nat : a <= b /\ b <= a => a = b
          OBVIOUS
        <5> QED
          BY <3>1, <5>1, <5>2
      <4> QED
        BY <1>7, <3>1, <3>2, <3>4, <4>1, <4>2
    <3>5. j = 1 \/ j > 1
      BY <1>4
    <3> QED
      BY <3>3, <3>4, <3>5
  <2>8. ASSUME NEW t \in Tasks, receiver = t
        PROVE  sent + 1 = IF puts' # <<>> /\ puts'[m - 1][1] = t THEN puts'[m - 1][2] + 1
                          ELSE initial[t] + Count(t)'
    <3>1. sent + 1 = IF puts[m][1] = t THEN puts[m][2] + 1 ELSE initial[t] + Count(t)
      BY <2>1, <2>8
    <3>2. CASE m = 1
      <4>1. puts' = <<>>
        <5>1. Len(puts') = 0 /\ puts' \in Seq(Tasks \X Nat)
          BY <1>1, <1>3, <1>4, <3>2
        <5> QED
          BY <5>1
      <4>2. puts[m][1] = r /\ puts[m][2] = n
        BY <1>6, <3>2
      <4>3. CASE t = r
        BY <2>5, <3>1, <4>1, <4>2, <4>3
      <4>4. CASE t # r
        BY <1>7, <3>1, <4>1, <4>2, <4>4
      <4> QED
        BY <4>3, <4>4
    <3>3. CASE m > 1
      <4>1. m - 1 \in 1..(m - 1) /\ (m - 1) + 1 = m /\ m \in 1..m
        BY <1>4, <3>3
      <4>2. puts'[m - 1] = puts[m] /\ puts' # <<>>
        BY <1>4, <4>1
      <4>3. puts[m][1] # t => t # r
        <5>1. handler = t
          BY <1>2, <2>8, Numbers DEF ReceiverLast
        <5>2. ~(t < puts[m][1])
          <6>1. puts[m][1] \in Tasks /\ \A u \in Tasks : puts[m][1] = u => Queued(u)
            BY <1>5, <1>10, <4>1
          <6> QED
            BY <1>2, <5>1, <6>1, Numbers DEF ReceiverLast, Queued
        <5>3. r <= puts[m][1] /\ r \in Nat /\ puts[m][1] \in Nat /\ t \in Nat
          BY <1>5, <1>6, <2>6, <4>1, Numbers
        <5>4. \A a, b \in Nat : a <= b /\ ~(a < b) => a = b
          OBVIOUS
        <5> QED
          BY <5>2, <5>3, <5>4
      <4> QED
        BY <1>7, <3>1, <4>2, <4>3
    <3>4. m = 1 \/ m > 1
      BY <1>4
    <3> QED
      BY <3>2, <3>3, <3>4
  <2>9. \A t \in Tasks :
          receiver' = t =>
             sent' + 1 = IF puts' # <<>> /\ puts'[Len(puts')][1] = t THEN puts'[Len(puts')][2] + 1
                         ELSE initial'[t] + Count(t)'
    BY <1>1, <1>4, <2>8
  <2> SUFFICES ASSUME ~missed' PROVE NothingMissed'
    BY DEF NothingMissed
  <2>10. \A j \in DOMAIN puts', t \in Tasks :
           puts'[j][1] = t =>
              puts'[j][2] = IF j > 1 /\ puts'[j - 1][1] = t THEN puts'[j - 1][2] + 1
                            ELSE initial'[t] + Count(t)'
    BY <1>1, <1>4, <2>7
  <2>11. \A t \in Tasks : task'[t] = "created" => initial'[t] = sent'
    BY <1>1, <2>1
  <2>12. \A t \in Tasks : \A i \in 1..Count(t)' : Piece(t, i)' = initial'[t] + i - 1
    BY <1>1, <2>4
  <2> QED
    BY <2>9, <2>10, <2>11, <2>12 DEF NothingMissed
<1> QED
  BY <1>13, <1>14, <1>15, <1>16, <1>17 DEF StreamInv

(* The application takes a piece, waits for one, or is told that there     *)
(* will be none.                                                           *)
LEMMA StreamReceives ==
    ASSUME Base, StreamInv, NEW t \in Tasks, Receiving(t), kind = "webtransport"
    PROVE  StreamInv'
<1>1. ReceivesFrom(t, t)
  BY ReceivingConsumes DEF Base, ReceivesFrom
<1>2. /\ UNCHANGED <<kind, sent, handler, receiver, puts, initial, missed>>
      /\ task[t] \in {"running", "receiving"} /\ Consumes(t, t)
      /\ puts \in Seq(Tasks \X Nat) /\ receiver \in Tasks \cup {NoTask} /\ InputTypes
      /\ task \in [Tasks -> States]
  BY <1>1 DEF ReceivesFrom, Base, Types, StreamTypes, InputTypes, client, stream
<1>3. task' = [task EXCEPT ![t] = "running"] \/ task' = [task EXCEPT ![t] = "receiving"]
  BY <1>2 DEF Consumes, Take, TakeLast, Wait
<1>4. \A s \in Tasks : /\ task'[s] = "none" <=> task[s] = "none"
                       /\ task'[s] = "created" <=> task[s] = "created"
                       /\ Queued(s)' <=> Queued(s)
  BY <1>2, <1>3 DEF Queued
<1>5. \A s \in Tasks : Count(s)' = Count(s) /\ \A i \in 1..Count(s) : Piece(s, i)' = Piece(s, i)
  <2>1. CASE TakeLast(t) \/ Wait(t, t)
    BY <2>1 DEF TakeLast, Wait, app, Count, Piece
  <2>2. CASE Take(t, t)
    <3>1. Head(queue[t]) = queue[t][1] /\ Len(queue[t]) \in Nat \ {0}
      BY <1>2, <2>2, TakePieces
    <3>2. Head(queue[t]) # 0
      <4> DEFINE n == Len(received[t])
                 k == Count(t)
      <4>1. n \in Nat /\ n + 1 \in 1..k
        <5> DEFINE l == Len(queue[t])
        <5>1. n \in Nat /\ l \in Nat \ {0} /\ k = n + l
          BY <1>2, <3>1 DEF InputTypes, Count
        <5> HIDE DEF n, k, l
        <5> QED
          BY <5>1
      <4>2. Piece(t, n + 1) = queue[t][1]
        <5>1. ~(n + 1 <= n) /\ (n + 1) - n = 1
          BY <4>1
        <5> QED
          BY <5>1 DEF Piece
      <4>3. initial[t] \in 1..sent /\ Piece(t, n + 1) \in initial[t]..sent
        BY <1>2, <4>1 DEF StreamInv, PiecesInOrder
      <4> QED
        BY <3>1, <4>2, <4>3
    <3>3. Count(t)' = Count(t) /\ \A i \in 1..Count(t) : Piece(t, i)' = Piece(t, i)
      BY <1>2, <2>2, <3>2, TakePieces
    <3>4. \A s \in Tasks : s # t => queue'[s] = queue[s] /\ received'[s] = received[s]
      BY <1>2, <2>2, TakePieces
    <3>5. \A s \in Tasks : s # t =>
            Count(s)' = Count(s) /\ \A i \in 1..Count(s) : Piece(s, i)' = Piece(s, i)
      BY <3>4 DEF Count, Piece
    <3> QED
      BY <3>3, <3>5
  <2> QED
    BY <1>2, <2>1, <2>2 DEF Consumes
<1> QED
  BY <1>2, <1>4, <1>5, StreamKept

LEMMA StreamInvStep ==
    ASSUME Base, StreamInv, Next
    PROVE  StreamInv'
<1> USE DEF Base, Types, StreamTypes, InputTypes
<1>1. ASSUME kind # "webtransport" PROVE StreamInv'
  BY <1>1, KindKept DEF StreamInv
<1>3. ASSUME NEW end \in BOOLEAN, WebtransportData(end) PROVE StreamInv'
  BY <1>3, StreamStarts, StreamGrows
<1>4. ASSUME kind = "webtransport", PutRuns PROVE StreamInv'
  BY <1>4, StreamPuts
<1>5. ASSUME NEW t \in Tasks, HandleWebtransportStream(t) PROVE StreamInv'
  BY <1>5, StreamQueues
<1>6. ASSUME kind = "webtransport", NEW t \in Tasks, Receiving(t) PROVE StreamInv'
  BY <1>6, StreamReceives
<1>7. ASSUME NEW t \in Tasks, Serving(t) PROVE StreamInv'
  <2>1. UNCHANGED <<kind, client, task, stream, queue, puts, initial, app, missed>>
    BY <1>7, ServingFacts
  <2> QED
    BY <2>1, StreamKept DEF client, stream, app, Queued, Count, Piece
<1>8. ASSUME NEW t \in Tasks, Ending(t), kind = "webtransport" PROVE StreamInv'
  <2>1. /\ UNCHANGED <<kind, sent, queue, received, puts, initial, missed>>
        /\ task' = [task EXCEPT ![t] = "done"] /\ handler' = NoTask /\ receiver' = NoTask
    BY <1>8, EndingFacts DEF Cleanup, client, input, app
  <2>2. task[t] \in {"running", "receiving", "done"}
    BY <1>8 DEF Ending, AppReturns, AppRaises, StreamHandlerEnds
  <2>3. \A s \in Tasks : /\ task'[s] = "none" <=> task[s] = "none"
                         /\ task'[s] = "created" <=> task[s] = "created"
                         /\ Queued(s)' <=> Queued(s)
    BY <2>1, <2>2 DEF Queued
  <2> QED
    BY <2>1, <2>3, StreamKept DEF Count, Piece
<1> HIDE DEF Base, Types, StreamTypes, InputTypes
<1>9. ASSUME kind = "webtransport" PROVE StreamInv'
  BY <1>3, <1>4, <1>5, <1>6, <1>7, <1>8, <1>9, Cases
     DEF HandleRequest, DataReceived, HandleWebsocketConnect, WebsocketData,
         HandleWebtransportConnect, RunAsgi, CloseStream
<1> QED
  BY <1>1, <1>9

(* For any number of pieces and tasks: a WebTransport application gets the *)
(* stream without a gap, from the piece its task was started with; unless  *)
(* a piece came before the task had registered its queue                   *)
(* (_handle_webtransport_stream_data).  No piece is given to two           *)
(* applications.                                                           *)
THEOREM StreamIsInOrder == Spec => []StreamInOrder
<1>1. Base /\ StreamInv => StreamInOrder
  <2> SUFFICES ASSUME Base, StreamInv, kind = "webtransport" PROVE StreamInOrder
    BY DEF StreamInOrder
  <2>1. PiecesInOrder /\ TasksApart /\ NothingMissed
    BY DEF StreamInv
  <2>2. /\ received \in [Tasks -> Seq(Nat)] /\ queue \in [Tasks -> Seq(Nat)]
        /\ initial \in [Tasks -> Nat] /\ sent \in Nat
    BY DEF Base, Types, InputTypes, ClientTypes
  <2>3. ASSUME NEW t \in Tasks, NEW i \in DOMAIN received[t]
        PROVE  i \in 1..Count(t) /\ Piece(t, i) = received[t][i]
    <3> DEFINE n == Len(received[t])
               m == Len(queue[t])
               k == Count(t)
    <3>1. i \in 1..n /\ n \in Nat /\ m \in Nat /\ k = n + m
      BY <2>2 DEF Count
    <3>2. Piece(t, i) = received[t][i]
      BY <3>1 DEF Piece
    <3> HIDE DEF n, m, k
    <3>3. i \in 1..k
      BY <3>1
    <3> QED
      BY <3>2, <3>3 DEF k
  <2>4. ASSUME NEW t \in Tasks, NEW i \in DOMAIN received[t] PROVE task[t] # "none"
    <3>1. Count(t) # 0
      BY <2>2, <2>3, <2>4 DEF Count
    <3> QED
      BY <2>1, <3>1 DEF PiecesInOrder, Queued
  <2>5. \A t \in Tasks : \A i, j \in DOMAIN received[t] : i < j => received[t][i] < received[t][j]
    BY <2>1, <2>3 DEF PiecesInOrder
  <2>6. ASSUME NEW s \in Tasks, NEW t \in Tasks, NEW i \in DOMAIN received[s],
               NEW j \in DOMAIN received[t], s < t
        PROVE  received[s][i] < received[t][j]
    <3>1. received[s][i] < initial[t]
      BY <2>1, <2>3, <2>4, <2>6 DEF TasksApart
    <3>2. received[t][j] \in initial[t]..sent /\ received[s][i] \in Nat /\ initial[t] \in Nat
      BY <2>1, <2>2, <2>3 DEF PiecesInOrder
    <3> QED
      BY <2>2, <3>1, <3>2
  <2>7. ~missed => \A t \in Tasks : \A i \in DOMAIN received[t] :
                      received[t][i] = initial[t] + i - 1
    BY <2>1, <2>3 DEF NothingMissed
  <2> QED
    BY <2>5, <2>6, <2>7 DEF StreamInOrder
<1>2. StreamInv /\ Base /\ UNCHANGED vars => StreamInv'
  <2> SUFFICES ASSUME StreamInv, Base, UNCHANGED vars PROVE StreamInv'
    OBVIOUS
  <2> QED
    BY StreamKept
       DEF vars, client, stream, input, app, Queued, Count, Piece, Base, Types, StreamTypes,
           InputTypes
<1> QED
  BY <1>1, <1>2, StreamInvInit, StreamInvStep, BaseInvariant, PTL DEF Spec

=============================================================================
