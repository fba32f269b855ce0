-------------------------- MODULE Http2Body_proof --------------------------
(***************************************************************************)
(* Proofs about Http2Body for every queue size and every request length.   *)
(***************************************************************************)
EXTENDS Http2Body, FiniteSetTheorems, TLAPS

USE BodyAssumption DEF App, PutTask, AppState, LoopFree, client

(* What the type invariant leaves to each step of the loop: entries of     *)
(* `ready` other than App are put tasks.                                   *)
LEMMA HeadIsPut ==
    ASSUME TypeOK, ready # <<>>, Head(ready) # App
    PROVE  Head(ready) \in PutTask
BY DEF TypeOK

(* Taking a message keeps every sequence typed and the queue within its    *)
(* capacity.                                                               *)
LEMMA TakeTyped ==
    ASSUME TypeOK, NEW rest \in Seq({App} \cup PutTask), TakeMessage(rest)
    PROVE  /\ received' \in Seq(PutTask)
           /\ queue' \in Seq(PutTask)
           /\ Len(queue') <= MaxSize
           /\ putters' \in Seq(PutTask)
           /\ ready' \in Seq({App} \cup PutTask)
<1>1. Head(queue) \in PutTask /\ Tail(queue) \in Seq(PutTask)
      /\ Len(Tail(queue)) = Len(queue) - 1
  <2>1. queue \in Seq(PutTask) /\ queue # <<>>
    BY DEF TypeOK, TakeMessage
  <2> QED
    BY <2>1
<1>2. received' \in Seq(PutTask) /\ queue' \in Seq(PutTask)
      /\ Len(queue') <= MaxSize
  <2>1. received' = Append(received, Head(queue)) /\ queue' = Tail(queue)
    BY DEF TakeMessage
  <2>2. received \in Seq(PutTask) /\ queue \in Seq(PutTask)
        /\ Len(queue) <= MaxSize /\ Len(queue) \in Nat
    BY DEF TypeOK
  <2> QED BY <1>1, <2>1, <2>2
<1>3. CASE putters = <<>>
  BY <1>2, <1>3 DEF TypeOK, TakeMessage
<1>4. CASE putters # <<>>
  <2>1. Tail(putters) \in Seq(PutTask) /\ Head(putters) \in PutTask
    BY <1>4 DEF TypeOK
  <2>2. Append(rest, Head(putters)) \in Seq({App} \cup PutTask)
    BY <2>1
  <2>3. putters' = Tail(putters) /\ ready' = Append(rest, Head(putters))
    BY <1>4 DEF TakeMessage
  <2> QED BY <1>2, <2>1, <2>2, <2>3
<1> QED BY <1>3, <1>4

(* Every variable keeps its type and the queue never exceeds its capacity, *)
(* whatever the load.                                                      *)
THEOREM TypeCorrect == Spec => []TypeOK
<1>1. Init => TypeOK
  <2> SUFFICES ASSUME Init PROVE TypeOK
    OBVIOUS
  <2>1. ended \in BOOLEAN /\ registered \in BOOLEAN /\ app \in AppState
    BY DEF Init
  <2>5. puts \in 0..MaxPuts /\ final \in 0..MaxPuts
    <3>1. 0 \in 0..MaxPuts
      BY BodyAssumption
    <3> QED
      BY <3>1 DEF Init
  <2>2. ready \in Seq({App} \cup PutTask) /\ queue \in Seq(PutTask)
    BY DEF Init
  <2>3. Len(queue) <= MaxSize
    BY DEF Init
  <2>4. putters \in Seq(PutTask) /\ received \in Seq(PutTask)
    BY DEF Init
  <2> QED BY <2>1, <2>2, <2>3, <2>4, <2>5 DEF TypeOK
<1>2. TypeOK /\ [Next]_vars => TypeOK'
  <2> SUFFICES ASSUME TypeOK, [Next]_vars PROVE TypeOK'
    OBVIOUS
  <2>1. CASE RequestReceived
    <3>1. <<1, App>> \in Seq({App} \cup PutTask)
      OBVIOUS
    <3> QED BY <2>1, <3>1 DEF TypeOK, RequestReceived
  <2>2. CASE HandleUpgradeStream1
    <3>1. <<1, App>> \in Seq({App} \cup PutTask)
      OBVIOUS
    <3> QED BY <2>2, <3>1 DEF TypeOK, HandleUpgradeStream1
  <2>3. CASE DataReceived
    BY <2>3 DEF TypeOK, DataReceived, CreatePutTask
  <2>4. CASE StreamEnded
    BY <2>4 DEF TypeOK, StreamEnded, CreatePutTask
  <2>5. CASE StreamReset
    BY <2>5 DEF TypeOK, StreamReset
  <2>6. CASE PutParks
    BY <2>6, HeadIsPut DEF TypeOK, PutParks
  <2>7. CASE PutStores
    <3>1. Head(ready) \in PutTask
      BY <2>7, HeadIsPut DEF PutStores
    <3>2. Tail(ready) \in Seq({App} \cup PutTask)
      BY <2>7 DEF PutStores, TypeOK
    <3>3. queue' \in Seq(PutTask) /\ Len(queue') <= MaxSize
      <4>1. queue' = Append(queue, Head(ready)) /\ Len(queue) < MaxSize
        BY <2>7 DEF PutStores
      <4>2. queue \in Seq(PutTask) /\ Len(queue) \in Nat
        BY DEF TypeOK
      <4> QED BY <3>1, <4>1, <4>2
    <3>4. ready' \in Seq({App} \cup PutTask) /\ app' \in AppState
      <4>1. CASE app = "getter"
        <5>1. app' = "woken" /\ ready' = Append(Tail(ready), App)
          BY <2>7, <4>1 DEF PutStores
        <5>2. app' \in AppState
          BY <5>1
        <5>3. \A rest \in Seq({App} \cup PutTask) : Append(rest, App) \in Seq({App} \cup PutTask)
          OBVIOUS
        <5> QED
          BY <3>2, <5>1, <5>2, <5>3
      <4>2. CASE app # "getter"
        BY <2>7, <3>2, <4>2 DEF PutStores, TypeOK
      <4> QED BY <4>1, <4>2
    <3>5. UNCHANGED <<puts, ended, final, registered, putters, received>>
      BY <2>7 DEF PutStores
    <3> QED BY <3>3, <3>4, <3>5 DEF TypeOK
  <2>8. CASE RunApp
    BY <2>8 DEF TypeOK, RunApp
  <2>9. CASE ResumeGet
    <3>1. Tail(ready) \in Seq({App} \cup PutTask)
      BY <2>9 DEF ResumeGet, TypeOK
    <3> QED BY <2>9, <3>1, TakeTyped DEF TypeOK, ResumeGet
  <2>10. CASE ReceiveNow
    <3>1. ready \in Seq({App} \cup PutTask)
      BY DEF TypeOK
    <3> QED BY <2>10, <3>1, TakeTyped DEF TypeOK, ReceiveNow
  <2>11. CASE ReceiveParks
    BY <2>11 DEF TypeOK, ReceiveParks
  <2>12. CASE Await
    BY <2>12 DEF TypeOK, Await
  <2>13. CASE Awake
    BY <2>13 DEF TypeOK, Awake
  <2>14. CASE Finish
    BY <2>14 DEF TypeOK, Finish
  <2>15. CASE UNCHANGED vars
    BY <2>15 DEF TypeOK, vars
  <2> QED
    BY <2>1, <2>2, <2>3, <2>4, <2>5, <2>6, <2>7, <2>8, <2>9, <2>10, <2>11,
       <2>12, <2>13, <2>14, <2>15 DEF Next
<1> QED BY <1>1, <1>2, PTL DEF Spec

-----------------------------------------------------------------------------
(* What the steps of the loop do to the put tasks in `ready`: the          *)
(* application's entry does not matter, the task at the head is the next,  *)
(* a new task goes to the end.                                             *)
LEMMA ContinuesAppendApp ==
    ASSUME NEW r \in Seq(Nat), NEW f \in Nat \ {0}, NEW l \in Nat,
           Continues(r, f, l)
    PROVE  Continues(Append(r, App), f, l)
<1> DEFINE q == Append(r, App)
<1>1. /\ Len(r) \in Nat /\ Len(q) = Len(r) + 1 /\ q[Len(r) + 1] = App
      /\ \A i \in 1..Len(r) : q[i] = r[i] /\ r[i] \in Nat
  OBVIOUS
<1>2. \A i \in 1..Len(q) : q[i] # App => i \in 1..Len(r)
  BY <1>1
<1> HIDE DEF q
<1>3. \A i, j \in 1..Len(q) :
         i < j /\ q[i] # App /\ q[j] # App => q[i] < q[j]
  BY <1>1, <1>2 DEF Continues
<1>4. \A i \in 1..Len(q) : q[i] # App => f <= q[i] /\ q[i] <= l
  BY <1>1, <1>2 DEF Continues
<1>5. \A m \in f..l : \E i \in 1..Len(q) : q[i] = m
  <2> TAKE m \in f..l
  <2>1. PICK i \in 1..Len(r) : r[i] = m
    BY DEF Continues
  <2>2. i \in 1..Len(q) /\ q[i] = m
    BY <1>1, <2>1
  <2> QED BY <2>2
<1>6. Continues(q, f, l)
  BY <1>3, <1>4, <1>5 DEF Continues
<1> QED BY <1>6 DEF q

LEMMA ContinuesAppendPut ==
    ASSUME NEW r \in Seq(Nat), NEW f \in Nat \ {0}, NEW l \in Nat,
           Continues(r, f, l), f <= l + 1
    PROVE  Continues(Append(r, l + 1), f, l + 1)
<1> DEFINE q == Append(r, l + 1)
<1>1. /\ Len(r) \in Nat /\ Len(q) = Len(r) + 1 /\ q[Len(r) + 1] = l + 1
      /\ \A i \in 1..Len(r) : q[i] = r[i] /\ r[i] \in Nat
  OBVIOUS
<1> HIDE DEF q
<1>2. ASSUME NEW i \in 1..Len(q), NEW j \in 1..Len(q),
             i < j, q[i] # App, q[j] # App
      PROVE  q[i] < q[j]
  <2>1. i \in 1..Len(r) /\ q[i] = r[i]
    BY <1>1, <1>2
  <2>2. r[i] <= l /\ r[i] \in Nat
    BY <1>1, <1>2, <2>1 DEF Continues
  <2>3. CASE j = Len(r) + 1
    BY <1>1, <2>1, <2>2, <2>3
  <2>4. CASE j # Len(r) + 1
    <3>1. j \in 1..Len(r) /\ q[j] = r[j]
      BY <1>1, <2>4
    <3> QED BY <1>2, <2>1, <3>1 DEF Continues
  <2> QED BY <2>3, <2>4
<1>3. ASSUME NEW i \in 1..Len(q), q[i] # App
      PROVE  f <= q[i] /\ q[i] <= l + 1
  <2>1. CASE i = Len(r) + 1
    BY <1>1, <2>1
  <2>2. CASE i # Len(r) + 1
    <3>1. i \in 1..Len(r) /\ q[i] = r[i] /\ r[i] \in Nat
      BY <1>1, <2>2
    <3>2. f <= r[i] /\ r[i] <= l
      BY <1>3, <3>1 DEF Continues
    <3> QED BY <3>1, <3>2
  <2> QED BY <2>1, <2>2
<1>4. ASSUME NEW m \in f..(l + 1)
      PROVE  \E i \in 1..Len(q) : q[i] = m
  <2>1. CASE m = l + 1
    <3>1. Len(r) + 1 \in 1..Len(q)
      BY <1>1
    <3> QED BY <1>1, <2>1, <3>1
  <2>2. CASE m # l + 1
    <3>1. PICK i \in 1..Len(r) : r[i] = m
      BY <2>2 DEF Continues
    <3>2. i \in 1..Len(q) /\ q[i] = m
      BY <1>1, <3>1
    <3> QED BY <3>2
  <2> QED BY <2>1, <2>2
<1>5. Continues(q, f, l + 1)
  BY <1>2, <1>3, <1>4 DEF Continues
<1> QED BY <1>5 DEF q

(* The entries of a sequence without its first one.                        *)
LEMMA TailAt ==
    ASSUME NEW r \in Seq(Nat), r # <<>>
    PROVE  /\ Len(r) \in Nat \ {0} /\ Len(Tail(r)) = Len(r) - 1
           /\ Head(r) = r[1] /\ 1 \in 1..Len(r)
           /\ \A i \in 1..Len(r) : r[i] \in Nat
           /\ \A i \in 1..Len(Tail(r)) :
                 Tail(r)[i] = r[i + 1] /\ i + 1 \in 1..Len(r)
           /\ \A i \in 1..Len(r) : i # 1 => i - 1 \in 1..Len(Tail(r))
<1>1. Len(r) \in Nat \ {0} /\ Head(r) = r[1]
  OBVIOUS
<1>2. Len(Tail(r)) = Len(r) - 1
  BY <1>1
<1>3. \A i \in 1..Len(r) : r[i] \in Nat
  OBVIOUS
<1>4. \A i \in 1..(Len(r) - 1) : Tail(r)[i] = r[i + 1] /\ i + 1 \in 1..Len(r)
  BY <1>1
<1>5. \A i \in 1..Len(r) : i # 1 => i - 1 \in 1..(Len(r) - 1)
  BY <1>1
<1> QED BY <1>1, <1>2, <1>3, <1>4, <1>5

LEMMA ContinuesTailApp ==
    ASSUME NEW r \in Seq(Nat), r # <<>>, NEW f \in Nat \ {0}, NEW l \in Nat,
           Continues(r, f, l), Head(r) = App
    PROVE  Continues(Tail(r), f, l)
<1> DEFINE q == Tail(r)
<1>1. /\ Len(r) \in Nat \ {0} /\ Len(q) = Len(r) - 1 /\ r[1] = App
      /\ \A i \in 1..Len(q) : q[i] = r[i + 1] /\ i + 1 \in 1..Len(r)
      /\ \A i \in 1..Len(r) : i # 1 => i - 1 \in 1..Len(q)
  BY TailAt
<1> HIDE DEF q
<1>2. \A i, j \in 1..Len(q) :
         i < j /\ q[i] # App /\ q[j] # App => q[i] < q[j]
  <2> TAKE i, j \in 1..Len(q)
  <2>1. /\ q[i] = r[i + 1] /\ i + 1 \in 1..Len(r)
        /\ q[j] = r[j + 1] /\ j + 1 \in 1..Len(r)
        /\ i < j => i + 1 < j + 1
    BY <1>1
  <2> QED BY <2>1 DEF Continues
<1>3. \A i \in 1..Len(q) : q[i] # App => f <= q[i] /\ q[i] <= l
  BY <1>1 DEF Continues
<1>4. ASSUME NEW m \in f..l
      PROVE  \E i \in 1..Len(q) : q[i] = m
  <2>1. PICK i \in 1..Len(r) : r[i] = m
    BY DEF Continues
  <2>2. i - 1 \in 1..Len(q)
    BY <1>1, <2>1
  <2>3. q[i - 1] = m
    BY <1>1, <2>1, <2>2
  <2> QED BY <2>2, <2>3
<1>5. Continues(q, f, l)
  BY <1>2, <1>3, <1>4 DEF Continues
<1> QED BY <1>5 DEF q

LEMMA ContinuesTailPut ==
    ASSUME NEW r \in Seq(Nat), r # <<>>, NEW f \in Nat \ {0}, NEW l \in Nat,
           Continues(r, f, l), Head(r) # App
    PROVE  Head(r) = f /\ f <= l /\ Continues(Tail(r), f + 1, l)
<1> DEFINE q == Tail(r)
<1>1. /\ Len(r) \in Nat \ {0} /\ Len(q) = Len(r) - 1 /\ r[1] = Head(r)
      /\ \A i \in 1..Len(r) : r[i] \in Nat
      /\ \A i \in 1..Len(q) : q[i] = r[i + 1] /\ i + 1 \in 1..Len(r)
      /\ \A i \in 1..Len(r) : i # 1 => i - 1 \in 1..Len(q)
      /\ 1 \in 1..Len(r)
  BY TailAt
<1> HIDE DEF q
<1>2. f <= r[1] /\ r[1] <= l /\ r[1] # App
  BY <1>1 DEF Continues
<1>3. PICK k \in 1..Len(r) : r[k] = f
  BY <1>1, <1>2 DEF Continues
<1>4. \A i \in 1..Len(r) : i # 1 /\ r[i] # App => r[1] < r[i]
  BY <1>1, <1>2 DEF Continues
<1>5. r[1] = f
  BY <1>1, <1>2, <1>3, <1>4
<1>6. \A i, j \in 1..Len(q) :
         i < j /\ q[i] # App /\ q[j] # App => q[i] < q[j]
  <2> TAKE i, j \in 1..Len(q)
  <2>1. /\ q[i] = r[i + 1] /\ i + 1 \in 1..Len(r)
        /\ q[j] = r[j + 1] /\ j + 1 \in 1..Len(r)
        /\ i < j => i + 1 < j + 1
    BY <1>1
  <2> QED BY <2>1 DEF Continues
<1>7. \A i \in 1..Len(q) : q[i] # App => f + 1 <= q[i] /\ q[i] <= l
  <2> TAKE i \in 1..Len(q)
  <2> HAVE q[i] # App
  <2>1. q[i] = r[i + 1] /\ i + 1 \in 1..Len(r) /\ i + 1 # 1
        /\ r[i + 1] \in Nat
    BY <1>1
  <2>2. f < r[i + 1] /\ r[i + 1] <= l
    BY <1>4, <1>5, <2>1 DEF Continues
  <2> QED BY <2>1, <2>2
<1>8. ASSUME NEW m \in (f + 1)..l
      PROVE  \E i \in 1..Len(q) : q[i] = m
  <2>1. PICK i \in 1..Len(r) : r[i] = m
    BY DEF Continues
  <2>2. i # 1
    BY <1>5, <2>1
  <2>3. i - 1 \in 1..Len(q)
    BY <1>1, <2>1, <2>2
  <2>4. q[i - 1] = m
    BY <1>1, <2>1, <2>3
  <2> QED BY <2>3, <2>4
<1>9. Continues(q, f + 1, l)
  BY <1>6, <1>7, <1>8 DEF Continues
<1> QED BY <1>1, <1>2, <1>5, <1>9 DEF q

(* The types that the lemmas on sequences need.                            *)
LEMMA Types ==
    ASSUME TypeOK
    PROVE  /\ puts \in Nat /\ Handed \in Nat
           /\ ready \in Seq(Nat) /\ queue \in Seq(Nat)
           /\ received \in Seq(Nat)
           /\ Len(queue) \in Nat /\ Len(received) \in Nat
<1>1. PutTask \subseteq Nat /\ {App} \cup PutTask \subseteq Nat
  OBVIOUS
<1>2. puts \in Nat /\ Len(queue) \in Nat /\ Len(received) \in Nat
  BY DEF TypeOK
<1>3. ready \in Seq(Nat) /\ queue \in Seq(Nat) /\ received \in Seq(Nat)
  BY <1>1 DEF TypeOK
<1> QED BY <1>2, <1>3 DEF Handed

(* Taking a message moves it from the head of the queue to the end of what *)
(* was received; while nothing is parked nothing else changes.             *)
LEMMA TakeConsecutive ==
    ASSUME TypeOK, NEW rest \in Seq(Nat), TakeMessage(rest), Consecutive,
           Continues(rest, Handed + 1, puts), puts' = puts
    PROVE  Consecutive' /\ received' = Append(received, Len(received) + 1)
                        /\ Len(received) < puts
<1>1. /\ putters' = <<>> /\ ready' = rest
      /\ queue # <<>> /\ queue' = Tail(queue)
      /\ received' = Append(received, Head(queue))
  BY DEF TakeMessage, Consecutive
<1>2. /\ Len(queue) \in Nat \ {0} /\ Len(queue') = Len(queue) - 1
      /\ Head(queue) = queue[1] /\ 1 \in 1..Len(queue)
      /\ \A i \in 1..Len(queue') :
            queue'[i] = queue[i + 1] /\ i + 1 \in 1..Len(queue)
  BY <1>1, Types, TailAt
<1>3. \A i \in 1..Len(queue) : queue[i] = Len(received) + i
  BY DEF Consecutive
<1>4. Head(queue) = Len(received) + 1
  BY <1>2, <1>3
<1>5. Len(received') = Len(received) + 1 /\ Len(received) \in Nat
  BY <1>1, <1>4, Types
<1>6. Handed' = Handed
  BY <1>2, <1>5 DEF Handed
<1>7. ASSUME NEW i \in 1..Len(received') PROVE received'[i] = i
  <2>1. CASE i = Len(received) + 1
    BY <1>1, <1>4, <2>1, Types
  <2>2. CASE i # Len(received) + 1
    <3>1. i \in 1..Len(received)
      BY <1>5, <2>2
    <3>2. received'[i] = received[i]
      BY <1>1, <3>1, Types
    <3> QED BY <3>1, <3>2 DEF Consecutive
  <2> QED BY <2>1, <2>2
<1>8. ASSUME NEW i \in 1..Len(queue') PROVE queue'[i] = Len(received') + i
  BY <1>2, <1>3, <1>5
<1>9. Handed <= puts /\ Len(received) < puts
  BY <1>2, <1>5, Types DEF Consecutive, Handed
<1>10. Consecutive'
  BY <1>1, <1>6, <1>7, <1>8, <1>9 DEF Consecutive
<1> QED BY <1>1, <1>4, <1>9, <1>10

(* Storing the task at the head of `ready` extends the queue by the next   *)
(* message.                                                                *)
LEMMA StoreConsecutive ==
    ASSUME TypeOK, PutStores, Consecutive
    PROVE  Consecutive'
<1>1. /\ ready # <<>> /\ Head(ready) # App
      /\ queue' = Append(queue, Head(ready))
      /\ received' = received /\ putters' = putters /\ puts' = puts
      /\ ready' = Tail(ready) \/ ready' = Append(Tail(ready), App)
  BY DEF PutStores
<1>2. Continues(ready, Handed + 1, puts)
  BY DEF Consecutive
<1>3. /\ Head(ready) = Handed + 1 /\ Handed + 1 <= puts
      /\ Continues(Tail(ready), Handed + 2, puts)
  <2>1. Handed + 1 \in Nat \ {0} /\ Handed + 1 + 1 = Handed + 2
    BY Types
  <2> QED BY <1>1, <1>2, <2>1, Types, ContinuesTailPut
<1>4. Len(queue') = Len(queue) + 1 /\ Handed' = Handed + 1
  BY <1>1, <1>3, Types DEF Handed
<1>5. ASSUME NEW i \in 1..Len(queue') PROVE queue'[i] = Len(received') + i
  <2>1. CASE i = Len(queue) + 1
    BY <1>1, <1>3, <2>1, Types DEF Handed
  <2>2. CASE i # Len(queue) + 1
    <3>1. i \in 1..Len(queue)
      BY <1>4, <2>2, Types
    <3>2. queue'[i] = queue[i]
      BY <1>1, <1>3, <3>1, Types
    <3> QED BY <1>1, <3>1, <3>2 DEF Consecutive
  <2> QED BY <2>1, <2>2
<1>6. Continues(ready', Handed' + 1, puts)
  <2>1. Handed' + 1 = Handed + 2 /\ Handed + 2 \in Nat \ {0}
    BY <1>4, Types
  <2>2. Tail(ready) \in Seq(Nat)
    BY <1>1, Types
  <2>3. Continues(Append(Tail(ready), App), Handed + 2, puts)
    BY <1>3, <2>1, <2>2, Types, ContinuesAppendApp
  <2> QED BY <1>1, <1>3, <2>1, <2>3
<1> QED BY <1>1, <1>3, <1>4, <1>5, <1>6 DEF Consecutive

(* No put task parks while the request is short: the task at the head of   *)
(* ready is the next message, so the messages before it are fewer than the *)
(* queue holds.                                                            *)
LEMMA ShortNeverParks ==
    ASSUME TypeOK, Consecutive, puts <= MaxSize
    PROVE  ~PutParks
<1> SUFFICES ASSUME PutParks PROVE FALSE
  OBVIOUS
<1>1. ready # <<>> /\ Head(ready) # App /\ Len(queue) >= MaxSize
  BY DEF PutParks
<1>2. Handed + 1 \in Nat \ {0}
  BY Types
<1>3. Handed + 1 <= puts
  BY <1>1, <1>2, Types, ContinuesTailPut DEF Consecutive
<1> QED BY <1>1, <1>3, Types DEF Handed

(* An App entry put at the end of ready or taken from its head, or nothing *)
(* at all, while the messages stay where they are.                         *)
LEMMA SameMessages ==
    ASSUME TypeOK, Consecutive,
           UNCHANGED <<puts, queue, putters, received>>,
           \/ ready' = ready
           \/ ready' = Append(ready, App)
           \/ ready # <<>> /\ Head(ready) = App /\ ready' = Tail(ready)
    PROVE  Consecutive'
<1>1. Handed' = Handed /\ Handed + 1 \in Nat \ {0}
  BY Types DEF Handed
<1>2. Continues(ready, Handed + 1, puts)
  BY DEF Consecutive
<1>3. Continues(ready', Handed + 1, puts)
  BY <1>1, <1>2, Types, ContinuesAppendApp, ContinuesTailApp
<1> QED BY <1>1, <1>3 DEF Consecutive

LEMMA FirstConsecutive ==
    ASSUME Unstarted, app = "none", puts' = 1, ready' = <<1, App>>,
           UNCHANGED <<queue, putters, received>>
    PROVE  Consecutive'
<1>1. queue' = <<>> /\ received' = <<>> /\ putters' = <<>> /\ Handed' = 0
  BY DEF Unstarted, Handed
<1>2. Len(ready') = 2 /\ ready'[1] = 1 /\ ready'[2] = App
  OBVIOUS
<1>3. Continues(ready', 1, 1)
  BY <1>2 DEF Continues
<1> QED BY <1>1, <1>3 DEF Consecutive

LEMMA ShortInvStep ==
    ASSUME TypeOK, ShortInv, [Next]_vars
    PROVE  ShortInv'
<1>1. Unstarted'
  <2>1. CASE app = "none"
    <3>1. ready = <<>> /\ ~registered /\ puts = 0
      BY <2>1 DEF ShortInv, Unstarted
    <3>2. RequestReceived \/ HandleUpgradeStream1 \/ UNCHANGED vars
      BY <2>1, <3>1
         DEF Next, DataReceived, StreamEnded, CreatePutTask, StreamReset,
             PutParks, PutStores, RunApp, ResumeGet, ReceiveNow,
             ReceiveParks, Await, Awake, Finish
    <3>3. CASE RequestReceived \/ HandleUpgradeStream1
      BY <3>3 DEF RequestReceived, HandleUpgradeStream1, Unstarted
    <3>4. CASE UNCHANGED vars
      BY <3>4 DEF ShortInv, Unstarted, vars
    <3> QED BY <3>2, <3>3, <3>4
  <2>2. CASE app # "none"
    <3>1. app' # "none"
      BY <2>2
         DEF Next, vars, RequestReceived, HandleUpgradeStream1, DataReceived,
             StreamEnded, CreatePutTask, StreamReset, PutParks, PutStores,
             RunApp, ResumeGet, ReceiveNow, ReceiveParks, Await, Awake, Finish
    <3> QED BY <3>1 DEF Unstarted
  <2> QED BY <2>1, <2>2
<1>2. ASSUME puts' <= MaxSize PROVE Consecutive'
  <2>1. CASE RequestReceived \/ HandleUpgradeStream1
    BY <2>1, FirstConsecutive
       DEF ShortInv, RequestReceived, HandleUpgradeStream1
  <2>2. CASE DataReceived \/ StreamEnded
    <3>1. CreatePutTask /\ puts' = puts + 1
      BY <2>2 DEF DataReceived, StreamEnded, CreatePutTask
    <3>2. Consecutive
      BY <1>2, <3>1, Types DEF ShortInv
    <3>3. /\ ready' = Append(ready, puts + 1)
          /\ UNCHANGED <<queue, putters, received>>
      BY <3>1 DEF CreatePutTask
    <3>4. Handed' = Handed /\ Handed <= puts /\ Handed + 1 \in Nat \ {0}
      BY <3>2, <3>3, Types DEF Consecutive, Handed
    <3>5. Continues(ready', Handed' + 1, puts')
      BY <3>1, <3>2, <3>3, <3>4, Types, ContinuesAppendPut DEF Consecutive
    <3>6. Handed' <= puts'
      BY <3>1, <3>4, Types
    <3> QED BY <3>2, <3>3, <3>5, <3>6 DEF Consecutive
  <2>3. CASE PutParks
    <3>1. puts' = puts
      BY <2>3 DEF PutParks
    <3> QED BY <1>2, <2>3, <3>1, ShortNeverParks DEF ShortInv
  <2>4. CASE PutStores
    <3>1. puts' = puts
      BY <2>4 DEF PutStores
    <3> QED BY <1>2, <2>4, <3>1, StoreConsecutive DEF ShortInv
  <2>5. CASE ResumeGet
    <3>1. /\ puts' = puts /\ TakeMessage(Tail(ready))
          /\ ready # <<>> /\ Head(ready) = App
      BY <2>5 DEF ResumeGet
    <3>2. Consecutive
      BY <1>2, <3>1 DEF ShortInv
    <3>3. Tail(ready) \in Seq(Nat) /\ Handed + 1 \in Nat \ {0}
      BY <3>1, Types
    <3>4. Continues(Tail(ready), Handed + 1, puts)
      BY <3>1, <3>2, <3>3, Types, ContinuesTailApp DEF Consecutive
    <3> QED BY <3>1, <3>2, <3>3, <3>4, TakeConsecutive
  <2>6. CASE ReceiveNow
    <3>1. puts' = puts /\ TakeMessage(ready)
      BY <2>6 DEF ReceiveNow
    <3>2. Consecutive
      BY <1>2, <3>1 DEF ShortInv
    <3>3. Continues(ready, Handed + 1, puts)
      BY <3>2 DEF Consecutive
    <3> QED BY <3>1, <3>2, <3>3, Types, TakeConsecutive
  <2>7. CASE \/ StreamReset \/ RunApp \/ ReceiveParks \/ Await \/ Awake
             \/ Finish \/ UNCHANGED vars
    <3>1. /\ UNCHANGED <<puts, queue, putters, received>>
          /\ \/ ready' = ready
             \/ ready' = Append(ready, App)
             \/ ready # <<>> /\ Head(ready) = App /\ ready' = Tail(ready)
      BY <2>7 DEF StreamReset, RunApp, ReceiveParks, Await, Awake, Finish,
                  vars
    <3>2. Consecutive
      BY <1>2, <3>1 DEF ShortInv
    <3> QED BY <3>1, <3>2, SameMessages
  <2> QED
    BY <2>1, <2>2, <2>3, <2>4, <2>5, <2>6, <2>7 DEF Next
<1> QED BY <1>1, <1>2 DEF ShortInv

LEMMA ShortInvInit == Init => ShortInv
<1> SUFFICES ASSUME Init PROVE ShortInv
  OBVIOUS
<1>1. Unstarted
  BY DEF Init, Unstarted
<1>2. Consecutive
  BY DEF Init, Consecutive, Continues, Handed
<1> QED BY <1>1, <1>2 DEF ShortInv

LEMMA ShortInvariant == Spec => []ShortInv
BY ShortInvInit, ShortInvStep, TypeCorrect, PTL DEF Spec

(* A request that amounts to no more messages than the queue holds (32) is *)
(* delivered in order, whatever the interleaving of data_received, the put *)
(* tasks and the application.                                              *)
THEOREM ShortRequestsInOrder == Spec => []InOrderWhileShort
<1>1. TypeOK /\ ShortInv => InOrderWhileShort
  <2> SUFFICES ASSUME TypeOK, ShortInv, puts <= MaxSize,
                      NEW i \in DOMAIN received
               PROVE  received[i] = i
    BY DEF InOrderWhileShort, InOrder
  <2>1. DOMAIN received = 1..Len(received)
    BY Types
  <2> QED BY <2>1 DEF ShortInv, Consecutive
<1> QED BY <1>1, TypeCorrect, ShortInvariant, PTL

-----------------------------------------------------------------------------
(* Every message is in one place.  A step of the loop moves messages from  *)
(* the front of one sequence to the end of another one.                    *)

LEMMA AppendPlaces ==
    ASSUME NEW s \in Seq(Nat), NEW e \in Nat
    PROVE  /\ \A m : InSeq(Append(s, e), m) <=> InSeq(s, m) \/ m = e
           /\ NoRepeat(s) /\ ~InSeq(s, e) => NoRepeat(Append(s, e))
<1> DEFINE t == Append(s, e)
<1>1. /\ Len(s) \in Nat /\ Len(t) = Len(s) + 1
      /\ DOMAIN s = 1..Len(s) /\ DOMAIN t = 1..(Len(s) + 1)
      /\ t[Len(s) + 1] = e
      /\ \A i \in 1..Len(s) : t[i] = s[i]
  OBVIOUS
<1> HIDE DEF t
<1>2. \A i \in DOMAIN t : i \in DOMAIN s \/ i = Len(s) + 1
  BY <1>1
<1>3. DOMAIN s \subseteq DOMAIN t /\ Len(s) + 1 \in DOMAIN t
  BY <1>1
<1>4. \A m : InSeq(t, m) <=> InSeq(s, m) \/ m = e
  BY <1>1, <1>2, <1>3 DEF InSeq
<1>5. NoRepeat(s) /\ ~InSeq(s, e) => NoRepeat(t)
  BY <1>1, <1>2, <1>3 DEF InSeq, NoRepeat
<1> QED BY <1>4, <1>5 DEF t

LEMMA TailPlaces ==
    ASSUME NEW s \in Seq(Nat), s # <<>>, NoRepeat(s)
    PROVE  /\ InSeq(s, Head(s))
           /\ \A m : InSeq(Tail(s), m) <=> InSeq(s, m) /\ m # Head(s)
           /\ NoRepeat(Tail(s))
<1> DEFINE t == Tail(s)
<1>1. /\ Len(s) \in Nat /\ Len(s) >= 1 /\ Len(t) = Len(s) - 1
      /\ DOMAIN s = 1..Len(s) /\ DOMAIN t = 1..(Len(s) - 1)
      /\ Head(s) = s[1]
      /\ \A i \in 1..(Len(s) - 1) : t[i] = s[i + 1]
  OBVIOUS
<1> HIDE DEF t
<1>2. InSeq(s, Head(s))
  BY <1>1 DEF InSeq
<1>3. ASSUME NEW m, InSeq(t, m) PROVE InSeq(s, m) /\ m # Head(s)
  <2>1. PICK i \in DOMAIN t : t[i] = m
    BY <1>3 DEF InSeq
  <2>2. i + 1 \in DOMAIN s /\ s[i + 1] = m /\ i + 1 # 1 /\ 1 \in DOMAIN s
    BY <1>1, <2>1
  <2> QED BY <1>1, <2>2 DEF InSeq, NoRepeat
<1>4. ASSUME NEW m, InSeq(s, m), m # Head(s) PROVE InSeq(t, m)
  <2>1. PICK i \in DOMAIN s : s[i] = m
    BY <1>4 DEF InSeq
  <2>2. i # 1
    BY <1>1, <1>4, <2>1
  <2>3. i - 1 \in DOMAIN t /\ t[i - 1] = m
    BY <1>1, <2>1, <2>2
  <2> QED BY <2>3 DEF InSeq
<1>5. NoRepeat(t)
  <2> SUFFICES ASSUME NEW i \in DOMAIN t, NEW j \in DOMAIN t, t[i] = t[j]
               PROVE  i = j
    BY DEF NoRepeat
  <2>1. i \in Nat /\ j \in Nat /\ i + 1 \in DOMAIN s /\ j + 1 \in DOMAIN s
        /\ s[i + 1] = s[j + 1]
    BY <1>1
  <2>2. i + 1 = j + 1
    BY <2>1 DEF NoRepeat
  <2> QED BY <2>1, <2>2
<1> QED BY <1>2, <1>3, <1>4, <1>5 DEF t

(* The messages 1..n, and no others, are in exactly one of four sequences. *)
Apart(a, b, c, d, n) ==
    /\ NoRepeat(a) /\ NoRepeat(b) /\ NoRepeat(c) /\ NoRepeat(d)
    /\ \A m \in PutTask :
          /\ m <= n <=> InSeq(a, m) \/ InSeq(b, m) \/ InSeq(c, m) \/ InSeq(d, m)
          /\ InSeq(a, m) => ~InSeq(b, m) /\ ~InSeq(c, m) /\ ~InSeq(d, m)
          /\ InSeq(b, m) => ~InSeq(c, m) /\ ~InSeq(d, m)
          /\ InSeq(c, m) => ~InSeq(d, m)

AppIsReady == app \in {"new", "awake", "woken"}

Placed ==
    /\ Apart(received, queue, putters, ready, puts)
    /\ InSeq(ready, App) <=> AppIsReady

(* A message taken is one that was not received; a putter that is woken    *)
(* moves to `ready`.                                                       *)
LEMMA TakeApart ==
    ASSUME TypeOK, NEW rest \in Seq({App} \cup PutTask), TakeMessage(rest),
           Apart(received, queue, putters, rest, puts)
    PROVE  /\ Apart(received', queue', putters', ready', puts)
           /\ InSeq(ready', App) <=> InSeq(rest, App)
           /\ Head(queue) \in 1..puts
           /\ ~InSeq(received, Head(queue))
<1> DEFINE h == Head(queue)
           g == Head(putters)
<1>1. /\ queue # <<>> /\ queue \in Seq(Nat) /\ h \in PutTask
      /\ received \in Seq(Nat) /\ putters \in Seq(Nat) /\ rest \in Seq(Nat)
      /\ putters # <<>> => g \in PutTask
      /\ puts \in Nat
  <2>1. queue # <<>>
    BY DEF TakeMessage
  <2>2. /\ queue \in Seq(PutTask) /\ received \in Seq(PutTask)
        /\ putters \in Seq(PutTask) /\ puts \in Nat
    BY DEF TypeOK
  <2>3. h \in PutTask /\ (putters # <<>> => g \in PutTask)
    BY <2>1, <2>2
  <2> QED BY <2>1, <2>2, <2>3
<1>2. received' = Append(received, h) /\ queue' = Tail(queue)
  BY DEF TakeMessage
<1>3. /\ NoRepeat(received) /\ NoRepeat(queue) /\ NoRepeat(putters)
      /\ NoRepeat(rest)
  BY DEF Apart
<1>4. /\ InSeq(queue, h)
      /\ \A m : InSeq(queue', m) <=> InSeq(queue, m) /\ m # h
      /\ NoRepeat(queue')
  BY <1>1, <1>2, <1>3, TailPlaces
<1>5. ~InSeq(received, h) /\ h <= puts
  BY <1>1, <1>4 DEF Apart
<1>6. /\ \A m : InSeq(received', m) <=> InSeq(received, m) \/ m = h
      /\ NoRepeat(received')
  BY <1>1, <1>2, <1>3, <1>5, AppendPlaces
<1>7. h \in 1..puts
  BY <1>1, <1>5
<1> HIDE DEF h, g
<1>8. CASE putters = <<>>
  <2>1. putters' = putters /\ ready' = rest
    BY <1>8 DEF TakeMessage
  <2> QED BY <1>1, <1>3, <1>4, <1>5, <1>6, <1>7, <2>1, Zenon DEF Apart, h
<1>9. CASE putters # <<>>
  <2>1. putters' = Tail(putters) /\ ready' = Append(rest, g)
    BY <1>9 DEF TakeMessage, g
  <2>2. /\ InSeq(putters, g)
        /\ \A m : InSeq(putters', m) <=> InSeq(putters, m) /\ m # g
        /\ NoRepeat(putters')
    BY <1>1, <1>3, <1>9, <2>1, TailPlaces DEF g
  <2>3. ~InSeq(rest, g)
    BY <1>1, <1>9, <2>2 DEF Apart
  <2>4. /\ \A m : InSeq(ready', m) <=> InSeq(rest, m) \/ m = g
        /\ NoRepeat(ready')
    BY <1>1, <1>3, <1>9, <2>1, <2>3, AppendPlaces
  <2>5. App # g
    BY <1>1, <1>9
  <2>6. Apart(received', queue', putters', ready', puts)
    BY <1>1, <1>3, <1>4, <1>5, <1>6, <1>9, <2>2, <2>3, <2>4 DEF Apart
  <2> QED BY <1>5, <1>7, <2>4, <2>5, <2>6 DEF h
<1> QED BY <1>8, <1>9

(* What is left when the application's entry is taken out of `ready`.      *)
LEMMA AppLeaves ==
    ASSUME TypeOK, Placed, ready # <<>>, Head(ready) = App
    PROVE  /\ Tail(ready) \in Seq({App} \cup PutTask)
           /\ Apart(received, queue, putters, Tail(ready), puts)
           /\ ~InSeq(Tail(ready), App)
<1>1. ready \in Seq(Nat) /\ Tail(ready) \in Seq({App} \cup PutTask)
  BY DEF TypeOK
<1>2. /\ \A m : InSeq(Tail(ready), m) <=> InSeq(ready, m) /\ m # App
      /\ NoRepeat(Tail(ready))
  BY <1>1, TailPlaces DEF Placed, Apart
<1>3. \A m \in PutTask : m # App
  OBVIOUS
<1> QED BY <1>1, <1>2, <1>3 DEF Placed, Apart

LEMMA PlacedInit == Init => Placed
<1>1. ASSUME Init PROVE Placed
  <2>1. \A m : ~InSeq(<<>>, m)
    BY DEF InSeq
  <2>2. NoRepeat(<<>>)
    BY DEF NoRepeat
  <2>3. \A m \in PutTask : ~(m <= 0)
    OBVIOUS
  <2> QED BY <1>1, <2>1, <2>2, <2>3 DEF Init, Placed, Apart, AppIsReady
<1> QED BY <1>1

(* The first message of a request: nothing was anywhere before it.         *)
LEMMA FirstPlaced ==
    ASSUME Unstarted, app = "none", puts' = 1, ready' = <<1, App>>,
           app' = "new", UNCHANGED <<queue, putters, received>>
    PROVE  Placed'
<1>1. queue' = <<>> /\ received' = <<>> /\ putters' = <<>>
  BY DEF Unstarted
<1>2. (\A m : ~InSeq(<<>>, m)) /\ NoRepeat(<<>>)
  BY DEF InSeq, NoRepeat
<1>3. DOMAIN ready' = {1, 2} /\ ready'[1] = 1 /\ ready'[2] = App
  OBVIOUS
<1>4. NoRepeat(ready') /\ \A m : InSeq(ready', m) <=> m = 1 \/ m = App
  BY <1>3 DEF NoRepeat, InSeq
<1>5. \A m \in PutTask : m <= 1 <=> m = 1
  OBVIOUS
<1>6. \A m \in PutTask : m # App
  OBVIOUS
<1>7. AppIsReady'
  BY DEF AppIsReady
<1> QED BY <1>1, <1>2, <1>4, <1>5, <1>6, <1>7 DEF Placed, Apart

LEMMA PlacedStep ==
    ASSUME TypeOK, ShortInv, Placed, [Next]_vars
    PROVE  Placed'
<1> DEFINE e == Head(ready)
<1>1. ready \in Seq(Nat) /\ queue \in Seq(Nat) /\ putters \in Seq(Nat)
  BY DEF TypeOK
<1>2. Apart(received, queue, putters, ready, puts) /\ NoRepeat(ready)
  BY DEF Placed, Apart
<1>3. \A m \in PutTask : m # App
  OBVIOUS
<1>4. CASE RequestReceived \/ HandleUpgradeStream1
  BY <1>4, FirstPlaced
     DEF ShortInv, RequestReceived, HandleUpgradeStream1
<1>5. CASE DataReceived \/ StreamEnded
  <2>1. CreatePutTask
    BY <1>5 DEF DataReceived, StreamEnded
  <2>2. /\ puts' = puts + 1 /\ ready' = Append(ready, puts + 1)
        /\ UNCHANGED <<queue, putters, received, app>>
        /\ puts \in Nat /\ puts + 1 \in PutTask
    BY <2>1 DEF CreatePutTask, TypeOK
  <2>3. /\ ~InSeq(received, puts + 1) /\ ~InSeq(queue, puts + 1)
        /\ ~InSeq(putters, puts + 1) /\ ~InSeq(ready, puts + 1)
    <3>1. ~(puts + 1 <= puts)
      BY <2>2
    <3> QED BY <1>2, <2>2, <3>1 DEF Apart
  <2>4. /\ \A m : InSeq(ready', m) <=> InSeq(ready, m) \/ m = puts + 1
        /\ NoRepeat(ready')
    BY <1>1, <1>2, <2>2, <2>3, AppendPlaces
  <2>5. \A m \in PutTask : m <= puts' <=> m <= puts \/ m = puts + 1
    BY <2>2
  <2>6. Apart(received', queue', putters', ready', puts')
    BY <1>2, <2>2, <2>3, <2>4, <2>5 DEF Apart
  <2>7. InSeq(ready', App) <=> InSeq(ready, App)
    BY <1>3, <2>2, <2>4
  <2> QED BY <2>2, <2>6, <2>7 DEF Placed, AppIsReady
<1>6. CASE PutParks \/ PutStores
  <2>1. /\ ready # <<>> /\ e # App /\ e \in PutTask
        /\ UNCHANGED <<puts, received>>
    BY <1>6, HeadIsPut DEF PutParks, PutStores
  <2>2. /\ InSeq(ready, e)
        /\ \A m : InSeq(Tail(ready), m) <=> InSeq(ready, m) /\ m # e
        /\ NoRepeat(Tail(ready)) /\ Tail(ready) \in Seq(Nat)
    BY <1>1, <1>2, <2>1, TailPlaces
  <2>3. ~InSeq(received, e) /\ ~InSeq(queue, e) /\ ~InSeq(putters, e)
    BY <1>2, <2>1, <2>2 DEF Apart
  <2> HIDE DEF e
  <2>4. CASE PutParks
    <3>1. /\ putters' = Append(putters, e) /\ ready' = Tail(ready)
          /\ UNCHANGED <<queue, app>>
      BY <2>4 DEF PutParks, e
    <3>2. /\ \A m : InSeq(putters', m) <=> InSeq(putters, m) \/ m = e
          /\ NoRepeat(putters')
      BY <1>1, <1>2, <2>1, <2>3, <3>1, AppendPlaces DEF Apart
    <3>3. Apart(received', queue', putters', ready', puts')
      BY <1>2, <2>1, <2>2, <2>3, <3>1, <3>2 DEF Apart
    <3>4. InSeq(ready', App) <=> InSeq(ready, App)
      BY <2>1, <2>2, <3>1
    <3> QED BY <3>1, <3>3, <3>4 DEF Placed, AppIsReady
  <2>5. CASE PutStores
    <3>1. queue' = Append(queue, e) /\ UNCHANGED putters
      BY <2>5 DEF PutStores, e
    <3>2. /\ \A m : InSeq(queue', m) <=> InSeq(queue, m) \/ m = e
          /\ NoRepeat(queue')
      BY <1>1, <1>2, <2>1, <2>3, <3>1, AppendPlaces DEF Apart
    <3>3. CASE app = "getter"
      <4>1. app' = "woken" /\ ready' = Append(Tail(ready), App)
        BY <2>5, <3>3 DEF PutStores
      <4>2. ~InSeq(Tail(ready), App)
        BY <2>2, <3>3 DEF Placed, AppIsReady
      <4>3. /\ \A m : InSeq(ready', m) <=> InSeq(Tail(ready), m) \/ m = App
            /\ NoRepeat(ready')
        BY <2>2, <4>1, <4>2, AppendPlaces
      <4>4. Apart(received', queue', putters', ready', puts')
        BY <1>2, <1>3, <2>1, <2>2, <2>3, <3>1, <3>2, <4>3 DEF Apart
      <4>5. InSeq(ready', App) /\ AppIsReady'
        BY <4>1, <4>3 DEF AppIsReady
      <4> QED BY <4>4, <4>5 DEF Placed
    <3>4. CASE app # "getter"
      <4>1. app' = app /\ ready' = Tail(ready)
        BY <2>5, <3>4 DEF PutStores
      <4>2. Apart(received', queue', putters', ready', puts')
        BY <1>2, <2>1, <2>2, <2>3, <3>1, <3>2, <4>1 DEF Apart
      <4>3. InSeq(ready', App) <=> InSeq(ready, App)
        BY <2>1, <2>2, <4>1
      <4> QED BY <4>1, <4>2, <4>3 DEF Placed, AppIsReady
    <3> QED BY <3>3, <3>4
  <2> QED BY <1>6, <2>4, <2>5
<1>7. CASE RunApp
  <2>1. /\ ready # <<>> /\ Head(ready) = App /\ ready' = Tail(ready)
        /\ app' = "running" /\ UNCHANGED <<puts, queue, putters, received>>
    BY <1>7 DEF RunApp
  <2>2. /\ Apart(received, queue, putters, Tail(ready), puts)
        /\ ~InSeq(Tail(ready), App)
    BY <2>1, AppLeaves
  <2> QED BY <2>1, <2>2 DEF Placed, AppIsReady
<1>8. CASE ResumeGet
  <2>1. /\ ready # <<>> /\ Head(ready) = App /\ TakeMessage(Tail(ready))
        /\ app' = "running" /\ puts' = puts
    BY <1>8 DEF ResumeGet
  <2>2. /\ Tail(ready) \in Seq({App} \cup PutTask)
        /\ Apart(received, queue, putters, Tail(ready), puts)
        /\ ~InSeq(Tail(ready), App)
    BY <2>1, AppLeaves
  <2>3. /\ Apart(received', queue', putters', ready', puts)
        /\ ~InSeq(ready', App)
    BY <2>1, <2>2, TakeApart
  <2> QED BY <2>1, <2>3 DEF Placed, AppIsReady
<1>9. CASE ReceiveNow
  <2>1. TakeMessage(ready) /\ app' = app /\ puts' = puts
    BY <1>9 DEF ReceiveNow
  <2>2. /\ Apart(received', queue', putters', ready', puts)
        /\ InSeq(ready', App) <=> InSeq(ready, App)
    BY <1>2, <2>1, TakeApart DEF TypeOK
  <2> QED BY <2>1, <2>2 DEF Placed, AppIsReady
<1>10. CASE Awake
  <2>1. /\ app = "away" /\ app' = "awake" /\ ready' = Append(ready, App)
        /\ UNCHANGED <<puts, queue, putters, received>>
    BY <1>10 DEF Awake
  <2>2. ~InSeq(ready, App)
    BY <2>1 DEF Placed, AppIsReady
  <2>3. /\ \A m : InSeq(ready', m) <=> InSeq(ready, m) \/ m = App
        /\ NoRepeat(ready')
    BY <1>1, <1>2, <2>1, <2>2, AppendPlaces
  <2>4. Apart(received', queue', putters', ready', puts')
    BY <1>2, <1>3, <2>1, <2>3 DEF Apart
  <2>5. InSeq(ready', App) /\ AppIsReady'
    BY <2>1, <2>3 DEF AppIsReady
  <2> QED BY <2>4, <2>5 DEF Placed
<1>11. CASE \/ StreamReset \/ ReceiveParks \/ Await \/ Finish
            \/ UNCHANGED vars
  <2>1. /\ UNCHANGED <<puts, ready, queue, putters, received>>
        /\ AppIsReady' <=> AppIsReady
    BY <1>11
       DEF StreamReset, ReceiveParks, Await, Finish, vars, AppIsReady
  <2> QED BY <1>2, <2>1 DEF Placed
<1> QED
  BY <1>4, <1>5, <1>6, <1>7, <1>8, <1>9, <1>10, <1>11 DEF Next

LEMMA PlacedInvariant == Spec => []Placed
BY PlacedInit, PlacedStep, TypeCorrect, ShortInvariant, PTL DEF Spec

LEMMA ConcatPlaces ==
    ASSUME NEW s \in Seq(Nat), NEW t \in Seq(Nat), NoRepeat(s), NoRepeat(t),
           \A m \in Nat : InSeq(s, m) => ~InSeq(t, m)
    PROVE  /\ \A m : InSeq(s \o t, m) <=> InSeq(s, m) \/ InSeq(t, m)
           /\ NoRepeat(s \o t)
<1> DEFINE u == s \o t
<1>1. /\ DOMAIN s = 1..Len(s) /\ DOMAIN t = 1..Len(t)
      /\ DOMAIN u = 1..(Len(s) + Len(t))
      /\ Len(s) \in Nat /\ Len(t) \in Nat
      /\ \A i \in DOMAIN s : s[i] \in Nat
      /\ \A i \in DOMAIN s : u[i] = s[i]
      /\ \A i \in DOMAIN u : i > Len(s) => u[i] = t[i - Len(s)]
  OBVIOUS
<1> HIDE DEF u
<1>2. ASSUME NEW i \in DOMAIN u
      PROVE  \/ i \in DOMAIN s
             \/ i - Len(s) \in DOMAIN t /\ i > Len(s)
  BY <1>1
<1>3. ASSUME NEW i \in DOMAIN t
      PROVE  i + Len(s) \in DOMAIN u /\ u[i + Len(s)] = t[i]
  <2>1. i + Len(s) \in DOMAIN u /\ i + Len(s) > Len(s)
        /\ i + Len(s) - Len(s) = i
    BY <1>1
  <2> QED BY <1>1, <2>1
<1>4. \A i \in DOMAIN s : i \in DOMAIN u
  BY <1>1
<1>5. \A m : InSeq(u, m) <=> InSeq(s, m) \/ InSeq(t, m)
  BY <1>1, <1>2, <1>3, <1>4 DEF InSeq
<1>6. ASSUME NEW i \in DOMAIN u, NEW j \in DOMAIN u, u[i] = u[j] PROVE i = j
  <2>1. CASE i \in DOMAIN s /\ j \in DOMAIN s
    BY <1>1, <1>6, <2>1 DEF NoRepeat
  <2>2. CASE i \notin DOMAIN s /\ j \notin DOMAIN s
    <3>1. /\ i - Len(s) \in DOMAIN t /\ j - Len(s) \in DOMAIN t
          /\ t[i - Len(s)] = t[j - Len(s)] /\ i \in Nat /\ j \in Nat
      BY <1>1, <1>2, <1>6, <2>2
    <3>2. i - Len(s) = j - Len(s)
      BY <3>1 DEF NoRepeat
    <3> QED BY <1>1, <3>1, <3>2
  <2>3. CASE i \in DOMAIN s /\ j \notin DOMAIN s
    <3>1. InSeq(s, s[i]) /\ InSeq(t, s[i]) /\ s[i] \in Nat
      BY <1>1, <1>2, <1>6, <2>3 DEF InSeq
    <3> QED BY <3>1
  <2>4. CASE i \notin DOMAIN s /\ j \in DOMAIN s
    <3>1. InSeq(s, s[j]) /\ InSeq(t, s[j]) /\ s[j] \in Nat
      BY <1>1, <1>2, <1>6, <2>4 DEF InSeq
    <3> QED BY <3>1
  <2> QED BY <2>1, <2>2, <2>3, <2>4
<1>7. NoRepeat(u)
  BY <1>6 DEF NoRepeat
<1> QED BY <1>5, <1>7 DEF u

(* Nothing is lost or duplicated on the way to the application, whatever   *)
(* the capacity and the load.                                              *)
THEOREM NothingIsLost == Spec => []NothingLost
<1>1. ASSUME TypeOK, Placed PROVE NothingLost
  <2>1. /\ received \in Seq(Nat) /\ queue \in Seq(Nat)
        /\ putters \in Seq(Nat) /\ puts \in 0..MaxPuts
    BY <1>1 DEF TypeOK
  <2>2. /\ NoRepeat(received) /\ NoRepeat(queue) /\ NoRepeat(putters)
        /\ NoRepeat(ready)
    BY <1>1 DEF Placed, Apart
  <2>3. \A m : InSeq(received, m) \/ InSeq(queue, m) \/ InSeq(putters, m)
                  => m \in PutTask
    BY <1>1 DEF TypeOK, InSeq
  <2>4. \A m \in 1..puts : m \in PutTask /\ m <= puts
    BY <2>1
  <2>5. \A m \in 1..puts : \/ InSeq(received, m) \/ InSeq(queue, m)
                           \/ InSeq(ready, m) \/ InSeq(putters, m)
    BY <1>1, <2>4 DEF Placed, Apart
  <2>6. /\ \A m : InSeq(received \o queue, m)
                     <=> InSeq(received, m) \/ InSeq(queue, m)
        /\ NoRepeat(received \o queue) /\ received \o queue \in Seq(Nat)
    <3>1. \A m \in Nat : InSeq(received, m) => ~InSeq(queue, m)
      BY <1>1, <2>3 DEF Placed, Apart
    <3> QED BY <2>1, <2>2, <3>1, ConcatPlaces
  <2>7. /\ \A m : InSeq(received \o queue \o putters, m)
                     <=> InSeq(received \o queue, m) \/ InSeq(putters, m)
        /\ NoRepeat(received \o queue \o putters)
    <3>1. \A m \in Nat : InSeq(received \o queue, m) => ~InSeq(putters, m)
      BY <1>1, <2>3, <2>6 DEF Placed, Apart
    <3> QED BY <2>1, <2>2, <2>6, <3>1, ConcatPlaces
  <2>8. ASSUME NEW i \in DOMAIN ready
        PROVE  ~InSeq(received \o queue \o putters, ready[i])
    <3>1. InSeq(ready, ready[i])
      BY <2>8 DEF InSeq
    <3>2. ready[i] \in PutTask => /\ ~InSeq(received, ready[i])
                                  /\ ~InSeq(queue, ready[i])
                                  /\ ~InSeq(putters, ready[i])
      BY <1>1, <3>1 DEF Placed, Apart
    <3> QED BY <2>3, <2>6, <2>7, <3>2
  <2> QED BY <2>2, <2>5, <2>7, <2>8 DEF NothingLost
<1> QED BY <1>1, TypeCorrect, PlacedInvariant, PTL

-----------------------------------------------------------------------------
(* Counting the put tasks on their way.                                    *)
LEMMA PutsCounted ==
    ASSUME NEW s \in Seq(Nat)
    PROVE  IsFiniteSet(PutsOn(s)) /\ Cardinality(PutsOn(s)) \in Nat
<1>1. Len(s) \in Nat /\ DOMAIN s = 1..Len(s)
  OBVIOUS
<1>2. IsFiniteSet(1..Len(s))
  <2>1. 1 \in Int /\ Len(s) \in Int
    BY <1>1
  <2> QED BY <2>1, FS_Interval
<1>3. PutsOn(s) \in SUBSET (1..Len(s))
  BY <1>1 DEF PutsOn
<1>4. IsFiniteSet(PutsOn(s))
  BY <1>2, <1>3, FS_Subset
<1> QED BY <1>4, FS_CardinalityType

LEMMA AppendPuts ==
    ASSUME NEW s \in Seq(Nat), NEW x \in Nat
    PROVE  Cardinality(PutsOn(Append(s, x)))
             = IF x = App THEN Cardinality(PutsOn(s)) ELSE Cardinality(PutsOn(s)) + 1
<1> DEFINE n == Len(s)
           t == Append(s, x)
<1>1. n \in Nat /\ DOMAIN s = 1..n /\ DOMAIN t = 1..(n + 1) /\ t[n + 1] = x
      /\ \A i \in 1..n : t[i] = s[i]
  OBVIOUS
<1> HIDE DEF n, t
<1>2. n + 1 \notin 1..n /\ 1..(n + 1) = (1..n) \cup {n + 1}
  BY <1>1
<1>3. PutsOn(t) = IF x = App THEN PutsOn(s) ELSE PutsOn(s) \cup {n + 1}
  BY <1>1, <1>2 DEF PutsOn
<1>4. n + 1 \notin PutsOn(s)
  BY <1>1, <1>2 DEF PutsOn
<1> QED BY <1>3, <1>4, PutsCounted, FS_AddElement DEF t

LEMMA TailPuts ==
    ASSUME NEW s \in Seq(Nat), s # <<>>
    PROVE  Cardinality(PutsOn(s))
             = IF Head(s) = App THEN Cardinality(PutsOn(Tail(s)))
               ELSE Cardinality(PutsOn(Tail(s))) + 1
<1> DEFINE n == Len(s)
           t == Tail(s)
           f == [i \in PutsOn(t) |-> i + 1]
           later == {i \in 2..n : s[i] # App}
<1>1. n \in Nat \ {0} /\ DOMAIN s = 1..n /\ Head(s) = s[1] /\ DOMAIN t = 1..(n - 1)
      /\ t \in Seq(Nat) /\ \A i \in 1..(n - 1) : t[i] = s[i + 1]
  BY TailAt
<1> HIDE DEF n, t
<1>2. /\ \A i \in 1..(n - 1) : i + 1 \in 2..n
      /\ \A i \in 2..n : \E j \in 1..(n - 1) : i = j + 1
      /\ \A i, j \in 1..(n - 1) : i + 1 = j + 1 => i = j
      /\ 1..n = (2..n) \cup {1} /\ 1 \notin 2..n
  <2>1. ASSUME NEW i \in 2..n PROVE \E j \in 1..(n - 1) : i = j + 1
    <3>1. i - 1 \in 1..(n - 1) /\ i = (i - 1) + 1
      BY <1>1, <2>1
    <3> QED BY <3>1
  <2> QED BY <1>1, <2>1
<1>3. PutsOn(t) \subseteq 1..(n - 1)
  BY <1>1 DEF PutsOn
<1>4. f \in Bijection(PutsOn(t), later)
  <2>1. \A i \in PutsOn(t) : i + 1 \in later
    BY <1>1, <1>2 DEF PutsOn
  <2>2. ASSUME NEW k \in later PROVE \E i \in PutsOn(t) : k = i + 1
    <3>1. PICK j \in 1..(n - 1) : k = j + 1
      BY <1>2, <2>2
    <3>2. t[j] = s[k] /\ s[k] # App
      BY <1>1, <2>2, <3>1
    <3>3. j \in PutsOn(t)
      BY <1>1, <3>2 DEF PutsOn
    <3> QED BY <3>1, <3>3
  <2>3. \A i, j \in PutsOn(t) : i + 1 = j + 1 => i = j
    BY <1>2, <1>3
  <2> QED BY <2>1, <2>2, <2>3 DEF Bijection, Injection, Surjection, IsInjective
<1>5. ExistsBijection(PutsOn(t), later)
  BY <1>4 DEF ExistsBijection
<1>6. IsFiniteSet(later) /\ Cardinality(later) = Cardinality(PutsOn(t))
  BY <1>1, <1>5, PutsCounted, FS_Bijection
<1>7. PutsOn(s) = IF s[1] = App THEN later ELSE later \cup {1}
  BY <1>1, <1>2 DEF PutsOn
<1>8. 1 \notin later
  BY <1>2
<1> QED BY <1>1, <1>6, <1>7, <1>8, FS_AddElement DEF t

(* A free place and the put task that is on its way to it come and go      *)
(* together.                                                               *)
LEMMA TakeWakes ==
    ASSUME TypeOK, NoLostWakeup, NEW rest \in Seq({App} \cup PutTask), TakeMessage(rest),
           Cardinality(PutsOn(rest)) = Cardinality(PutsOn(ready))
    PROVE  putters' # <<>> => MaxSize - Len(queue') <= Cardinality(PutsOn(ready'))
<1> SUFFICES ASSUME putters # <<>>
             PROVE  MaxSize - Len(queue') <= Cardinality(PutsOn(ready'))
  BY DEF TakeMessage
<1>1. Head(putters) \in PutTask /\ rest \in Seq(Nat) /\ ready \in Seq(Nat)
  <2>1. \A w \in Seq(PutTask) : w # <<>> => Head(w) \in PutTask
    OBVIOUS
  <2>2. ready \in Seq(Nat) /\ putters \in Seq(PutTask)
    BY DEF TypeOK
  <2>3. rest \in Seq(Nat)
    OBVIOUS
  <2> QED BY <2>1, <2>2, <2>3
<1>2. Cardinality(PutsOn(ready')) = Cardinality(PutsOn(rest)) + 1
  <2>1. ready' = Append(rest, Head(putters))
    BY DEF TakeMessage
  <2>2. Head(putters) \in Nat /\ Head(putters) # App
    BY <1>1
  <2> QED BY <1>1, <2>1, <2>2, AppendPuts
<1> DEFINE q == Len(queue)
           r == Len(queue')
           c == Cardinality(PutsOn(ready))
<1>3. q \in Nat /\ r \in Nat /\ r = q - 1
  BY TailAt DEF TypeOK, TakeMessage
<1>4. MaxSize - q <= c /\ c \in Nat
  BY <1>1, PutsCounted DEF NoLostWakeup
<1> HIDE DEF q, r, c
<1>5. MaxSize - r <= c + 1
  BY <1>3, <1>4
<1> QED BY <1>2, <1>5 DEF r, c

LEMMA WakeupStep == TypeOK /\ ShortInv /\ NoLostWakeup /\ [Next]_vars => NoLostWakeup'
<1> SUFFICES ASSUME TypeOK, ShortInv, NoLostWakeup, [Next]_vars PROVE NoLostWakeup'
  OBVIOUS
<1>1. ready \in Seq(Nat) /\ queue \in Seq(Nat) /\ putters \in Seq(Nat) /\ puts \in Nat
  BY DEF TypeOK
<1>2. Cardinality(PutsOn(ready)) \in Nat /\ Len(queue) \in Nat /\ Len(queue) <= MaxSize
  BY <1>1, PutsCounted DEF TypeOK
<1>3. CASE RequestReceived \/ HandleUpgradeStream1
  <2>1. app' = "new" /\ putters' = <<>>
    BY <1>3 DEF RequestReceived, HandleUpgradeStream1, ShortInv, Unstarted
  <2> QED BY <2>1 DEF NoLostWakeup
<1>4. CASE DataReceived \/ StreamEnded
  <2>1. UNCHANGED <<queue, putters, app>> /\ ready' = Append(ready, puts + 1) /\ puts + 1 # App
    BY <1>1, <1>4 DEF DataReceived, StreamEnded, CreatePutTask
  <2>2. Cardinality(PutsOn(ready')) = Cardinality(PutsOn(ready)) + 1
    BY <1>1, <2>1, AppendPuts
  <2> QED BY <1>2, <2>1, <2>2 DEF NoLostWakeup
<1>5. CASE StreamReset \/ Await \/ Finish \/ ReceiveParks \/ UNCHANGED vars
  BY <1>5 DEF StreamReset, Await, Finish, ReceiveParks, vars, NoLostWakeup
<1>6. CASE PutParks
  <2>1. UNCHANGED <<queue, app>> /\ Len(queue) >= MaxSize /\ ready' = Tail(ready) /\ ready # <<>>
    BY <1>6 DEF PutParks
  <2>2. Cardinality(PutsOn(ready')) \in Nat
    <3>1. Tail(ready) \in Seq(Nat)
      BY <1>1, <2>1
    <3> QED BY <2>1, <3>1, PutsCounted
  <2>3. MaxSize - Len(queue) <= Cardinality(PutsOn(ready'))
    BY <1>2, <2>1, <2>2
  <2> QED BY <2>1, <2>3 DEF NoLostWakeup
<1>7. CASE PutStores
  <2>1. /\ ready # <<>> /\ Head(ready) # App /\ UNCHANGED putters
        /\ queue' = Append(queue, Head(ready))
        /\ \/ app = "getter" /\ app' = "woken" /\ ready' = Append(Tail(ready), App)
           \/ app # "getter" /\ app' = app /\ ready' = Tail(ready)
    BY <1>7 DEF PutStores
  <2>2. queue' # <<>> /\ Len(queue') = Len(queue) + 1
    <3>1. \A w \in Seq(Nat), x \in Nat : Append(w, x) # <<>> /\ Len(Append(w, x)) = Len(w) + 1
      OBVIOUS
    <3>2. Head(ready) \in Nat
      BY <1>1, <2>1
    <3> QED BY <1>1, <2>1, <3>1, <3>2
  <2>3. Tail(ready) \in Seq(Nat)
    BY <1>1, <2>1
  <2>4. Cardinality(PutsOn(ready)) = Cardinality(PutsOn(ready')) + 1
    <3>1. Cardinality(PutsOn(ready)) = Cardinality(PutsOn(Tail(ready))) + 1
      BY <1>1, <2>1, TailPuts
    <3>2. Cardinality(PutsOn(Append(Tail(ready), App))) = Cardinality(PutsOn(Tail(ready)))
      BY <2>3, AppendPuts
    <3> QED BY <2>1, <3>1, <3>2
  <2>5. Cardinality(PutsOn(ready')) \in Nat
    <3>1. Append(Tail(ready), App) \in Seq(Nat)
      BY <2>3
    <3>2. ready' \in Seq(Nat)
      BY <2>1, <2>3, <3>1
    <3> QED BY <3>2, PutsCounted
  <2>6. MaxSize - Len(queue) <= Cardinality(PutsOn(ready))
          => MaxSize - Len(queue') <= Cardinality(PutsOn(ready'))
    BY <1>2, <2>2, <2>4, <2>5
  <2> QED BY <2>1, <2>2, <2>6 DEF NoLostWakeup
<1>8. CASE RunApp \/ ResumeGet
  <2>1. ready # <<>> /\ Head(ready) = App /\ app' = "running"
    BY <1>8 DEF RunApp, ResumeGet
  <2>2. Cardinality(PutsOn(Tail(ready))) = Cardinality(PutsOn(ready))
    BY <1>1, <2>1, TailPuts
  <2>3. CASE RunApp
    BY <2>1, <2>2, <2>3 DEF RunApp, NoLostWakeup
  <2>4. CASE ResumeGet
    <3>1. TakeMessage(Tail(ready)) /\ Tail(ready) \in Seq({App} \cup PutTask)
      BY <2>1, <2>4 DEF ResumeGet, TypeOK
    <3> QED BY <2>1, <2>2, <3>1, TakeWakes DEF NoLostWakeup
  <2> QED BY <1>8, <2>3, <2>4
<1>9. CASE ReceiveNow
  <2>1. TakeMessage(ready) /\ app' = "running" /\ ready \in Seq({App} \cup PutTask)
    BY <1>9 DEF ReceiveNow, TypeOK
  <2> QED BY <2>1, TakeWakes DEF NoLostWakeup
<1>10. CASE Awake
  <2>1. UNCHANGED <<queue, putters>> /\ app' = "awake" /\ ready' = Append(ready, App)
    BY <1>10 DEF Awake
  <2>2. Cardinality(PutsOn(ready')) = Cardinality(PutsOn(ready))
    BY <1>1, <2>1, AppendPuts
  <2> QED BY <2>1, <2>2 DEF NoLostWakeup
<1> QED
  BY <1>3, <1>4, <1>5, <1>6, <1>7, <1>8, <1>9, <1>10 DEF Next

(* For every capacity and length: an application that waits waits at an    *)
(* empty queue, one that is woken finds a message, and no put task is      *)
(* parked beside a free place that nobody is on the way to (Receiver,      *)
(* asyncio.Queue under one put task per message).                          *)
THEOREM WakeupsAreNotLost == Spec => []NoLostWakeup
<1>1. Init => NoLostWakeup
  BY DEF Init, NoLostWakeup
<1> QED BY <1>1, WakeupStep, TypeCorrect, ShortInvariant, PTL DEF Spec

-----------------------------------------------------------------------------
(* Whatever the capacity, the length of a request and the interleaving:    *)
(* RequestBody is implemented, in order up to MaxSize messages.            *)
THEOREM RequestsImplement == Spec => ImplementsRequestBody
<1>1. Init => Promise!Init
  BY DEF Init, Promise!Init
<1>2. ASSUME TypeOK, ShortInv, Placed, [Next]_vars
      PROVE  [Promise!NextUpTo(MaxSize)]_<<puts, ended, received>>
  <2>1. puts \in Nat
    BY <1>2 DEF TypeOK
  <2>2. CASE RequestReceived \/ HandleUpgradeStream1
    <3>1. puts = 0 /\ ~ended
      BY <1>2, <2>2
         DEF ShortInv, Unstarted, RequestReceived, HandleUpgradeStream1
    <3>2. Promise!Send \/ Promise!SendLast
      BY <2>2, <3>1
         DEF Promise!Send, Promise!SendLast, RequestReceived,
             HandleUpgradeStream1
    <3> QED BY <3>2 DEF Promise!NextUpTo
  <2>3. CASE DataReceived
    <3>1. Promise!Send
      BY <2>3 DEF Promise!Send, DataReceived, CreatePutTask
    <3> QED BY <3>1 DEF Promise!NextUpTo
  <2>4. CASE StreamEnded
    <3>1. Promise!SendLast
      BY <2>4 DEF Promise!SendLast, StreamEnded, CreatePutTask
    <3> QED BY <3>1 DEF Promise!NextUpTo
  <2>5. ASSUME NEW rest \in Seq({App} \cup PutTask), TakeMessage(rest),
               puts' = puts, ended' = ended,
               Apart(received, queue, putters, rest, puts),
               Consecutive => Continues(rest, Handed + 1, puts)
        PROVE  Promise!NextUpTo(MaxSize)
    <3>1. CASE puts <= MaxSize
      <4>1. Consecutive
        BY <1>2, <3>1 DEF ShortInv
      <4>2. received' = Append(received, Len(received) + 1)
            /\ Len(received) < puts
        BY <1>2, <2>5, <4>1, TakeConsecutive
      <4>3. Promise!Receive
        BY <2>5, <4>2 DEF Promise!Receive
      <4> QED BY <3>1, <4>3 DEF Promise!NextUpTo
    <3>2. CASE puts > MaxSize
      <4>1. Head(queue) \in 1..puts /\ ~InSeq(received, Head(queue))
        BY <1>2, <2>5, TakeApart
      <4>2. received' = Append(received, Head(queue))
        BY <2>5 DEF TakeMessage
      <4>3. Promise!ReceiveAny
        BY <2>5, <4>1, <4>2 DEF Promise!ReceiveAny, InSeq
      <4> QED BY <3>2, <4>3 DEF Promise!NextUpTo
    <3> QED BY <2>1, <3>1, <3>2
  <2>6. CASE ResumeGet
    <3>1. /\ puts' = puts /\ ended' = ended /\ TakeMessage(Tail(ready))
          /\ ready # <<>> /\ Head(ready) = App
      BY <2>6 DEF ResumeGet
    <3>2. /\ Tail(ready) \in Seq({App} \cup PutTask)
          /\ Apart(received, queue, putters, Tail(ready), puts)
      BY <1>2, <3>1, AppLeaves
    <3>3. Handed + 1 \in Nat \ {0} /\ ready \in Seq(Nat)
      BY <1>2, Types
    <3>4. Consecutive => Continues(Tail(ready), Handed + 1, puts)
      BY <2>1, <3>1, <3>3, ContinuesTailApp DEF Consecutive
    <3> QED BY <2>5, <3>1, <3>2, <3>4
  <2>7. CASE ReceiveNow
    <3>1. puts' = puts /\ ended' = ended /\ TakeMessage(ready)
      BY <2>7 DEF ReceiveNow
    <3>2. /\ ready \in Seq({App} \cup PutTask)
          /\ Apart(received, queue, putters, ready, puts)
      BY <1>2 DEF TypeOK, Placed
    <3>3. Consecutive => Continues(ready, Handed + 1, puts)
      BY DEF Consecutive
    <3> QED BY <2>5, <3>1, <3>2, <3>3
  <2>8. CASE \/ StreamReset \/ PutParks \/ PutStores \/ RunApp
             \/ ReceiveParks \/ Await \/ Awake \/ Finish \/ UNCHANGED vars
    BY <2>8
       DEF StreamReset, PutParks, PutStores, RunApp, ReceiveParks, Await,
           Awake, Finish, vars
  <2> QED
    BY <1>2, <2>2, <2>3, <2>4, <2>6, <2>7, <2>8 DEF Next
<1> QED
  BY <1>1, <1>2, TypeCorrect, ShortInvariant, PlacedInvariant, PTL
     DEF Spec, ImplementsRequestBody

=============================================================================
