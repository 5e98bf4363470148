------------------------- MODULE ModbusClientProofs -------------------------
(***************************************************************************)
(* Proofs about ModbusClient, for every number of requests and every width   *)
(* of the transaction id: its types, and what a caller that keeps one        *)
(* request outstanding can rely on.                                          *)
(***************************************************************************)
EXTENDS ModbusClient, TLAPS

(* Removing an element leaves a shorter sequence of the same elements.       *)
LEMMA RemoveAtFacts ==
    ASSUME NEW S, NEW s \in Seq(S), NEW i \in 1 .. Len(s)
    PROVE  /\ RemoveAt(s, i) \in Seq(S)
           /\ Len(RemoveAt(s, i)) = Len(s) - 1
           /\ \A j \in 1 .. Len(s) - 1 :
                 \E k \in 1 .. Len(s) : RemoveAt(s, i)[j] = s[k]
<1> DEFINE before == SubSeq(s, 1, i - 1)
           after == SubSeq(s, i + 1, Len(s))
<1>1. /\ before \in Seq(S) /\ Len(before) = i - 1
      /\ \A j \in 1 .. i - 1 : before[j] = s[j]
  OBVIOUS
<1>2. /\ after \in Seq(S) /\ Len(after) = Len(s) - i
      /\ \A j \in 1 .. Len(s) - i : after[j] = s[i + j]
  OBVIOUS
<1> HIDE DEF before, after
<1>3. RemoveAt(s, i) = before \o after
  BY DEF RemoveAt, before, after
<1>4. ASSUME NEW j \in 1 .. Len(s) - 1
      PROVE  \E k \in 1 .. Len(s) : (before \o after)[j] = s[k]
  <2>1. CASE j <= i - 1
    BY <1>1, <1>2, <2>1
  <2>2. CASE ~(j <= i - 1)
    <3>1. (before \o after)[j] = after[j - (i - 1)]
      BY <1>1, <1>2, <2>2
    <3>2. j - (i - 1) \in 1 .. Len(s) - i
      BY <2>2
    <3> QED BY <1>2, <3>1, <3>2
  <2> QED BY <2>1, <2>2
<1>5. /\ before \o after \in Seq(S)
      /\ Len(before \o after) = Len(s) - 1
  BY <1>1, <1>2
<1> QED BY <1>3, <1>4, <1>5

LEMMA RepeatedType ==
    ASSUME NEW S, NEW event \in S, NEW n \in Nat
    PROVE  Repeated(event, n) \in Seq(S)
BY DEF Repeated

-----------------------------------------------------------------------------
(* Types.                                                                    *)

Notices == {"connect", "error", "close"}

LEMMA NotifyType ==
    ASSUME TypeOK, NEW events \in Seq(Notices), Notify(events)
    PROVE  notices' \in Seq(Notices)
BY DEF TypeOK, Notify, Notices

LEMMA NotifyOneType ==
    ASSUME TypeOK, NEW event \in Notices, Notify(<<event>>)
    PROVE  notices' \in Seq(Notices)
<1>1. <<event>> \in Seq(Notices)
  OBVIOUS
<1> QED BY <1>1, NotifyType

LEMMA NextRequestType ==
    ASSUME TypeOK, NEW answered, MayRequest(answered)
    PROVE  NextRequest \in Requests
BY RequestsAssumption, TidAssumption
   DEF TypeOK, MayRequest, NextRequest, Requests, NextTid
LEMMA WriteType ==
    ASSUME TypeOK, request' \in Requests, Write
    PROVE  /\ queued' \in Nat /\ written' \in Nat /\ refused' \in BOOLEAN
           /\ received' \in Seq(Requests)
<1>1. /\ queued' \in Nat /\ written' \in Nat
      /\ received' \in Seq(Requests)
  <2>1. CASE received' = Append(received, request') /\ written' = written + 1
             /\ queued' = queued
    BY <2>1 DEF TypeOK
  <2>2. CASE queued' = queued + 1 /\ UNCHANGED <<written, received>>
    BY <2>2 DEF TypeOK
  <2>3. CASE UNCHANGED <<queued, written, received>>
    BY <2>3 DEF TypeOK
  <2> QED BY <2>1, <2>2, <2>3, Zenon DEF Write
<1>2. refused' \in BOOLEAN
  <2>1. refused \in BOOLEAN
    BY DEF TypeOK
  <2> QED BY <2>1, Zenon DEF Write
<1> QED BY <1>1, <1>2

LEMMA RememberType ==
    ASSUME TypeOK, NEW answered, MayRequest(answered),
           NEW userData, userData = Remember(transactionsUserData, request)
    PROVE  /\ DOMAIN userData \subseteq 0 .. TidMod - 1
           /\ \A t \in DOMAIN userData : userData[t] \in 0 .. MaxRequests
BY NextRequestType DEF TypeOK, Remember, NextRequest, Requests

(* What fromBuffer returns is None or an answer, whether or not the buffer   *)
(* starts where an answer does.                                              *)
LEMMA FromBufferType ==
    ASSUME TypeOK, NEW n \in arrived + 1 .. FrameParts * Len(stream),
           NEW response \in FromBuffer(bufStart, n), response # None
    PROVE  /\ response \in [kind : Kinds, req : 0 .. MaxRequests, tid : 0 .. TidMod]
           /\ OutcomeOf(response) \in
                [kind : Kinds, req : 0 .. MaxRequests, user : 0 .. MaxRequests]
<1>1. response \in [kind : Kinds, req : 0 .. MaxRequests, tid : 0 .. TidMod]
  <2>1. CASE bufStart % FrameParts = 0
    <3>1. Complete(n - bufStart) /\ response = stream[(bufStart \div FrameParts) + 1]
      BY <2>1 DEF FromBuffer
    <3>2. (bufStart \div FrameParts) + 1 \in 1 .. Len(stream)
      BY <2>1, <3>1 DEF TypeOK, FrameParts, Complete
    <3>3. response \in Answers
      BY <3>1, <3>2 DEF TypeOK
    <3> QED BY <3>3, TidAssumption DEF Answers
  <2>2. CASE ~(bufStart % FrameParts = 0)
    <3>1. response \in [kind : Kinds, req : {0},
                        tid : DOMAIN transactionsUserData \cup {NoTid}]
      BY <2>2 DEF FromBuffer
    <3> QED BY <3>1, RequestsAssumption, TidAssumption DEF TypeOK, NoTid
  <2> QED BY <2>1, <2>2
<1>2. UserDataOf(transactionsUserData, response.tid) \in 0 .. MaxRequests
  BY RequestsAssumption DEF TypeOK, UserDataOf
<1> QED BY <1>1, <1>2, RequestsAssumption DEF OutcomeOf, Kinds

LEMMA TypeInit == Init => TypeOK
<1> SUFFICES ASSUME Init PROVE TypeOK
  OBVIOUS
<1>1. request \in Requests
  BY RequestsAssumption, TidAssumption DEF Init, Requests
<1>2. DOMAIN transactionsUserData = {}
  BY DEF Init
<1>3. /\ received \in Seq(Requests) /\ stream \in Seq(Answers)
      /\ published \in Seq([kind : Kinds, req : 0 .. MaxRequests, user : 0 .. MaxRequests])
      /\ notices \in Seq({"connect", "error", "close"})
  BY DEF Init
<1>4. /\ reading \in BOOLEAN /\ listening \in BOOLEAN /\ refused \in BOOLEAN
  BY Zenon DEF Init
<1> QED BY <1>1, <1>2, <1>3, <1>4 DEF Init, TypeOK

LEMMA TypeDeliver ==
    ASSUME TypeOK, NEW n \in arrived + 1 .. FrameParts * Len(stream), arrived' = n,
           NEW response \in FromBuffer(bufStart, n), response # None,
           Deliver(response), UNCHANGED <<link, stream, notices>>
    PROVE  TypeOK'
<1> USE DEF TypeOK
<1>1. published' \in Seq([kind : Kinds, req : 0 .. MaxRequests, user : 0 .. MaxRequests])
  BY FromBufferType DEF Deliver
<1>2. arrived' \in Nat /\ bufStart' \in Nat
  BY DEF Deliver, ClearReadBuffer, FrameParts
<1>3. /\ request' \in Requests
      /\ queued' \in Nat /\ written' \in Nat /\ refused' \in BOOLEAN
      /\ received' \in Seq(Requests)
  BY NextRequestType, WriteType DEF Deliver, sending
<1>4. /\ DOMAIN transactionsUserData' \subseteq 0 .. TidMod - 1
      /\ \A t \in DOMAIN transactionsUserData' :
            transactionsUserData'[t] \in 0 .. MaxRequests
  BY RememberType DEF Deliver, Erase, Restrict
<1> QED BY <1>1, <1>2, <1>3, <1>4 DEF link

LEMMA TypeNext == TypeOK /\ [Next]_vars => TypeOK'
<1> SUFFICES ASSUME TypeOK, [Next]_vars PROVE TypeOK'
  OBVIOUS
<1> USE DEF TypeOK, link, requests, sending, incoming, heard
<1>1. CASE Connect
  BY <1>1 DEF Connect
<1>2. CASE ReadHoldingRegisters
  <2>1. request' \in Requests
    BY <1>2, NextRequestType DEF ReadHoldingRegisters
  <2>2. /\ DOMAIN transactionsUserData' \subseteq 0 .. TidMod - 1
        /\ \A t \in DOMAIN transactionsUserData' :
              transactionsUserData'[t] \in 0 .. MaxRequests
    BY <1>2, RememberType DEF ReadHoldingRegisters
  <2>3. /\ queued' \in Nat /\ written' \in Nat /\ refused' \in BOOLEAN
        /\ received' \in Seq(Requests)
    BY <1>2, <2>1, WriteType DEF ReadHoldingRegisters
  <2> QED BY <1>2, <2>1, <2>2, <2>3 DEF ReadHoldingRegisters
<1>3. CASE Disconnect
  BY <1>3 DEF Disconnect, ResetListeners
<1>4. CASE ConnectEvent
  BY <1>4, NotifyOneType DEF ConnectEvent, Notices
<1>5. CASE ConnectError
  <2>1. Repeated("error", 1 + queued) \in Seq(Notices)
    <3>1. 1 + queued \in Nat /\ "error" \in Notices
      BY DEF Notices
    <3> QED BY <3>1, RepeatedType
  <2>2. notices' \in Seq(Notices)
    BY <1>5, <2>1, NotifyType DEF ConnectError
  <2> QED BY <1>5, <2>2 DEF ConnectError, Notices
<1>6. CASE Flush
  BY <1>6 DEF Flush
<1>7. CASE WriteError
  <2>1. notices' \in Seq(Notices)
    BY <1>7, NotifyOneType DEF WriteError, Notices
  <2> QED BY <1>7, <2>1 DEF WriteError, Notices
<1>8. CASE WriteEvent
  BY <1>8 DEF WriteEvent, ClearReadBuffer, StartReading
<1>9. CASE DataEvent
  <2>1. PICK n \in arrived + 1 .. FrameParts * Len(stream) :
          /\ arrived' = n
          /\ \E response \in FromBuffer(bufStart, n) :
                IF response = None THEN KeepCollecting ELSE Deliver(response)
    BY <1>9 DEF DataEvent
  <2>2. UNCHANGED <<link, stream, notices>>
    BY <1>9 DEF DataEvent
  <2>3. CASE KeepCollecting
    BY <2>1, <2>2, <2>3 DEF KeepCollecting, FrameParts
  <2>4. CASE \E response \in FromBuffer(bufStart, n) : response # None /\ Deliver(response)
    BY <2>1, <2>2, <2>4, TypeDeliver
  <2> QED BY <2>1, <2>3, <2>4
<1>10. CASE EndEvent
  BY <1>10 DEF EndEvent
<1>11. CASE ReadError
  BY <1>11, NotifyOneType DEF ReadError, Notices
<1>12. CASE CloseEvent
  <2>1. Repeated("error", queued) \in Seq(Notices)
    BY RepeatedType DEF Notices
  <2>2. Repeated("error", queued) \o <<"close">> \in Seq(Notices)
    BY <2>1 DEF Notices
  <2>3. notices' \in Seq(Notices)
    BY <1>12, <2>2, NotifyType DEF CloseEvent
  <2> QED BY <1>12, <2>3 DEF CloseEvent, Notices
<1>13. CASE DeviceAnswer
  <2>1. PICK i \in DOMAIN received, kind \in Kinds :
          /\ stream' = Append(stream, [kind |-> kind, req |-> received[i].number,
                                       tid |-> received[i].tid])
          /\ received' = RemoveAt(received, i)
    BY <1>13 DEF DeviceAnswer
  <2>2. received[i] \in Requests /\ i \in 1 .. Len(received)
    OBVIOUS
  <2>3. stream' \in Seq(Answers)
    BY <2>1, <2>2 DEF Answers, Requests
  <2>4. received' \in Seq(Requests)
    BY <2>1, <2>2, RemoveAtFacts
  <2> QED BY <1>13, <2>3, <2>4 DEF DeviceAnswer
<1>14. CASE UNCHANGED vars
  BY <1>14 DEF vars
<1> QED
  BY <1>1, <1>2, <1>3, <1>4, <1>5, <1>6, <1>7, <1>8, <1>9, <1>10, <1>11,
     <1>12, <1>13, <1>14 DEF Next

(* The client's state keeps its types whatever the caller, the socket and    *)
(* the device do: ids stay within uint16_t, and userData is only ever that   *)
(* of a request that was issued.                                             *)
THEOREM TypeCorrect == Spec => []TypeOK
BY TypeInit, TypeNext, PTL DEF Spec
-----------------------------------------------------------------------------
(* One request outstanding.  The caller waits for outcome number Len(        *)
(* published) + 1 or for none, and all that is under way - in libuv's queue,  *)
(* at the device, in the stream - is the request that outcome answers.        *)

Waiting == request.number = Len(published) + 1

OneAtATime ==
    /\ Len(published) <= request.number /\ request.number <= Len(published) + 1
    /\ queued + Len(received) + Len(stream) <= request.number

UnderWay ==
    /\ \A i \in 1 .. Len(received) : received[i] = request
    /\ \A i \in Len(published) + 1 .. Len(stream) :
          stream[i].req = request.number /\ stream[i].tid = request.tid

(* The buffer starts with the answer awaited and holds less than all of it;   *)
(* a write whose write_event is to come finds it empty.                      *)
Buffer ==
    /\ BytesKept
    /\ bufStart <= arrived /\ arrived < bufStart + FrameParts
    /\ arrived <= FrameParts * Len(stream)
    /\ written > 0 => arrived = bufStart

Transactions ==
    /\ NoStaleTransaction
    /\ Waiting => transactionsUserData[request.tid] = request.number

SerialInv == OneAtATime /\ UnderWay /\ Buffer /\ Transactions /\ OutcomeInOrder
LEMMA SerialInit == Init => SerialInv
BY DEF Init, SerialInv, OneAtATime, UnderWay, Buffer, BytesKept, Transactions,
       NoStaleTransaction, Waiting, OutcomeInOrder, FrameParts

(* A step of the link, which may also fail queued writes.                    *)
LEMMA SerialLink ==
    ASSUME TypeOK, TypeOK', SerialInv, queued' <= queued,
           UNCHANGED <<requests, written, received, incoming, published>>
    PROVE  SerialInv'
<1> USE DEF requests, incoming, SerialInv
<1>1. OneAtATime'
  BY DEF OneAtATime, TypeOK, Requests
<1>2. UnderWay'
  BY DEF UnderWay
<1>3. Buffer'
  BY DEF Buffer, BytesKept
<1>4. Transactions'
  BY DEF Transactions, NoStaleTransaction, Waiting
<1>5. OutcomeInOrder'
  BY DEF OutcomeInOrder
<1> QED BY <1>1, <1>2, <1>3, <1>4, <1>5

(* What a write does when nothing else is on its way to the device.          *)
LEMMA WriteOnly ==
    ASSUME TypeOK, TypeOK', queued = 0, Len(received) = 0, Write
    PROVE  /\ queued' + Len(received') <= 1
           /\ \A i \in 1 .. Len(received') : received'[i] = request'
<1>1. CASE received' = Append(received, request') /\ queued' = queued
  BY <1>1 DEF TypeOK
<1>2. CASE queued' = queued + 1 /\ received' = received
  BY <1>2 DEF TypeOK
<1>3. CASE queued' = queued /\ received' = received
  BY <1>3 DEF TypeOK
<1> QED BY <1>1, <1>2, <1>3, Zenon DEF Write

(* Nothing is under way when the caller waits for nothing, and the bytes of  *)
(* the answers have all left the buffer.                                     *)
LEMMA NothingUnderWay ==
    ASSUME TypeOK, SerialInv, request.number = Len(published)
    PROVE  /\ queued = 0 /\ Len(received) = 0
           /\ Len(stream) = Len(published) /\ arrived = bufStart
BY DEF TypeOK, SerialInv, OneAtATime, Buffer, BytesKept, FrameParts

(* The next request, when the caller has no other; `transactionsUserData`    *)
(* holds `before` when the request is issued.                                *)
LEMMA RememberOne ==
    ASSUME TypeOK, NEW before, DOMAIN before = {}
    PROVE  /\ DOMAIN Remember(before, request) = {NextTid(request.tid)}
           /\ Remember(before, request)[NextTid(request.tid)] = request.number + 1
BY DEF Remember

LEMMA SerialRequest ==
    ASSUME MaxOutstanding = 1, TypeOK, TypeOK', SerialInv, ReadHoldingRegisters
    PROVE  SerialInv'
<1> USE DEF link, incoming, heard
<1>1. request.number = Len(published) /\ request' = NextRequest
  BY DEF ReadHoldingRegisters, MayRequest, SerialInv, OneAtATime, TypeOK, Requests
<1>2. /\ queued = 0 /\ Len(received) = 0
      /\ Len(stream) = Len(published) /\ arrived = bufStart
  BY <1>1, NothingUnderWay
<1>3. /\ queued' + Len(received') <= 1
      /\ \A i \in 1 .. Len(received') : received'[i] = request'
  BY <1>2, WriteOnly DEF ReadHoldingRegisters
<1>4. request'.number = Len(published) + 1 /\ request'.tid = NextTid(request.tid)
  BY <1>1 DEF NextRequest
<1>5. OneAtATime'
  BY <1>2, <1>3, <1>4 DEF ReadHoldingRegisters, OneAtATime, TypeOK
<1>6. UnderWay'
  BY <1>2, <1>3 DEF ReadHoldingRegisters, UnderWay, TypeOK
<1>7. Buffer'
  BY <1>2 DEF ReadHoldingRegisters, SerialInv, Buffer, BytesKept
<1>8. Transactions'
  <2>1. DOMAIN transactionsUserData = {}
    BY <1>1 DEF SerialInv, Transactions, NoStaleTransaction
  <2>2. transactionsUserData' = Remember(transactionsUserData, request)
    BY DEF ReadHoldingRegisters
  <2>3. /\ DOMAIN transactionsUserData' = {request'.tid}
        /\ transactionsUserData'[request'.tid] = request'.number
    BY <1>1, <1>4, <2>1, <2>2, RememberOne
  <2>4. request'.number > Len(published')
    BY <1>4 DEF ReadHoldingRegisters, TypeOK
  <2> QED BY <2>3, <2>4 DEF Transactions, NoStaleTransaction
<1>9. OutcomeInOrder'
  BY DEF ReadHoldingRegisters, SerialInv, OutcomeInOrder
<1> QED BY <1>5, <1>6, <1>7, <1>8, <1>9 DEF SerialInv

LEMMA SerialFlush ==
    ASSUME TypeOK, TypeOK', SerialInv, Flush
    PROVE  SerialInv'
<1> USE DEF link, requests, incoming, heard
<1>1. /\ queued = 1 /\ Len(received) = 0 /\ request.number = Len(published) + 1
      /\ Len(stream) = Len(published) /\ arrived = bufStart
  BY DEF Flush, TypeOK, SerialInv, OneAtATime, Buffer, BytesKept, FrameParts, Requests
<1>2. queued' = 0 /\ received' = Append(received, request)
  BY <1>1 DEF Flush
<1>3. OneAtATime'
  BY <1>1, <1>2 DEF Flush, SerialInv, OneAtATime, TypeOK
<1>4. UnderWay'
  BY <1>1, <1>2 DEF Flush, UnderWay, TypeOK
<1>5. Buffer'
  BY <1>1 DEF Flush, SerialInv, Buffer, BytesKept
<1>6. Transactions' /\ OutcomeInOrder'
  BY DEF Flush, SerialInv, Transactions, NoStaleTransaction, Waiting, OutcomeInOrder
<1> QED BY <1>3, <1>4, <1>5, <1>6 DEF SerialInv

LEMMA SerialWriteEvent ==
    ASSUME TypeOK, TypeOK', SerialInv, WriteEvent
    PROVE  SerialInv'
<1> USE DEF requests, heard, SerialInv
<1>1. bufStart' = bufStart
  BY DEF WriteEvent, ClearReadBuffer, Buffer
<1>2. OneAtATime'
  BY DEF WriteEvent, OneAtATime
<1>3. UnderWay'
  BY DEF WriteEvent, UnderWay
<1>4. Buffer'
  BY <1>1 DEF WriteEvent, Buffer, BytesKept, TypeOK
<1>5. Transactions' /\ OutcomeInOrder'
  BY DEF WriteEvent, Transactions, NoStaleTransaction, Waiting, OutcomeInOrder
<1> QED BY <1>2, <1>3, <1>4, <1>5

LEMMA SerialAnswer ==
    ASSUME TypeOK, TypeOK', SerialInv, DeviceAnswer
    PROVE  SerialInv'
<1> USE DEF link, requests, heard
<1>1. PICK i \in DOMAIN received, kind \in Kinds :
        /\ stream' = Append(stream, [kind |-> kind, req |-> received[i].number,
                                     tid |-> received[i].tid])
        /\ received' = RemoveAt(received, i)
  BY DEF DeviceAnswer
<1>2. i \in 1 .. Len(received) /\ received[i] = request
  BY DEF TypeOK, SerialInv, UnderWay
<1>3. /\ Len(received') = Len(received) - 1
      /\ \A j \in 1 .. Len(received) - 1 :
            \E k \in 1 .. Len(received) : received'[j] = received[k]
  <2>1. received \in Seq(Requests)
    BY DEF TypeOK
  <2> QED BY <1>1, <1>2, <2>1, RemoveAtFacts
<1>4. Len(stream') = Len(stream) + 1
  BY <1>1 DEF TypeOK
<1>5. OneAtATime'
  BY <1>3, <1>4 DEF DeviceAnswer, SerialInv, OneAtATime, TypeOK
<1>6. UnderWay'
  <2>1. \A j \in 1 .. Len(received') : received'[j] = request'
    BY <1>3 DEF DeviceAnswer, SerialInv, UnderWay
  <2>2. ASSUME NEW j \in Len(published') + 1 .. Len(stream')
        PROVE  stream'[j].req = request'.number /\ stream'[j].tid = request'.tid
    <3>1. CASE j = Len(stream')
      BY <1>1, <1>2, <1>4, <3>1 DEF DeviceAnswer, TypeOK
    <3>2. CASE j # Len(stream')
      <4>1. j \in Len(published) + 1 .. Len(stream)
        BY <1>4, <3>2 DEF DeviceAnswer, TypeOK
      <4>2. stream'[j] = stream[j]
        BY <1>1, <4>1 DEF TypeOK
      <4> QED BY <4>1, <4>2 DEF DeviceAnswer, SerialInv, UnderWay
    <3> QED BY <3>1, <3>2
  <2> QED BY <2>1, <2>2 DEF UnderWay
<1>7. Buffer'
  BY <1>4 DEF DeviceAnswer, SerialInv, Buffer, BytesKept, TypeOK, FrameParts
<1>8. Transactions' /\ OutcomeInOrder'
  BY DEF DeviceAnswer, SerialInv, Transactions, NoStaleTransaction, Waiting, OutcomeInOrder
<1> QED BY <1>5, <1>6, <1>7, <1>8 DEF SerialInv
(* The one answer a data_event can complete is the one the caller awaits.    *)
LEMMA AnswerAwaited ==
    ASSUME TypeOK, SerialInv, NEW n \in arrived + 1 .. FrameParts * Len(stream),
           NEW response \in FromBuffer(bufStart, n)
    PROVE  \/ n < bufStart + FrameParts /\ response = None
           \/ /\ n = bufStart + FrameParts
              /\ request.number = Len(published) + 1 /\ Len(stream) = request.number
              /\ queued = 0 /\ Len(received) = 0
              /\ response = stream[request.number]
              /\ response.req = request.number /\ response.tid = request.tid
              /\ response # None
<1> DEFINE p == Len(published)
<1>1. p \in Nat /\ request.number \in Nat /\ Len(stream) \in Nat /\ n \in Nat
  BY DEF TypeOK, Requests
<1>2. bufStart = 2 * p /\ bufStart % FrameParts = 0 /\ bufStart \div FrameParts = p
  BY <1>1 DEF SerialInv, Buffer, BytesKept, FrameParts
<1>3. response \in IF n - bufStart >= 2 THEN {stream[p + 1]} ELSE {None}
  BY <1>2 DEF FromBuffer, Complete, FrameParts
<1>4. CASE n - bufStart >= 2
  <2>1. /\ n = bufStart + FrameParts /\ request.number = p + 1
        /\ Len(stream) = request.number /\ queued = 0 /\ Len(received) = 0
    <3>1. /\ n <= 2 * Len(stream) /\ n >= 2 * p + 2
      BY <1>1, <1>2, <1>4 DEF FrameParts
    <3>2. /\ queued \in Nat /\ Len(received) \in Nat
          /\ queued + Len(received) + Len(stream) <= request.number
          /\ request.number <= p + 1
      BY DEF TypeOK, SerialInv, OneAtATime
    <3> HIDE DEF p
    <3>3. Len(stream) = p + 1 /\ request.number = p + 1
      BY <1>1, <3>1, <3>2
    <3> QED BY <1>1, <1>2, <3>1, <3>2, <3>3 DEF FrameParts, p
  <2>2. response = stream[request.number] /\ response \in Answers
    BY <1>1, <1>3, <1>4, <2>1 DEF TypeOK
  <2>3. response.req = request.number /\ response.tid = request.tid
    BY <1>1, <2>1, <2>2 DEF SerialInv, UnderWay
  <2>4. response # None
    BY <2>2 DEF Answers, Kinds, None
  <2> QED BY <2>1, <2>2, <2>3, <2>4
<1>5. CASE ~(n - bufStart >= 2)
  BY <1>1, <1>2, <1>3, <1>5 DEF FrameParts
<1> QED BY <1>4, <1>5

LEMMA NextTidDiffers ==
    ASSUME NEW t \in 0 .. TidMod - 1
    PROVE  NextTid(t) # t
BY TidAssumption DEF NextTid

LEMMA SerialDeliver ==
    ASSUME MaxOutstanding = 1, TypeOK, TypeOK', SerialInv,
           NEW n \in arrived + 1 .. FrameParts * Len(stream), arrived' = n,
           NEW response \in FromBuffer(bufStart, n), response # None,
           Deliver(response), UNCHANGED <<link, stream, notices>>, Readable
    PROVE  SerialInv'
<1>1. /\ n = bufStart + FrameParts
      /\ request.number = Len(published) + 1 /\ Len(stream) = request.number
      /\ queued = 0 /\ Len(received) = 0
      /\ response.req = request.number /\ response.tid = request.tid
  BY AnswerAwaited
<1>2. response.kind \in Kinds
  BY FromBufferType
<1>3. /\ OutcomeOf(response).req = request.number
      /\ OutcomeOf(response).kind = response.kind
      /\ OutcomeOf(response).user =
            IF response.kind = "exception" THEN 0 ELSE request.number
  <2>1. UserDataOf(transactionsUserData, response.tid) = request.number
    BY <1>1 DEF UserDataOf, SerialInv, Transactions, NoStaleTransaction, Waiting,
                TypeOK, Requests
  <2> QED BY <1>1, <2>1 DEF OutcomeOf
<1>4. published' = Append(published, OutcomeOf(response))
  BY DEF Deliver
<1>5. Len(published') = Len(published) + 1
  BY <1>4 DEF TypeOK
<1>6. OutcomeInOrder'
  <2>1. ASSUME NEW i \in 1 .. Len(published')
        PROVE  /\ published'[i].req = i
               /\ published'[i].user =
                     IF published'[i].kind = "exception" THEN 0 ELSE i
    <3>1. CASE i = Len(published')
      <4>1. published'[i] = OutcomeOf(response) /\ i = request.number
        BY <1>1, <1>4, <1>5, <3>1 DEF TypeOK
      <4> QED BY <1>3, <4>1
    <3>2. CASE i # Len(published')
      <4>1. i \in 1 .. Len(published)
        BY <1>5, <3>2 DEF TypeOK
      <4>2. published'[i] = published[i]
        BY <1>4, <4>1 DEF TypeOK
      <4> QED BY <4>1, <4>2 DEF SerialInv, OutcomeInOrder
    <3> QED BY <3>1, <3>2
  <2> QED BY <2>1 DEF OutcomeInOrder
<1>7. Buffer'
  <2>1. bufStart' = n /\ stream' = stream
    BY DEF Deliver, ClearReadBuffer
  <2> QED BY <1>1, <1>5, <2>1 DEF Buffer, BytesKept, FrameParts, TypeOK, SerialInv
<1>8. CASE transactionsUserData' = Erase(transactionsUserData, response.tid, request)
           /\ UNCHANGED <<request, sending>>
  <2> USE <1>8 DEF sending
  <2>1. OneAtATime'
    BY <1>1, <1>5 DEF OneAtATime, TypeOK
  <2>2. UnderWay'
    BY <1>1, <1>5 DEF UnderWay, TypeOK
  <2>3. DOMAIN transactionsUserData' = {}
    BY <1>1 DEF Erase, Restrict, SerialInv, Transactions, NoStaleTransaction, TypeOK
  <2>4. Transactions'
    BY <1>1, <1>5, <2>3 DEF Transactions, NoStaleTransaction, Waiting, TypeOK
  <2> QED BY <1>6, <1>7, <2>1, <2>2, <2>4 DEF SerialInv
<1>9. CASE /\ request' = NextRequest /\ Write
           /\ transactionsUserData' =
                 Erase(Remember(transactionsUserData, request), response.tid, NextRequest)
  <2>1. request'.number = Len(published') + 1 /\ request'.tid = NextTid(request.tid)
    BY <1>1, <1>5, <1>9 DEF NextRequest
  <2>2. /\ queued' + Len(received') <= 1
        /\ \A i \in 1 .. Len(received') : received'[i] = request'
    BY <1>1, <1>9, WriteOnly
  <2>3. OneAtATime'
    BY <1>1, <1>5, <2>1, <2>2 DEF OneAtATime, TypeOK
  <2>4. UnderWay'
    BY <1>1, <1>5, <2>2 DEF UnderWay, TypeOK
  <2>5. /\ DOMAIN transactionsUserData' = {request'.tid}
        /\ transactionsUserData'[request'.tid] = request'.number
    <3>1. DOMAIN transactionsUserData = {request.tid}
      BY <1>1 DEF SerialInv, Transactions, NoStaleTransaction, TypeOK
    <3>2. NextTid(request.tid) # request.tid
      BY NextTidDiffers DEF TypeOK, Requests
    <3>3. request'.number = request.number + 1
      BY <1>9 DEF NextRequest
    <3> QED BY <1>1, <1>9, <2>1, <3>1, <3>2, <3>3 DEF Erase, Restrict, Remember
  <2>6. Transactions'
    BY <1>5, <2>1, <2>5 DEF Transactions, NoStaleTransaction, TypeOK
  <2> QED BY <1>6, <1>7, <2>3, <2>4, <2>6 DEF SerialInv
<1> QED BY <1>8, <1>9 DEF Deliver

LEMMA SerialData ==
    ASSUME MaxOutstanding = 1, TypeOK, TypeOK', SerialInv, DataEvent
    PROVE  SerialInv'
<1>1. PICK n \in arrived + 1 .. FrameParts * Len(stream) :
        /\ arrived' = n
        /\ \E response \in FromBuffer(bufStart, n) :
              IF response = None THEN KeepCollecting ELSE Deliver(response)
  BY DEF DataEvent
<1>2. UNCHANGED <<link, stream, notices>> /\ Readable
  BY DEF DataEvent
<1>3. PICK response \in FromBuffer(bufStart, n) :
        IF response = None THEN KeepCollecting ELSE Deliver(response)
  BY <1>1
<1>4. CASE response # None
  BY <1>1, <1>2, <1>3, <1>4, SerialDeliver
<1>5. CASE response = None
  <2>1. n < bufStart + FrameParts
    BY <1>5, AnswerAwaited
  <2>2. KeepCollecting /\ stream' = stream /\ written = 0
    BY <1>2, <1>3, <1>5 DEF Readable
  <2> USE <2>2 DEF KeepCollecting, requests, sending, SerialInv
  <2>3. OneAtATime'
    BY DEF OneAtATime
  <2>4. UnderWay'
    BY DEF UnderWay
  <2>5. Buffer'
    BY <1>1, <2>1 DEF Buffer, BytesKept, FrameParts, TypeOK
  <2>6. Transactions' /\ OutcomeInOrder'
    BY DEF Transactions, NoStaleTransaction, Waiting, OutcomeInOrder
  <2> QED BY <2>3, <2>4, <2>5, <2>6
<1> QED BY <1>4, <1>5

LEMMA SerialNext ==
    ASSUME MaxOutstanding = 1, TypeOK, TypeOK', SerialInv, [Next]_vars
    PROVE  SerialInv'
<1> USE DEF link, requests, sending, incoming, heard
<1>1. CASE \/ Connect \/ Disconnect \/ ConnectEvent \/ ConnectError \/ WriteError
           \/ EndEvent \/ ReadError \/ CloseEvent \/ UNCHANGED vars
  <2>1. UNCHANGED <<requests, written, received, incoming, published>>
    BY <1>1 DEF Connect, Disconnect, ConnectEvent, ConnectError, WriteError, EndEvent,
                ReadError, CloseEvent, vars
  <2>2. queued' <= queued
    BY <1>1 DEF Connect, Disconnect, ConnectEvent, ConnectError, WriteError, EndEvent,
                ReadError, CloseEvent, vars, TypeOK
  <2> QED BY <2>1, <2>2, SerialLink
<1>2. CASE ReadHoldingRegisters
  BY <1>2, SerialRequest
<1>3. CASE Flush
  BY <1>3, SerialFlush
<1>4. CASE WriteEvent
  BY <1>4, SerialWriteEvent
<1>5. CASE DataEvent
  BY <1>5, SerialData
<1>6. CASE DeviceAnswer
  BY <1>6, SerialAnswer
<1> QED BY <1>1, <1>2, <1>3, <1>4, <1>5, <1>6 DEF Next

THEOREM SerialCorrect == ASSUME MaxOutstanding = 1 PROVE Spec => []SerialInv
<1>1. Init => TypeOK /\ SerialInv
  BY TypeInit, SerialInit
<1>2. TypeOK /\ SerialInv /\ [Next]_vars => (TypeOK /\ SerialInv)'
  BY TypeNext, SerialNext
<1> QED BY <1>1, <1>2, PTL DEF Spec

(* No bytes of an answer are lost in _readBuffer, however TCP cuts the        *)
(* stream, as long as the caller keeps one request outstanding.              *)
THEOREM BytesKeptCorrect == ASSUME MaxOutstanding = 1 PROVE Spec => []BytesKept
<1>1. SerialInv => BytesKept
  BY DEF SerialInv, Buffer
<1> QED BY <1>1, SerialCorrect, PTL

(* The i-th outcome is that of the i-th request, with its userData, through  *)
(* every wrap of the transaction id.                                         *)
THEOREM OutcomeInOrderCorrect ==
    ASSUME MaxOutstanding = 1 PROVE Spec => []OutcomeInOrder
<1>1. SerialInv => OutcomeInOrder
  BY DEF SerialInv
<1> QED BY <1>1, SerialCorrect, PTL

(* _transactionsUserData never holds more than the outstanding request.      *)
THEOREM NoStaleTransactionCorrect ==
    ASSUME MaxOutstanding = 1 PROVE Spec => []NoStaleTransaction
<1>1. SerialInv => NoStaleTransaction
  BY DEF SerialInv, Transactions
<1> QED BY <1>1, SerialCorrect, PTL
-----------------------------------------------------------------------------
(* After disconnect(), for any caller.                                       *)

(* Only a client with its listeners reads, and a dropped one has none.       *)
LinkInv ==
    /\ reading => listening
    /\ tcp = "dropped" => ~listening

LEMMA LinkInit == Init => LinkInv
BY DEF Init, LinkInv

LEMMA LinkNext == TypeOK /\ LinkInv /\ [Next]_vars => LinkInv'
<1> SUFFICES ASSUME TypeOK, LinkInv, [Next]_vars PROVE LinkInv'
  OBVIOUS
<1>1. CASE UNCHANGED link
  BY <1>1 DEF link, LinkInv
<1>2. CASE Connect \/ ConnectEvent \/ ConnectError \/ CloseEvent
  <2>1. UNCHANGED <<reading, listening>> /\ tcp' # "dropped"
    BY <1>2 DEF Connect, ConnectEvent, ConnectError, CloseEvent
  <2> QED BY <2>1, Zenon DEF LinkInv
<1>3. CASE Disconnect
  BY <1>3, Zenon DEF LinkInv, Disconnect, ResetListeners
<1>4. CASE EndEvent \/ ReadError
  <2>1. reading' = FALSE /\ tcp' # "dropped"
    BY <1>4 DEF EndEvent, ReadError
  <2> QED BY <2>1, Zenon DEF LinkInv
<1>5. CASE WriteEvent
  BY <1>5, Zenon DEF LinkInv, WriteEvent, StartReading
<1>6. CASE ReadHoldingRegisters \/ Flush \/ WriteError \/ DataEvent \/ DeviceAnswer
           \/ UNCHANGED vars
  <2>1. UNCHANGED link
    BY <1>6, Zenon DEF ReadHoldingRegisters, Flush, WriteError, DataEvent, DeviceAnswer, vars
  <2> QED BY <1>1, <2>1
<1> QED BY <1>2, <1>3, <1>4, <1>5, <1>6 DEF Next

LEMMA SilentStep ==
    ASSUME LinkInv, [Next]_vars, tcp = "dropped"
    PROVE  UNCHANGED <<published, notices>>
<1> USE DEF heard
<1>1. ~listening /\ ~reading
  BY Zenon DEF LinkInv
<1>2. ~DataEvent
  BY <1>1 DEF DataEvent, Readable
<1>3. CASE CloseEvent
  BY <1>1, <1>3 DEF CloseEvent, Notify
<1>4. ~ConnectEvent /\ ~ConnectError /\ ~WriteError /\ ~ReadError
  BY DEF ConnectEvent, ConnectError, WriteError, ReadError
<1>5. CASE Connect \/ ReadHoldingRegisters \/ Disconnect \/ Flush \/ WriteEvent
           \/ EndEvent \/ DeviceAnswer \/ UNCHANGED vars
  BY <1>5 DEF Connect, ReadHoldingRegisters, Disconnect, Flush, WriteEvent, EndEvent,
              DeviceAnswer, vars
<1> QED BY <1>2, <1>3, <1>4, <1>5 DEF Next

(* A caller that has called disconnect() hears nothing more, not even of the *)
(* writes and the close still under way, whatever it had outstanding.        *)
THEOREM SilentCorrect == Spec => SilentAfterDisconnect
<1>1. LinkInv /\ [Next]_vars => [tcp = "dropped" => UNCHANGED <<published, notices>>]_vars
  BY SilentStep
<1> QED
  BY <1>1, LinkInit, LinkNext, TypeInit, TypeNext, PTL DEF Spec, SilentAfterDisconnect

-----------------------------------------------------------------------------
(* Refinement.                                                               *)

LEMMA PromiseDeliver ==
    ASSUME MaxOutstanding = 1, TypeOK, SerialInv, LinkInv, DataEvent
    PROVE  Promise!Hear \/ UNCHANGED <<request.number, published, listening>>
<1>1. PICK n \in arrived + 1 .. FrameParts * Len(stream) :
        /\ arrived' = n
        /\ \E response \in FromBuffer(bufStart, n) :
              IF response = None THEN KeepCollecting ELSE Deliver(response)
  BY DEF DataEvent
<1>2. PICK response \in FromBuffer(bufStart, n) :
        IF response = None THEN KeepCollecting ELSE Deliver(response)
  BY <1>1
<1>3. listening' = listening
  BY DEF DataEvent, link
<1>4. CASE response = None
  BY <1>2, <1>3, <1>4 DEF KeepCollecting, requests
<1>5. CASE response # None
  <2>1. /\ request.number = Len(published) + 1
        /\ response.req = request.number /\ response.tid = request.tid
    BY <1>5, AnswerAwaited
  <2>2. response.kind \in Kinds
    BY <1>5, FromBufferType
  <2>3. UserDataOf(transactionsUserData, response.tid) = request.number
    BY <2>1 DEF UserDataOf, SerialInv, Transactions, NoStaleTransaction, Waiting,
                TypeOK, Requests
  <2>4. OutcomeOf(response) \in Promise!Outcomes(Len(published) + 1)
    BY <2>1, <2>2, <2>3 DEF OutcomeOf, Promise!Outcomes, Kinds
  <2>5. Deliver(response)
    BY <1>2, <1>5
  <2>6. published' = Append(published, OutcomeOf(response))
    BY <2>5 DEF Deliver
  <2>7. request'.number \in {request.number, request.number + 1}
    BY <2>5 DEF Deliver, NextRequest
  <2>8. listening
    BY Zenon DEF DataEvent, Readable, LinkInv
  <2>9. Len(published) < request.number
    BY <2>1 DEF TypeOK
  <2> QED BY <1>3, <2>4, <2>6, <2>7, <2>8, <2>9 DEF Promise!Hear
<1> QED BY <1>4, <1>5

LEMMA PromiseNext ==
    ASSUME MaxOutstanding = 1, TypeOK, SerialInv, LinkInv, [Next]_vars
    PROVE  [Promise!RRNext]_(Promise!rrVars)
<1> USE DEF Promise!rrVars, link, requests, heard
<1>1. CASE ReadHoldingRegisters
  <2>1. /\ listening /\ request.number = Len(published)
        /\ request'.number = request.number + 1
    BY <1>1 DEF ReadHoldingRegisters, MayRequest, NextRequest, SerialInv, OneAtATime,
                TypeOK, Requests
  <2>2. Promise!Ask
    BY <1>1, <2>1 DEF ReadHoldingRegisters, Promise!Ask
  <2> QED BY <2>2 DEF Promise!RRNext
<1>2. CASE Disconnect
  BY <1>2 DEF Disconnect, ResetListeners, Promise!Leave, Promise!RRNext
<1>3. CASE DataEvent
  BY <1>3, PromiseDeliver DEF Promise!RRNext
<1>4. CASE Connect \/ ConnectEvent \/ ConnectError \/ Flush \/ WriteError \/ WriteEvent
           \/ EndEvent \/ ReadError \/ CloseEvent \/ DeviceAnswer \/ UNCHANGED vars
  BY <1>4 DEF Connect, ConnectEvent, ConnectError, Flush, WriteError, WriteEvent,
              EndEvent, ReadError, CloseEvent, DeviceAnswer, vars
<1> QED BY <1>1, <1>2, <1>3, <1>4 DEF Next

(* A caller that keeps one request outstanding sees RequestReply: connection  *)
(* attempts, queued writes, partial reads, wrapping ids and nested requests   *)
(* stay invisible to it.                                                     *)
THEOREM PromisedCorrect == ASSUME MaxOutstanding = 1 PROVE Spec => Promised
<1>1. Init => Promise!RRInit
  BY DEF Init, Promise!RRInit
<1>2. TypeOK /\ SerialInv /\ LinkInv /\ [Next]_vars => [Promise!RRNext]_(Promise!rrVars)
  BY PromiseNext
<1>3. Spec => [](TypeOK /\ SerialInv /\ LinkInv)
  BY TypeInit, TypeNext, LinkInit, LinkNext, SerialInit, SerialNext, PTL DEF Spec
<1> QED BY <1>1, <1>2, <1>3, PTL DEF Spec, Promised, Promise!RRSpec

-----------------------------------------------------------------------------
(* Any number outstanding, before the transaction id wraps: an id is that of *)
(* one request only, wherever it is.                                         *)

IdIsNumber ==
    /\ request.tid = request.number
    /\ \A i \in 1 .. Len(received) : received[i].tid = received[i].number
    /\ \A i \in 1 .. Len(stream) : stream[i].tid = stream[i].req
    /\ \A t \in DOMAIN transactionsUserData : transactionsUserData[t] = t

OwnInv == IdIsNumber /\ NeverForeignUserData

LEMMA OwnInit == Init => OwnInv
BY DEF Init, OwnInv, IdIsNumber, NeverForeignUserData

LEMMA NextRequestOwn ==
    ASSUME MaxRequests < TidMod, TypeOK, IdIsNumber, NEW answered, MayRequest(answered)
    PROVE  /\ NextRequest.tid = NextRequest.number
           /\ \A userData : userData = Remember(transactionsUserData, request) =>
                 \A t \in DOMAIN userData : userData[t] = t
<1>1. NextTid(request.tid) = request.number + 1
  BY RequestsAssumption, TidAssumption
     DEF TypeOK, Requests, IdIsNumber, MayRequest, NextTid
<1> QED BY <1>1 DEF NextRequest, Remember, IdIsNumber

LEMMA WriteOwn ==
    ASSUME TypeOK, IdIsNumber, request' \in Requests, request'.tid = request'.number, Write
    PROVE  \A i \in 1 .. Len(received') : received'[i].tid = received'[i].number
<1>1. CASE received' = Append(received, request')
  <2> SUFFICES ASSUME NEW i \in 1 .. Len(received')
               PROVE  received'[i].tid = received'[i].number
    OBVIOUS
  <2>1. CASE i \in 1 .. Len(received)
    BY <1>1, <2>1 DEF TypeOK, IdIsNumber
  <2>2. CASE i = Len(received) + 1
    BY <1>1, <2>2 DEF TypeOK
  <2> QED BY <1>1, <2>1, <2>2 DEF TypeOK
<1>2. CASE received' = received
  BY <1>2 DEF IdIsNumber
<1> QED BY <1>1, <1>2 DEF Write

LEMMA OutcomeOwn ==
    ASSUME TypeOK, IdIsNumber, NEW n \in arrived + 1 .. FrameParts * Len(stream),
           NEW response \in FromBuffer(bufStart, n), response # None
    PROVE  LET outcome == OutcomeOf(response)
           IN  outcome.req # 0 => outcome.user \in {0, outcome.req}
<1>1. CASE bufStart % FrameParts = 0
  <2>1. Complete(n - bufStart) /\ response = stream[(bufStart \div FrameParts) + 1]
    BY <1>1 DEF FromBuffer
  <2>2. (bufStart \div FrameParts) + 1 \in 1 .. Len(stream)
    BY <1>1, <2>1 DEF TypeOK, FrameParts, Complete
  <2>3. response.tid = response.req
    BY <2>1, <2>2 DEF IdIsNumber
  <2> QED BY <2>3 DEF OutcomeOf, UserDataOf, IdIsNumber
<1>2. CASE ~(bufStart % FrameParts = 0)
  <2>1. response \in [kind : Kinds, req : {0},
                      tid : DOMAIN transactionsUserData \cup {NoTid}]
    BY <1>2 DEF FromBuffer
  <2> QED BY <2>1 DEF OutcomeOf
<1> QED BY <1>1, <1>2

LEMMA OwnDeliver ==
    ASSUME MaxRequests < TidMod, TypeOK, OwnInv,
           NEW n \in arrived + 1 .. FrameParts * Len(stream),
           NEW response \in FromBuffer(bufStart, n), response # None,
           Deliver(response), UNCHANGED stream
    PROVE  OwnInv'
<1>1. NeverForeignUserData'
  <2>1. published' = Append(published, OutcomeOf(response))
    BY DEF Deliver
  <2> SUFFICES ASSUME NEW i \in 1 .. Len(published'), published'[i].req # 0
               PROVE  published'[i].user \in {0, published'[i].req}
    BY DEF NeverForeignUserData
  <2>2. CASE i \in 1 .. Len(published)
    <3>1. published'[i] = published[i]
      BY <2>1, <2>2 DEF TypeOK
    <3> QED BY <2>2, <3>1 DEF OwnInv, NeverForeignUserData
  <2>3. CASE i = Len(published) + 1
    <3>1. published'[i] = OutcomeOf(response)
      BY <2>1, <2>3 DEF TypeOK
    <3> QED BY <3>1, OutcomeOwn DEF OwnInv
  <2> QED BY <2>1, <2>2, <2>3 DEF TypeOK
<1>2. CASE /\ transactionsUserData' = Erase(transactionsUserData, response.tid, request)
           /\ UNCHANGED <<request, sending>>
  <2>1. IdIsNumber'
    BY <1>2 DEF OwnInv, IdIsNumber, Erase, Restrict, sending
  <2> QED BY <1>1, <2>1 DEF OwnInv
<1>3. CASE /\ MayRequest(Len(published) + 1)
           /\ request' = NextRequest /\ Write
           /\ transactionsUserData' =
                 Erase(Remember(transactionsUserData, request), response.tid, NextRequest)
  <2>1. request' \in Requests /\ request'.tid = request'.number
    BY <1>3, NextRequestType, NextRequestOwn DEF OwnInv
  <2>2. \A i \in 1 .. Len(received') : received'[i].tid = received'[i].number
    BY <1>3, <2>1, WriteOwn DEF OwnInv
  <2>3. PICK userData : userData = Remember(transactionsUserData, request)
    OBVIOUS
  <2>4. \A t \in DOMAIN userData : userData[t] = t
    BY <1>3, <2>3, NextRequestOwn DEF OwnInv
  <2>5. \A t \in DOMAIN transactionsUserData' : transactionsUserData'[t] = t
    BY <1>3, <2>3, <2>4 DEF Erase, Restrict
  <2> QED BY <1>1, <2>1, <2>2, <2>5 DEF OwnInv, IdIsNumber
<1> QED BY <1>2, <1>3 DEF Deliver

LEMMA OwnNext ==
    ASSUME MaxRequests < TidMod, TypeOK, OwnInv, [Next]_vars
    PROVE  OwnInv'
<1> USE DEF requests, sending, incoming, heard
<1>1. CASE ReadHoldingRegisters
  <2>1. request' \in Requests /\ request'.tid = request'.number
    BY <1>1, NextRequestType, NextRequestOwn DEF OwnInv, ReadHoldingRegisters
  <2>2. \A i \in 1 .. Len(received') : received'[i].tid = received'[i].number
    BY <1>1, <2>1, WriteOwn DEF OwnInv, ReadHoldingRegisters
  <2>3. \A t \in DOMAIN transactionsUserData' : transactionsUserData'[t] = t
    BY <1>1, NextRequestOwn DEF OwnInv, ReadHoldingRegisters
  <2> QED BY <1>1, <2>1, <2>2, <2>3
          DEF OwnInv, IdIsNumber, NeverForeignUserData, ReadHoldingRegisters
<1>2. CASE Flush
  <2>1. received' = Append(received, request)
    BY <1>2 DEF Flush
  <2>2. \A i \in 1 .. Len(received') : received'[i].tid = received'[i].number
    BY <2>1 DEF OwnInv, IdIsNumber, TypeOK
  <2> QED BY <1>2, <2>2 DEF OwnInv, IdIsNumber, NeverForeignUserData, Flush
<1>3. CASE DataEvent
  <2>1. PICK n \in arrived + 1 .. FrameParts * Len(stream) :
          \E response \in FromBuffer(bufStart, n) :
             IF response = None THEN KeepCollecting ELSE Deliver(response)
    BY <1>3 DEF DataEvent
  <2>2. UNCHANGED stream
    BY <1>3 DEF DataEvent
  <2>3. CASE KeepCollecting
    BY <2>2, <2>3 DEF KeepCollecting, OwnInv, IdIsNumber, NeverForeignUserData
  <2>4. CASE \E response \in FromBuffer(bufStart, n) : response # None /\ Deliver(response)
    BY <2>2, <2>4, OwnDeliver
  <2> QED BY <2>1, <2>3, <2>4
<1>4. CASE DeviceAnswer
  <2>1. PICK i \in DOMAIN received, kind \in Kinds :
          /\ stream' = Append(stream, [kind |-> kind, req |-> received[i].number,
                                       tid |-> received[i].tid])
          /\ received' = RemoveAt(received, i)
    BY <1>4 DEF DeviceAnswer
  <2>2. received[i].tid = received[i].number /\ i \in 1 .. Len(received)
    BY DEF OwnInv, IdIsNumber, TypeOK
  <2>3. \A k \in 1 .. Len(stream') : stream'[k].tid = stream'[k].req
    BY <2>1, <2>2 DEF OwnInv, IdIsNumber, TypeOK
  <2>4. \A k \in 1 .. Len(received') : received'[k].tid = received'[k].number
    <3>1. received \in Seq(Requests)
      BY DEF TypeOK
    <3>2. /\ Len(received') = Len(received) - 1
          /\ \A j \in 1 .. Len(received) - 1 :
                \E k \in 1 .. Len(received) : received'[j] = received[k]
      BY <2>1, <2>2, <3>1, RemoveAtFacts
    <3> QED BY <3>2 DEF OwnInv, IdIsNumber
  <2> QED BY <1>4, <2>3, <2>4 DEF OwnInv, IdIsNumber, NeverForeignUserData, DeviceAnswer
<1>5. CASE UNCHANGED <<request, transactionsUserData, received, stream, published>>
  BY <1>5 DEF OwnInv, IdIsNumber, NeverForeignUserData
<1>6. CASE Connect \/ Disconnect \/ ConnectEvent \/ ConnectError \/ WriteError \/ WriteEvent
           \/ EndEvent \/ ReadError \/ CloseEvent \/ UNCHANGED vars
  <2>1. UNCHANGED <<request, transactionsUserData, received, stream, published>>
    BY <1>6 DEF Connect, Disconnect, ConnectEvent, ConnectError, WriteError, WriteEvent,
                EndEvent, ReadError, CloseEvent, vars
  <2> QED BY <1>5, <2>1
<1> QED BY <1>1, <1>2, <1>3, <1>4, <1>6 DEF Next

(* As long as fewer requests were made than there are transaction ids, a     *)
(* response never carries the userData of another request, however many the  *)
(* caller has outstanding, in whatever order they are answered, and whatever *)
(* the parser makes of a buffer that was emptied at the wrong time.          *)
THEOREM NeverForeignCorrect ==
    ASSUME MaxRequests < TidMod PROVE Spec => []NeverForeignUserData
<1>1. Init => TypeOK /\ OwnInv
  BY TypeInit, OwnInit
<1>2. TypeOK /\ OwnInv /\ [Next]_vars => TypeOK' /\ OwnInv'
  BY TypeNext, OwnNext
<1>3. OwnInv => NeverForeignUserData
  BY DEF OwnInv
<1> QED BY <1>1, <1>2, <1>3, PTL DEF Spec
=============================================================================
