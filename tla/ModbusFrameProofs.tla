-------------------------- MODULE ModbusFrameProofs --------------------------
(***************************************************************************)
(* What ModbusResponse::fromBuffer() makes of the frames of a device, for    *)
(* every transaction id, unit and register: nothing of a part of one, and    *)
(* what the device said of the whole.                                        *)
(***************************************************************************)
EXTENDS ModbusFrame, TLAPS

(* The two octets of a word make it up again.                                *)
LEMMA HighLow ==
    ASSUME NEW word \in Word
    PROVE  High(word) \in Octet /\ Low(word) \in Octet /\ 256 * High(word) + Low(word) = word
BY DEF Word, Octet, High, Low

LEMMA RegisterOctetsShape ==
    ASSUME NEW values \in Seq(Word)
    PROVE  /\ RegisterOctets(values) \in Seq(Octet)
           /\ Len(RegisterOctets(values)) = 2 * Len(values)
           /\ \A i \in 1 .. Len(values) :
                 /\ RegisterOctets(values)[2 * i - 1] = High(values[i])
                 /\ RegisterOctets(values)[2 * i] = Low(values[i])
<1> DEFINE n == Len(values)
<1>1. n \in Nat
  OBVIOUS
<1>2. \A i \in 1 .. 2 * n :
         (IF i % 2 = 1 THEN High(values[(i + 1) \div 2]) ELSE Low(values[i \div 2])) \in Octet
  <2> SUFFICES ASSUME NEW i \in 1 .. 2 * n
               PROVE  (IF i % 2 = 1 THEN High(values[(i + 1) \div 2])
                                    ELSE Low(values[i \div 2])) \in Octet
    OBVIOUS
  <2>1. CASE i % 2 = 1
    <3>1. (i + 1) \div 2 \in 1 .. n
      BY <1>1, <2>1
    <3> QED BY <3>1, <2>1, HighLow
  <2>2. CASE i % 2 # 1
    <3>1. i \div 2 \in 1 .. n
      BY <1>1, <2>2
    <3> QED BY <3>1, <2>2, HighLow
  <2> QED BY <2>1, <2>2
<1>3. \A i \in 1 .. n :
         /\ (2 * i - 1) % 2 = 1 /\ ((2 * i - 1) + 1) \div 2 = i /\ 2 * i - 1 \in 1 .. 2 * n
         /\ (2 * i) % 2 # 1 /\ (2 * i) \div 2 = i /\ 2 * i \in 1 .. 2 * n
  BY <1>1
<1>4. RegisterOctets(values) \in [1 .. 2 * n -> Octet]
  BY <1>2 DEF RegisterOctets
<1>5. RegisterOctets(values) \in Seq(Octet) /\ Len(RegisterOctets(values)) = 2 * n
  BY <1>1, <1>4
<1>6. \A i \in 1 .. n : /\ RegisterOctets(values)[2 * i - 1] = High(values[i])
                        /\ RegisterOctets(values)[2 * i] = Low(values[i])
  BY <1>3 DEF RegisterOctets
<1> QED BY <1>5, <1>6

LEMMA SevenTuple ==
    ASSUME NEW S, NEW a \in S, NEW b \in S, NEW c \in S, NEW d \in S,
           NEW e \in S, NEW f \in S, NEW g \in S,
           NEW head, head = <<a, b, c, d, e, f, g>>
    PROVE  /\ head \in Seq(S) /\ Len(head) = 7
           /\ head[1] = a /\ head[2] = b /\ head[5] = e /\ head[6] = f /\ head[7] = g
OBVIOUS

LEMMA Concatenated ==
    ASSUME NEW s \in Seq(Octet), NEW t \in Seq(Octet)
    PROVE  /\ s \o t \in Seq(Octet) /\ Len(s \o t) = Len(s) + Len(t)
           /\ \A i \in 1 .. Len(s) : (s \o t)[i] = s[i]
           /\ \A i \in 1 .. Len(t) : (s \o t)[Len(s) + i] = t[i]
OBVIOUS

(* A frame says in its header what it was made of, if its length fits there.  *)
LEMMA FrameShape ==
    ASSUME NEW tid \in Word, NEW unit \in Octet,
           NEW body \in Seq(Octet), 1 + Len(body) \in Word
    PROVE  /\ Frame(tid, unit, body) \in Seq(Octet)
           /\ Len(Frame(tid, unit, body)) = 7 + Len(body)
           /\ WordAt(Frame(tid, unit, body), 1) = tid
           /\ WordAt(Frame(tid, unit, body), 5) = 1 + Len(body)
           /\ Frame(tid, unit, body)[7] = unit
           /\ \A i \in 1 .. Len(body) : Frame(tid, unit, body)[7 + i] = body[i]
<1>2. /\ High(tid) \in Octet /\ Low(tid) \in Octet /\ 256 * High(tid) + Low(tid) = tid
      /\ High(1 + Len(body)) \in Octet /\ Low(1 + Len(body)) \in Octet
      /\ 256 * High(1 + Len(body)) + Low(1 + Len(body)) = 1 + Len(body)
  BY HighLow
<1>3. 0 \in Octet
  BY DEF Octet
<1>4. PICK head : head = <<High(tid), Low(tid), 0, 0, High(1 + Len(body)),
                          Low(1 + Len(body)), unit>>
  BY Zenon
<1>5. /\ head \in Seq(Octet) /\ Len(head) = 7
      /\ head[1] = High(tid) /\ head[2] = Low(tid) /\ head[7] = unit
      /\ head[5] = High(1 + Len(body)) /\ head[6] = Low(1 + Len(body))
  BY <1>2, <1>3, <1>4, SevenTuple
<1>6. PICK frame : frame = Frame(tid, unit, body)
  BY Zenon
<1>7. frame = head \o body
  BY <1>4, <1>6, Zenon DEF Frame
<1>8. /\ frame \in Seq(Octet) /\ Len(frame) = Len(head) + Len(body)
      /\ \A i \in 1 .. Len(head) : frame[i] = head[i]
      /\ \A i \in 1 .. Len(body) : frame[Len(head) + i] = body[i]
  <2>1. head \in Seq(Octet) /\ body \in Seq(Octet)
    BY <1>5
  <2>2. /\ head \o body \in Seq(Octet) /\ Len(head \o body) = Len(head) + Len(body)
        /\ \A i \in 1 .. Len(head) : (head \o body)[i] = head[i]
        /\ \A i \in 1 .. Len(body) : (head \o body)[Len(head) + i] = body[i]
    BY ONLY <2>1, Concatenated, Zenon
  <2> QED BY <1>7, <2>2, Zenon
<1>9. /\ frame \in Seq(Octet) /\ Len(frame) = 7 + Len(body)
      /\ \A i \in 1 .. Len(body) : frame[7 + i] = body[i]
  BY <1>5, <1>8, Zenon
<1>10. /\ frame[1] = High(tid) /\ frame[2] = Low(tid) /\ frame[7] = unit
       /\ frame[5] = High(1 + Len(body)) /\ frame[6] = Low(1 + Len(body))
  <2>1. \A i \in 1 .. 7 : frame[i] = head[i]
    BY <1>5, <1>8, Zenon
  <2>2. 1 \in 1 .. 7 /\ 2 \in 1 .. 7 /\ 5 \in 1 .. 7 /\ 6 \in 1 .. 7 /\ 7 \in 1 .. 7
    OBVIOUS
  <2> QED BY <1>5, <2>1, <2>2, Zenon
<1>11. WordAt(frame, 1) = tid /\ WordAt(frame, 5) = 1 + Len(body)
  <2>1. WordAt(frame, 1) = 256 * frame[1] + frame[2]
    BY DEF WordAt
  <2>2. WordAt(frame, 5) = 256 * frame[5] + frame[6]
    BY DEF WordAt
  <2> QED BY <1>2, <1>10, <2>1, <2>2, Zenon
<1> QED BY <1>6, <1>9, <1>10, <1>11, Zenon

(* The first octets of a frame are not whole: fromBuffer() waits for the rest. *)
LEMMA OnlyTheWholeIsWhole ==
    ASSUME NEW tid \in Word, NEW unit \in Octet,
           NEW body \in Seq(Octet), body # <<>>, 1 + Len(body) \in Word,
           NEW n \in 0 .. 7 + Len(body)
    PROVE  Whole(SubSeq(Frame(tid, unit, body), 1, n)) <=> n = 7 + Len(body)
<1> DEFINE frame == Frame(tid, unit, body)
           part == SubSeq(frame, 1, n)
<1>1. frame \in Seq(Octet) /\ Len(frame) = 7 + Len(body) /\ WordAt(frame, 5) = 1 + Len(body)
  BY FrameShape
<1> HIDE DEF frame
<1>2. Len(part) = n /\ \A i \in 1 .. n : part[i] = frame[i]
  BY <1>1
<1>3. CASE n < 8
  BY <1>2, <1>3 DEF Whole, frame
<1>4. CASE n >= 8
  <2>1. part[5] = frame[5] /\ part[6] = frame[6]
    BY <1>2, <1>4
  <2>2. WordAt(part, 5) = WordAt(frame, 5)
    <3> HIDE DEF part
    <3> QED BY <2>1 DEF WordAt
  <2>3. Whole(part) <=> n >= 8 /\ n >= 1 + Len(body) + 6
    BY <2>2, <1>1, <1>2 DEF Whole
  <2> QED BY <2>3, <1>4 DEF frame
<1> QED BY <1>3, <1>4

-----------------------------------------------------------------------------
(* The data of an answer with registers, and of one with an exception.       *)
LEMMA ResponseBody ==
    ASSUME NEW values \in Seq(Word), Len(values) < 128
    PROVE  LET body == <<HoldingRegisters, 2 * Len(values)>> \o RegisterOctets(values)
           IN  /\ body \in Seq(Octet) /\ Len(body) = 2 + 2 * Len(values)
               /\ body[1] = HoldingRegisters /\ body[2] = 2 * Len(values)
               /\ \A i \in 1 .. Len(values) :
                     /\ body[2 * i + 1] = High(values[i]) /\ body[2 * i + 2] = Low(values[i])
<1> DEFINE octets == RegisterOctets(values)
           head == <<HoldingRegisters, 2 * Len(values)>>
           body == head \o octets
<1>1. /\ octets \in Seq(Octet) /\ Len(octets) = 2 * Len(values)
      /\ \A i \in 1 .. Len(values) :
            octets[2 * i - 1] = High(values[i]) /\ octets[2 * i] = Low(values[i])
  BY RegisterOctetsShape
<1>2. /\ head \in Seq(Octet) /\ Len(head) = 2
      /\ head[1] = HoldingRegisters /\ head[2] = 2 * Len(values)
  BY DEF Octet, HoldingRegisters
<1> HIDE DEF octets, head
<1>3. /\ body \in Seq(Octet) /\ Len(body) = Len(head) + Len(octets)
      /\ \A i \in 1 .. Len(head) : body[i] = head[i]
      /\ \A i \in 1 .. Len(octets) : body[Len(head) + i] = octets[i]
  BY <1>1, <1>2, Concatenated
<1> HIDE DEF body
<1>4. Len(body) = 2 + 2 * Len(values) /\ body[1] = head[1] /\ body[2] = head[2]
  BY <1>1, <1>2, <1>3
<1>5. \A i \in 1 .. Len(values) :
         body[2 * i + 1] = octets[2 * i - 1] /\ body[2 * i + 2] = octets[2 * i]
  <2> SUFFICES ASSUME NEW i \in 1 .. Len(values)
               PROVE  body[2 * i + 1] = octets[2 * i - 1] /\ body[2 * i + 2] = octets[2 * i]
    OBVIOUS
  <2>1. 2 * i - 1 \in 1 .. Len(octets) /\ 2 * i \in 1 .. Len(octets)
    BY <1>1
  <2>2. 2 + (2 * i - 1) = 2 * i + 1 /\ 2 + 2 * i = 2 * i + 2
    OBVIOUS
  <2> QED BY <1>2, <1>3, <2>1, <2>2
<1>6. /\ body[1] = HoldingRegisters /\ body[2] = 2 * Len(values)
      /\ \A i \in 1 .. Len(values) :
            body[2 * i + 1] = High(values[i]) /\ body[2 * i + 2] = Low(values[i])
  BY <1>1, <1>2, <1>4, <1>5, Zenon
<1> QED BY <1>3, <1>4, <1>6 DEF body, head, octets

(* Of an answer with registers fromBuffer() makes the values the device      *)
(* read, under the id and the unit of its frame.                             *)
THEOREM ResponseIsUnderstood ==
    ASSUME NEW tid \in Word, NEW unit \in Octet,
           NEW values \in Seq(Word), Len(values) < 128
    PROVE  FromBuffer(ResponseToBuffer(tid, unit, values)) =
               [tid |-> tid, unit |-> unit, exception |-> NoException, values |-> values]
<1>1. PICK body : body = <<HoldingRegisters, 2 * Len(values)>> \o RegisterOctets(values)
  BY Zenon
<1>2. /\ body \in Seq(Octet) /\ Len(body) = 2 + 2 * Len(values)
      /\ body[1] = HoldingRegisters /\ body[2] = 2 * Len(values)
      /\ \A i \in 1 .. Len(values) :
            body[2 * i + 1] = High(values[i]) /\ body[2 * i + 2] = Low(values[i])
  BY <1>1, ResponseBody, Zenon
<1>3. PICK frame : frame = ResponseToBuffer(tid, unit, values)
  BY Zenon
<1>4. frame = Frame(tid, unit, body)
  BY <1>1, <1>3, Zenon DEF ResponseToBuffer
<1>5. 1 + Len(body) \in Word
  BY <1>2 DEF Word
<1>6. /\ WordAt(frame, 1) = tid /\ frame[7] = unit
      /\ \A i \in 1 .. Len(body) : frame[7 + i] = body[i]
  <2>1. body \in Seq(Octet) /\ 1 + Len(body) \in Word
    BY <1>2, <1>5, Zenon
  <2>2. /\ WordAt(Frame(tid, unit, body), 1) = tid /\ Frame(tid, unit, body)[7] = unit
        /\ \A i \in 1 .. Len(body) : Frame(tid, unit, body)[7 + i] = body[i]
    BY <2>1, FrameShape
  <2> QED BY <1>4, <2>2, Zenon
<1>7. frame[8] = HoldingRegisters /\ frame[9] = 2 * Len(values)
  <2>1. 1 \in 1 .. Len(body) /\ 2 \in 1 .. Len(body) /\ 7 + 1 = 8 /\ 7 + 2 = 9
    BY <1>2
  <2> QED BY <1>2, <1>6, <2>1
<1>8. \A i \in 1 .. Len(values) : Register(frame, i) = values[i]
  <2> SUFFICES ASSUME NEW i \in 1 .. Len(values)
               PROVE  Register(frame, i) = values[i]
    OBVIOUS
  <2>1. values[i] \in Word
    OBVIOUS
  <2>2. /\ 2 * i + 1 \in 1 .. Len(body) /\ 2 * i + 2 \in 1 .. Len(body)
        /\ 7 + (2 * i + 1) = 8 + 2 * i /\ 7 + (2 * i + 2) = 8 + 2 * i + 1
    BY <1>2
  <2>3. frame[8 + 2 * i] = High(values[i]) /\ frame[8 + 2 * i + 1] = Low(values[i])
    BY <1>2, <1>6, <2>2
  <2>4. 256 * High(values[i]) + Low(values[i]) = values[i]
    BY <2>1, HighLow
  <2> QED BY <2>3, <2>4 DEF Register, WordAt
<1>9. HoldingRegisters \in FunctionCodes
  BY DEF HoldingRegisters, FunctionCodes
<1>10. (2 * Len(values)) \div 2 = Len(values)
  OBVIOUS
<1>11. [i \in 1 .. frame[9] \div 2 |-> Register(frame, i)] = values
  <2>1. [i \in 1 .. Len(values) |-> Register(frame, i)] = [i \in 1 .. Len(values) |-> values[i]]
    BY <1>8, Zenon
  <2>2. [i \in 1 .. Len(values) |-> values[i]] = values
    OBVIOUS
  <2> QED BY <1>7, <1>10, <2>1, <2>2, Zenon
<1>12. FromBuffer(frame) =
          [tid |-> tid, unit |-> unit, exception |-> NoException,
           values |-> [i \in 1 .. frame[9] \div 2 |-> Register(frame, i)]]
  BY <1>6, <1>7, <1>9, Zenon DEF FromBuffer
<1> QED BY <1>3, <1>11, <1>12, Zenon

(* Of a frame that announces an exception it makes the code, or Unknown if   *)
(* the code has no name, and no values.                                      *)
THEOREM ExceptionIsUnderstood ==
    ASSUME NEW tid \in Word, NEW unit \in Octet,
           NEW function \in FunctionCodes, NEW code \in Octet
    PROVE  FromBuffer(ExceptionToBuffer(tid, unit, function, code)) =
               [tid |-> tid, unit |-> unit, values |-> <<>>,
                exception |-> IF code \in ExceptionCodes THEN code ELSE UnknownException]
<1>1. PICK body : body = <<function + 128, code>>
  BY Zenon
<1>2. function + 128 \in Octet /\ function + 128 \notin FunctionCodes
  BY DEF Octet, FunctionCodes
<1>3. body \in Seq(Octet) /\ Len(body) = 2 /\ body[1] = function + 128 /\ body[2] = code
  BY <1>1, <1>2
<1>4. PICK frame : frame = ExceptionToBuffer(tid, unit, function, code)
  BY Zenon
<1>5. frame = Frame(tid, unit, body)
  BY <1>1, <1>4, Zenon DEF ExceptionToBuffer
<1>6. 1 + Len(body) \in Word
  BY <1>3 DEF Word
<1>7. /\ WordAt(frame, 1) = tid /\ frame[7] = unit
      /\ \A i \in 1 .. Len(body) : frame[7 + i] = body[i]
  <2>1. body \in Seq(Octet) /\ 1 + Len(body) \in Word
    BY <1>3, <1>6, Zenon
  <2>2. /\ WordAt(Frame(tid, unit, body), 1) = tid /\ Frame(tid, unit, body)[7] = unit
        /\ \A i \in 1 .. Len(body) : Frame(tid, unit, body)[7 + i] = body[i]
    BY <2>1, FrameShape
  <2> QED BY <1>5, <2>2, Zenon
<1>8. frame[8] = function + 128 /\ frame[9] = code
  <2>1. 1 \in 1 .. Len(body) /\ 2 \in 1 .. Len(body) /\ 7 + 1 = 8 /\ 7 + 2 = 9
    BY <1>3
  <2> QED BY <1>3, <1>7, <2>1
<1>9. frame[8] \notin FunctionCodes
  BY <1>2, <1>8, Zenon
<1>10. FromBuffer(frame) =
          [tid |-> tid, unit |-> unit, values |-> <<>>,
           exception |-> IF code \in ExceptionCodes THEN code ELSE UnknownException]
  BY <1>7, <1>8, <1>9, SMT DEF FromBuffer
<1> QED BY <1>4, <1>10, Zenon

(* A part of an answer is never taken for one, and the whole of it always is, *)
(* whatever the registers: data_events may cut it where they like.           *)
THEOREM ResponseIsWholeAtItsEnd ==
    ASSUME NEW tid \in Word, NEW unit \in Octet,
           NEW values \in Seq(Word), Len(values) < 128,
           NEW n \in 0 .. Len(ResponseToBuffer(tid, unit, values))
    PROVE  Whole(SubSeq(ResponseToBuffer(tid, unit, values), 1, n))
               <=> n = Len(ResponseToBuffer(tid, unit, values))
<1>1. PICK body : body = <<HoldingRegisters, 2 * Len(values)>> \o RegisterOctets(values)
  BY Zenon
<1>2. body \in Seq(Octet) /\ Len(body) = 2 + 2 * Len(values)
  BY <1>1, ResponseBody, Zenon
<1>3. body # <<>> /\ 1 + Len(body) \in Word
  BY <1>2 DEF Word
<1>4. ResponseToBuffer(tid, unit, values) = Frame(tid, unit, body)
  BY <1>1, Zenon DEF ResponseToBuffer
<1>5. Len(Frame(tid, unit, body)) = 7 + Len(body)
  BY <1>2, <1>3, FrameShape, Zenon
<1>6. n \in 0 .. 7 + Len(body)
  BY <1>4, <1>5, Zenon
<1>7. Whole(SubSeq(Frame(tid, unit, body), 1, n)) <=> n = 7 + Len(body)
  BY <1>2, <1>3, <1>6, OnlyTheWholeIsWhole, Zenon
<1> QED BY <1>4, <1>5, <1>7, Zenon
=============================================================================
