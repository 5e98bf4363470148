------------------------ MODULE SunSpecReadingProofs ------------------------
(***************************************************************************)
(* Proofs about SunSpecReading, for any devices, ids, lengths and cuts: the  *)
(* frames say what was asked and answered, and the extremes and the flag of  *)
(* a measured value are those of all its readings.  With devices that keep   *)
(* to the standard, the identity and what is published are what they said.   *)
(*                                                                           *)
(* The client waits for nothing, or for one answer.  In the latter case the  *)
(* request is on the wire, or the octets collected and the octets to come    *)
(* are, one behind the other, the frame of what the device said.             *)
(***************************************************************************)
EXTENDS SunSpecReading, ModbusFrameProofs, SequenceTheorems

-----------------------------------------------------------------------------
(* What one assignment does to the extremes and the flag of a MeasuredValue, *)
(* for any readings before it: the step of an induction over the readings.   *)

(* The value has been assigned the readings, and nothing else.               *)
Holds(cell, readings) ==
    /\ cell.known <=> readings # {}
    /\ readings = {} => cell = NewValue
    /\ readings # {} =>
          /\ cell.min \in readings /\ cell.max \in readings
          /\ \A reading \in readings : cell.min <= reading /\ reading <= cell.max

Cell == [known : BOOLEAN, min : Int, max : Int, dirty : BOOLEAN]

(* A value that was just made was assigned nothing.                          *)
THEOREM NewHoldsNothing == Holds(NewValue, {}) /\ NewValue \in Cell
BY DEF Holds, NewValue, Cell

(* operator=(T) keeps the lowest and the highest of all readings, and raises *)
(* the dirty flag exactly for one that lies outside of all before it.        *)
THEOREM AssignHolds ==
    ASSUME NEW cell \in Cell, NEW readings \in SUBSET Int, Holds(cell, readings),
           NEW value \in Int
    PROVE  /\ Assign(cell, value) \in Cell
           /\ Holds(Assign(cell, value), readings \cup {value})
           /\ Assign(cell, value).dirty <=>
                 \/ \A reading \in readings : value < reading
                 \/ \A reading \in readings : value > reading
<1> DEFINE after == Assign(cell, value)
<1>1. CASE readings = {}
  <2>1. cell = NewValue /\ ~cell.known
    BY <1>1 DEF Holds
  <2>2. after = [known |-> TRUE, min |-> value, max |-> value, dirty |-> TRUE]
    BY <2>1 DEF Assign, NewValue
  <2> QED BY <1>1, <2>2 DEF Holds, Cell
<1>2. CASE readings # {}
  <2>1. /\ cell.known /\ cell.min \in Int /\ cell.max \in Int
        /\ cell.min \in readings /\ cell.max \in readings
        /\ \A reading \in readings : cell.min <= reading /\ reading <= cell.max
    BY <1>2 DEF Holds, Cell
  <2>2. /\ after.known /\ after.min = Lower(cell.min, value)
        /\ after.max = Higher(cell.max, value)
        /\ after.dirty = (after.min # cell.min \/ after.max # cell.max)
    BY <2>1 DEF Assign
  <2>3. after.dirty <=> value < cell.min \/ value > cell.max
    <3>1. after.min # cell.min <=> value < cell.min
      BY <2>1, <2>2 DEF Lower
    <3>2. after.max # cell.max <=> value > cell.max
      BY <2>1, <2>2 DEF Higher
    <3> QED BY <2>2, <3>1, <3>2, Zenon
  <2>4. after \in Cell
    BY <2>1 DEF Assign, Cell, Lower, Higher
  <2>5. Holds(after, readings \cup {value})
    BY <2>1, <2>2 DEF Holds, Lower, Higher
  <2>6. (\A reading \in readings : value < reading) <=> value < cell.min
    BY <2>1
  <2>7. (\A reading \in readings : value > reading) <=> value > cell.max
    BY <2>1
  <2> QED BY <2>3, <2>4, <2>5, <2>6, <2>7
<1> QED BY <1>1, <1>2

(* SunSpecBlock's operator= assigns the keys of the other block, leaves the  *)
(* rest alone, and loses none.                                               *)
THEOREM AssignBlockIsKeywise ==
    ASSUME NEW block, NEW other, NEW key \in DOMAIN block \cup DOMAIN other
    PROVE  /\ DOMAIN AssignBlock(block, other) = DOMAIN block \cup DOMAIN other
           /\ key \notin DOMAIN other => AssignBlock(block, other)[key] = block[key]
           /\ key \in DOMAIN other /\ key \in DOMAIN block =>
                 AssignBlock(block, other)[key] = Assign(block[key], other[key].min)
           /\ key \in DOMAIN other /\ key \notin DOMAIN block =>
                 AssignBlock(block, other)[key] = Assign(NewValue, other[key].min)
BY DEF AssignBlock, AssignOther

-----------------------------------------------------------------------------
(* The client and its frames.                                                *)

Ids == {UnitIds[i] : i \in DOMAIN UnitIds}
Calls == [unit : Ids, address : Word, length : Word, user : Word]
Directory == UNION {[S -> Word \X Word] : S \in SUBSET Word}
Fields == [unitId : Ids \cup {0}, unitIdx : 0 .. Len(UnitIds), headerLength : Word,
           sunSpecId : Octet, blockAddresses : Directory, pending : Seq(Calls)]

(* A client of which a handler has run: it waits for one answer at most.     *)
Waits(c) ==
    /\ c \in Fields /\ c.unitId # 0
    /\ c.pending = <<>> \/ \E q \in Calls : c.pending = <<q>>

Said(answer) ==
    /\ answer.values \in Seq(Word) /\ Len(answer.values) < 128
    /\ answer.exception \in {NoException, IllegalDataAddress, NegativeAcknowledge,
                             TargetFailedToRespond}
    /\ answer.exception # NoException => answer.values = <<>>
AnswerFrame(id, unit, answer) ==
    IF answer.exception = NoException THEN ResponseToBuffer(id, unit, answer.values)
    ELSE ExceptionToBuffer(id, unit, HoldingRegisters, answer.exception)

(* The wire.                                                                 *)
Idle == request = <<>> /\ incoming = <<>> /\ readBuffer = <<>>
Asked(q) ==
    /\ request = RequestToBuffer(tid, q.unit, q.address, q.length)
    /\ incoming = <<>> /\ readBuffer = <<>>
Answering(q) ==
    /\ request = <<>> /\ incoming # <<>>
    /\ Said(said.answer)
    /\ readBuffer \o incoming = AnswerFrame(tid, q.unit, said.answer)

Types ==
    /\ device \in Devices /\ tid \in Word
    /\ request \in Seq(Octet) /\ incoming \in Seq(Octet) /\ readBuffer \in Seq(Octet)
    /\ handedOver \in BOOLEAN
    /\ heard.kind \in {"none", "connect", "close", "exception", "model"}
    /\ awaiting \in Word /\ reads \in 0 .. MaxReads

FInv ==
    /\ Types
    /\ Waits(client)
    /\ client.pending = <<>> => Idle
    /\ \A q \in Calls : client.pending = <<q>> => Asked(q) \/ Answering(q)

-----------------------------------------------------------------------------
(* Numbers.                                                                  *)

LEMMA Numbers ==
    /\ 0 \in Word /\ 0 \in Octet /\ 1 \in Word /\ Octet \subseteq Word
    /\ HeaderAddress \in Word /\ HeaderAddress + 4 \in Word
    /\ ReadHeader \in Word /\ CommonModel \in Word /\ CommonModel # ReadHeader
    /\ EndOfTable \in Word
BY AddressAssumption DEF Word, Octet, EndOfTable, CommonModel

LEMMA Wrapped == ASSUME NEW n \in Nat PROVE n % AddressMod \in Word
BY AddressAssumption DEF Word, EndOfTable

LEMMA IdsAreOctets == Ids \subseteq Octet /\ 0 \notin Ids
<1>1. \A i \in DOMAIN UnitIds : UnitIds[i] \in 1 .. 247
  <2>0. PICK n \in Nat : n = 247
    OBVIOUS
  <2>1. UnitIds \in Seq(1 .. n)
    BY <2>0, UnitIdsAssumption, Zenon
  <2>2. \A i \in DOMAIN UnitIds : UnitIds[i] \in 1 .. n
    BY <2>1
  <2> QED BY <2>0, <2>2, Zenon
<1> QED BY <1>1 DEF Ids, Octet

LEMMA NextIdTyped == ASSUME NEW n \in Word PROVE NextTransactionId(n) \in Word
BY DEF Word, NextTransactionId

LEMMA EntryAdded ==
    ASSUME NEW d \in Directory, NEW id \in Word, NEW place \in Word \X Word
    PROVE  [i \in DOMAIN d \cup {id} |-> IF i = id THEN place ELSE d[i]] \in Directory
<1>1. PICK S \in SUBSET Word : d \in [S -> Word \X Word]
  BY DEF Directory
<1>2. [i \in DOMAIN d \cup {id} |-> IF i = id THEN place ELSE d[i]]
         \in [S \cup {id} -> Word \X Word]
  BY <1>1
<1> QED BY <1>2 DEF Directory

LEMMA Empty == ASSUME NEW S, NEW s \in Seq(S) PROVE s = <<>> <=> Len(s) = 0
OBVIOUS

-----------------------------------------------------------------------------
(* Requests on the wire.                                                     *)

(* The device reads in a frame what it was made of.                          *)
LEMMA CallIsUnderstood ==
    ASSUME NEW id \in Word, NEW q \in Calls
    PROVE  LET frame == RequestToBuffer(id, q.unit, q.address, q.length)
           IN  /\ frame \in Seq(Octet) /\ frame # <<>>
               /\ WordAt(frame, 1) = id /\ UnitOf(frame) = q.unit
               /\ frame[8] = HoldingRegisters
               /\ AddressOf(frame) = q.address /\ LengthOf(frame) = q.length
<1>1. PICK unit, address, length : unit = q.unit /\ address = q.address /\ length = q.length
  OBVIOUS
<1>2. unit \in Octet /\ address \in Word /\ length \in Word
  BY <1>1, IdsAreOctets DEF Calls
<1>3. PICK frame : frame = RequestToBuffer(id, unit, address, length)
  OBVIOUS
<1>4. /\ frame \in Seq(Octet) /\ frame # <<>>
      /\ WordAt(frame, 1) = id /\ UnitOf(frame) = unit /\ frame[8] = HoldingRegisters
      /\ AddressOf(frame) = address /\ LengthOf(frame) = length
  <2>1. /\ High(id) \in Octet /\ Low(id) \in Octet /\ 256 * High(id) + Low(id) = id
        /\ High(address) \in Octet /\ Low(address) \in Octet
        /\ 256 * High(address) + Low(address) = address
        /\ High(length) \in Octet /\ Low(length) \in Octet
        /\ 256 * High(length) + Low(length) = length
    BY <1>2, HighLow
  <2>2. PICK a, b, c, d, e, f : /\ a = High(id) /\ b = Low(id) /\ c = High(address)
                                /\ d = Low(address) /\ e = High(length) /\ f = Low(length)
    OBVIOUS
  <2>3. frame = <<a, b, 0, 0, 0, 6, unit, 3, c, d, e, f>>
    BY <1>3, <2>2, Zenon DEF RequestToBuffer, HoldingRegisters
  <2>4. /\ frame[1] = a /\ frame[2] = b /\ frame[7] = unit /\ frame[8] = 3
        /\ frame[9] = c /\ frame[10] = d /\ frame[11] = e /\ frame[12] = f
        /\ frame # <<>>
    BY <2>3
  <2>5. frame \in Seq(Octet)
    <3>1. 0 \in Octet /\ 6 \in Octet /\ 3 \in Octet
      BY DEF Octet
    <3> QED BY <1>2, <2>1, <2>2, <2>3, <3>1
  <2> QED BY <2>1, <2>2, <2>4, <2>5 DEF WordAt, UnitOf, AddressOf, LengthOf, HoldingRegisters
<1> QED BY <1>1, <1>3, <1>4, Zenon

-----------------------------------------------------------------------------
(* Answers on the wire.                                                      *)

Heard(answer) ==
    IF answer.exception = NegativeAcknowledge THEN UnknownException ELSE answer.exception

LEMMA ResponseFrame ==
    ASSUME NEW id \in Word, NEW unit \in Octet,
           NEW values \in Seq(Word), Len(values) < 128,
           NEW frame, frame = ResponseToBuffer(id, unit, values)
    PROVE  /\ frame \in Seq(Octet) /\ frame # <<>>
           /\ \A n \in 0 .. Len(frame) : Whole(SubSeq(frame, 1, n)) <=> n = Len(frame)
           /\ FromBuffer(frame) = [tid |-> id, unit |-> unit, exception |-> NoException,
                                   values |-> values]
<1>1. PICK body : body = <<HoldingRegisters, 2 * Len(values)>> \o RegisterOctets(values)
  BY Zenon
<1>2. body \in Seq(Octet) /\ Len(body) = 2 + 2 * Len(values)
  BY <1>1, ResponseBody, Zenon
<1>3. 1 + Len(body) \in Word /\ body # <<>>
  BY <1>2 DEF Word
<1>4. frame = Frame(id, unit, body)
  BY <1>1, Zenon DEF ResponseToBuffer
<1>5. frame \in Seq(Octet) /\ Len(frame) = 7 + Len(body)
  BY <1>2, <1>3, <1>4, FrameShape
<1>6. ASSUME NEW n \in 0 .. Len(frame)
      PROVE  Whole(SubSeq(frame, 1, n)) <=> n = Len(frame)
  BY <1>2, <1>3, <1>4, <1>5, OnlyTheWholeIsWhole
<1>7. FromBuffer(frame) = [tid |-> id, unit |-> unit, exception |-> NoException,
                           values |-> values]
  BY ResponseIsUnderstood
<1> QED BY <1>2, <1>5, <1>6, <1>7

LEMMA ExceptionFrame ==
    ASSUME NEW id \in Word, NEW unit \in Octet, NEW code \in Octet,
           NEW frame, frame = ExceptionToBuffer(id, unit, HoldingRegisters, code)
    PROVE  /\ frame \in Seq(Octet) /\ frame # <<>>
           /\ \A n \in 0 .. Len(frame) : Whole(SubSeq(frame, 1, n)) <=> n = Len(frame)
           /\ FromBuffer(frame) =
                 [tid |-> id, unit |-> unit, values |-> <<>>,
                  exception |-> IF code \in ExceptionCodes THEN code ELSE UnknownException]
<1>1. PICK body : body = <<HoldingRegisters + 128, code>>
  BY Zenon
<1>2. /\ HoldingRegisters \in FunctionCodes
      /\ body \in Seq(Octet) /\ Len(body) = 2 /\ body # <<>> /\ 1 + Len(body) \in Word
  <2>1. HoldingRegisters + 128 \in Octet
    BY DEF Octet, HoldingRegisters
  <2>2. HoldingRegisters \in FunctionCodes
    BY DEF HoldingRegisters, FunctionCodes
  <2>3. body \in Seq(Octet) /\ Len(body) = 2 /\ body # <<>>
    BY <1>1, <2>1
  <2> QED BY <2>2, <2>3 DEF Word
<1>3. frame = Frame(id, unit, body)
  BY <1>1, Zenon DEF ExceptionToBuffer
<1>4. frame \in Seq(Octet) /\ Len(frame) = 7 + Len(body)
  <2>1. body \in Seq(Octet) /\ 1 + Len(body) \in Word
    BY <1>2
  <2> HIDE <1>1, <1>2
  <2> QED BY <1>3, <2>1, FrameShape
<1>5. ASSUME NEW n \in 0 .. Len(frame)
      PROVE  Whole(SubSeq(frame, 1, n)) <=> n = Len(frame)
  BY <1>2, <1>3, <1>4, OnlyTheWholeIsWhole
<1>6. FromBuffer(frame) = FromBuffer(ExceptionToBuffer(id, unit, HoldingRegisters, code))
  OBVIOUS
<1>7. FromBuffer(frame) =
         [tid |-> id, unit |-> unit, values |-> <<>>,
          exception |-> IF code \in ExceptionCodes THEN code ELSE UnknownException]
  BY <1>2, ExceptionIsUnderstood
<1> QED BY <1>2, <1>4, <1>5, <1>7

LEMMA AnswerIsUnderstood ==
    ASSUME NEW id \in Word, NEW unit \in Octet, NEW answer, Said(answer),
           NEW frame, frame = AnswerFrame(id, unit, answer)
    PROVE  /\ frame \in Seq(Octet) /\ frame # <<>>
           /\ \A n \in 0 .. Len(frame) : Whole(SubSeq(frame, 1, n)) <=> n = Len(frame)
           /\ FromBuffer(frame) = [tid |-> id, unit |-> unit, values |-> answer.values,
                                   exception |-> Heard(answer)]
           /\ Heard(answer) = NoException <=> answer.exception = NoException
<1>1. CASE answer.exception = NoException
  <2>1. frame = ResponseToBuffer(id, unit, answer.values)
    BY <1>1, Zenon DEF AnswerFrame
  <2>2. PICK values \in Seq(Word) : values = answer.values /\ Len(values) < 128
    BY DEF Said
  <2>3. /\ frame \in Seq(Octet) /\ frame # <<>>
        /\ \A n \in 0 .. Len(frame) : Whole(SubSeq(frame, 1, n)) <=> n = Len(frame)
        /\ FromBuffer(frame) = [tid |-> id, unit |-> unit, exception |-> NoException,
                                values |-> values]
    <3>1. frame = ResponseToBuffer(id, unit, values)
      BY <2>1, <2>2
    <3> HIDE <2>1
    <3> QED BY <2>2, <3>1, ResponseFrame
  <2>4. Heard(answer) = NoException
    BY <1>1 DEF Heard, NoException, NegativeAcknowledge
  <2> QED BY <1>1, <2>2, <2>3, <2>4
<1>2. CASE answer.exception # NoException
  <2>1. frame = ExceptionToBuffer(id, unit, HoldingRegisters, answer.exception)
    BY <1>2, Zenon DEF AnswerFrame
  <2>2. PICK code \in {IllegalDataAddress, NegativeAcknowledge, TargetFailedToRespond} :
           code = answer.exception
    BY <1>2 DEF Said
  <2>3. code \in Octet
    BY DEF IllegalDataAddress, NegativeAcknowledge, TargetFailedToRespond, Octet
  <2>4. frame = ExceptionToBuffer(id, unit, HoldingRegisters, code)
    BY <2>1, <2>2
  <2>5. /\ frame \in Seq(Octet) /\ frame # <<>>
        /\ \A n \in 0 .. Len(frame) : Whole(SubSeq(frame, 1, n)) <=> n = Len(frame)
        /\ FromBuffer(frame) =
              [tid |-> id, unit |-> unit, values |-> <<>>,
               exception |-> IF code \in ExceptionCodes THEN code ELSE UnknownException]
    BY <2>3, <2>4, ExceptionFrame
  <2>6. /\ Heard(answer) = IF code \in ExceptionCodes THEN code ELSE UnknownException
        /\ Heard(answer) # NoException
    BY <2>2 DEF Heard, NoException, UnknownException, ExceptionCodes, IllegalDataAddress,
                NegativeAcknowledge, TargetFailedToRespond
  <2>7. answer.values = <<>>
    BY <1>2 DEF Said
  <2> QED BY <1>2, <2>5, <2>6, <2>7
<1> QED BY <1>1, <1>2

(* Cuts of a frame.                                                          *)
LEMMA Split ==
    ASSUME NEW s \in Seq(Octet), NEW n \in 1 .. Len(s)
    PROVE  /\ SubSeq(s, 1, n) \in Seq(Octet) /\ Len(SubSeq(s, 1, n)) = n
           /\ SubSeq(s, n + 1, Len(s)) \in Seq(Octet)
           /\ Len(SubSeq(s, n + 1, Len(s))) = Len(s) - n
           /\ SubSeq(s, 1, n) \o SubSeq(s, n + 1, Len(s)) = s
<1>1. /\ n \in Nat /\ Len(s) \in Nat /\ n + 1 \in Nat
      /\ 1 \in 1 .. Len(s) + 1 /\ n \in 1 - 1 .. Len(s) /\ Len(s) \in n .. Len(s)
  OBVIOUS
<1>2. SubSeq(s, 1, n) \o SubSeq(s, n + 1, Len(s)) = SubSeq(s, 1, Len(s))
  BY <1>1, ConcatAdjacentSubSeq, Zenon
<1>3. SubSeq(s, 1, Len(s)) = s
  BY SubSeqFull, Zenon
<1>4. SubSeq(s, 1, n) \in Seq(Octet) /\ Len(SubSeq(s, 1, n)) = n
  BY <1>1
<1>5. SubSeq(s, n + 1, Len(s)) \in Seq(Octet) /\ Len(SubSeq(s, n + 1, Len(s))) = Len(s) - n
  BY <1>1
<1> QED BY <1>2, <1>3, <1>4, <1>5, Zenon

LEMMA Prefix ==
    ASSUME NEW s \in Seq(Octet), NEW t \in Seq(Octet), s # <<>>
    PROVE  SubSeq(s \o t, 1, Len(s)) = s
<1>1. 1 \in 1 .. Len(s) /\ Len(s) \in 1 .. Len(s)
  OBVIOUS
<1>2. SubSeq(s \o t, 1, Len(s)) = SubSeq(s, 1, Len(s))
  BY <1>1, SubSeqOfConcat1, Zenon
<1> QED BY <1>2, SubSeqFull, Zenon

LEMMA Associative ==
    \A s, t, u \in Seq(Octet) : (s \o t) \o u = s \o (t \o u)
OBVIOUS

(* The octets collected are the frame up to there, those left the rest of it. *)
LEMMA CutsOfFrame ==
    ASSUME NEW buffer \in Seq(Octet), NEW rest \in Seq(Octet), NEW n \in 1 .. Len(rest)
    PROVE  \E k \in 0 .. Len(buffer \o rest) :
              /\ buffer \o SubSeq(rest, 1, n) \in Seq(Octet)
              /\ SubSeq(rest, n + 1, Len(rest)) \in Seq(Octet)
              /\ buffer \o SubSeq(rest, 1, n) = SubSeq(buffer \o rest, 1, k)
              /\ (buffer \o SubSeq(rest, 1, n)) \o SubSeq(rest, n + 1, Len(rest)) = buffer \o rest
              /\ k = Len(buffer \o rest) <=> SubSeq(rest, n + 1, Len(rest)) = <<>>
<1>1. PICK first, left : first = SubSeq(rest, 1, n) /\ left = SubSeq(rest, n + 1, Len(rest))
  OBVIOUS
<1>2. /\ first \in Seq(Octet) /\ Len(first) = n
      /\ left \in Seq(Octet) /\ Len(left) = Len(rest) - n
      /\ first \o left = rest
  BY <1>1, Split, Zenon
<1>3. /\ buffer \o first \in Seq(Octet) /\ Len(buffer \o first) = Len(buffer) + n
      /\ buffer \o first # <<>>
      /\ Len(buffer \o rest) = Len(buffer) + Len(rest)
      /\ n \in Nat /\ Len(buffer) \in Nat /\ Len(rest) \in Nat /\ n <= Len(rest)
  <2>1. n \in Nat /\ n # 0 /\ Len(buffer) \in Nat /\ Len(rest) \in Nat /\ n <= Len(rest)
    OBVIOUS
  <2>2. PICK both : both = buffer \o first
    OBVIOUS
  <2>3. both \in Seq(Octet) /\ Len(both) = Len(buffer) + n
    <3>1. first \in Seq(Octet) /\ Len(first) = n
      BY <1>2, Zenon
    <3>2. buffer \o first \in Seq(Octet) /\ Len(buffer \o first) = Len(buffer) + Len(first)
      BY <3>1, Concatenated, Zenon
    <3> QED BY <2>2, <3>1, <3>2, Zenon
  <2>4. Len(both) # 0
    BY <2>1, <2>3
  <2>5. both # <<>>
    BY <2>3, <2>4, Empty, Zenon
  <2>6. Len(buffer \o rest) = Len(buffer) + Len(rest)
    OBVIOUS
  <2> QED BY <2>1, <2>2, <2>3, <2>5, <2>6, Zenon
<1>4. (buffer \o first) \o left = buffer \o rest
  <2>1. (buffer \o first) \o left = buffer \o (first \o left)
    <3>1. first \in Seq(Octet) /\ left \in Seq(Octet)
      BY <1>2, Zenon
    <3> QED BY <3>1, Associative, Zenon
  <2> QED BY <1>2, <2>1, Zenon
<1>5. buffer \o first = SubSeq(buffer \o rest, 1, Len(buffer \o first))
  <2> HIDE <1>1
  <2> QED BY <1>2, <1>3, <1>4, Prefix, Zenon
<1>6. /\ Len(buffer \o first) \in 0 .. Len(buffer \o rest)
      /\ Len(buffer \o first) = Len(buffer \o rest) <=> Len(left) = 0
  <2>1. PICK x, y, z : x = Len(buffer \o first) /\ y = Len(buffer \o rest) /\ z = Len(left)
    OBVIOUS
  <2>2. x = Len(buffer) + n /\ y = Len(buffer) + Len(rest) /\ z = Len(rest) - n
    BY <1>2, <1>3, <2>1, Zenon
  <2>3. x \in 0 .. y /\ (x = y <=> z = 0)
    BY <1>3, <2>2
  <2> QED BY <2>1, <2>3, Zenon
<1>7. left = <<>> <=> Len(left) = 0
  BY <1>2, Empty, Zenon
<1> QED BY <1>1, <1>2, <1>3, <1>4, <1>5, <1>6, <1>7, Zenon

-----------------------------------------------------------------------------
(* The handlers: each leaves the client waiting for one answer at most.      *)

LEMMA ReadWaits ==
    ASSUME NEW c \in Fields, c.pending = <<>>, c.unitId # 0,
           NEW address \in Word, NEW length \in Word, NEW data \in Word
    PROVE  Waits(Read(c, c.unitId, address, length, data))
<1> DEFINE q == [unit |-> c.unitId, address |-> address, length |-> length, user |-> data]
           d == Read(c, c.unitId, address, length, data)
<1>1. c.unitId \in Ids /\ c.unitId # 0
  BY DEF Fields
<1>2. q \in Calls
  BY <1>1 DEF Calls
<1>3. d = [c EXCEPT !.pending = Append(c.pending, q)]
  BY Zenon DEF Read
<1>4. Append(c.pending, q) = <<q>> /\ <<q>> \in Seq(Calls)
  <2> HIDE DEF q
  <2> QED BY <1>2
<1>5. d = [c EXCEPT !.pending = <<q>>]
  BY <1>3, <1>4, Zenon
<1>6. d \in Fields /\ d.unitId # 0 /\ d.pending = <<q>>
  <2> HIDE DEF q, d
  <2> QED BY <1>1, <1>4, <1>5 DEF Fields
<1> QED BY <1>2, <1>6, Zenon DEF Waits

LEMMA QuietWaits ==
    ASSUME NEW c \in Fields, c.pending = <<>>, c.unitId # 0
    PROVE  Waits(c)
BY Zenon DEF Waits

(* nextUnitId() and readHeader().                                            *)
LEMMA ProbeWaits ==
    ASSUME NEW c \in Fields, c.pending = <<>>, c.unitId # 0 \/ c.unitIdx = 0,
           NEW r, r = ProbeNextUnitId(c)
    PROVE  Waits(r.client) /\ r.event \in {"none", "close"}
<1>1. Len(UnitIds) \in Nat /\ Len(UnitIds) # 0 /\ c.unitIdx \in 0 .. Len(UnitIds)
  BY UnitIdsAssumption DEF Fields
<1>2. CASE c.unitIdx >= Len(UnitIds)
  <2>1. r = [client |-> c, event |-> "close"] /\ c.unitId # 0
    BY <1>1, <1>2 DEF ProbeNextUnitId, Publish
  <2> QED BY <2>1, QuietWaits
<1>3. CASE ~(c.unitIdx >= Len(UnitIds))
  <2> DEFINE next == UnitIds[c.unitIdx + 1]
             e == [c EXCEPT !.unitId = next, !.unitIdx = c.unitIdx + 1]
  <2>1. c.unitIdx + 1 \in DOMAIN UnitIds
    BY <1>1, <1>3, UnitIdsAssumption
  <2>2. next \in Ids /\ next # 0
    BY <2>1, IdsAreOctets DEF Ids
  <2>3. e \in Fields /\ e.pending = <<>> /\ e.unitId = next
    <3>1. PICK k \in 0 .. Len(UnitIds) : k = c.unitIdx + 1
      BY <1>1, <1>3
    <3>2. e = [c EXCEPT !.unitId = next, !.unitIdx = k]
      BY <3>1, Zenon
    <3> HIDE DEF next, e
    <3> QED BY <2>2, <3>2 DEF Fields
  <2>4. r = [client |-> Read(e, next, HeaderAddress, 4, ReadHeader), event |-> "none"]
    BY <1>3, Zenon DEF ProbeNextUnitId, Quiet
  <2> HIDE DEF e, next
  <2>5. 4 \in Word
    BY DEF Word
  <2>6. Waits(Read(e, e.unitId, HeaderAddress, 4, ReadHeader))
    BY <2>2, <2>3, <2>5, Numbers, ReadWaits
  <2> QED BY <2>3, <2>4, <2>6
<1> QED BY <1>2, <1>3

LEMMA EntryWaits ==
    ASSUME NEW c \in Fields, c.pending = <<>>, c.unitId # 0, NEW address \in Nat
    PROVE  Waits(ReadModelEntry(c, address))
<1>1. 2 \in Word
  BY DEF Word
<1>2. address % AddressMod \in Word
  BY Wrapped
<1> QED BY <1>1, <1>2, ReadWaits DEF ReadModelEntry

LEMMA BlockWaits ==
    ASSUME NEW c \in Fields, c.pending = <<>>, c.unitId # 0,
           NEW id \in Word, NEW address \in Word, NEW length \in Word
    PROVE  Waits(ReadBlock(c, id, address, length))
BY ReadWaits, QuietWaits DEF ReadBlock

LEMMA ModelWaits ==
    ASSUME NEW c \in Fields, c.pending = <<>>, c.unitId # 0,
           NEW id \in DOMAIN c.blockAddresses
    PROVE  Waits(ReadModel(c, id)) /\ id \in Word
<1>1. PICK S \in SUBSET Word : c.blockAddresses \in [S -> Word \X Word]
  BY DEF Fields, Directory
<1>2. /\ id \in Word /\ c.blockAddresses[id][1] \in Word
      /\ c.blockAddresses[id][2] \in Word
  BY <1>1
<1> QED BY <1>2, BlockWaits DEF ReadModel

LEMMA EntryAddedWaits ==
    ASSUME NEW c \in Fields, c.pending = <<>>, c.unitId # 0,
           NEW id \in Word, NEW address \in Nat, NEW length \in Word,
           NEW d, d = AddModelAddress(c, id, address, length)
    PROVE  d \in Fields /\ d.pending = <<>> /\ d.unitId # 0
<1> DEFINE place == <<address % AddressMod, ReadableLength(id, length)>>
           table == [i \in DOMAIN c.blockAddresses \cup {id} |->
                        IF i = id THEN place ELSE c.blockAddresses[i]]
<1>1. ReadableLength(id, length) \in Word
  BY LengthAssumption DEF ReadableLength, Word
<1>2. place \in Word \X Word
  BY <1>1, Wrapped
<1>3. c.blockAddresses \in Directory
  BY DEF Fields
<1>4. table \in Directory
  <2> HIDE DEF place
  <2> QED BY <1>2, <1>3, EntryAdded
<1>5. d = [c EXCEPT !.blockAddresses = table]
  BY Zenon DEF AddModelAddress
<1> HIDE DEF table
<1> QED BY <1>4, <1>5 DEF Fields

(* The dispatch of the ModbusResponse listener.                              *)
LEMMA ResponseWaits ==
    ASSUME NEW c \in Fields, c.pending = <<>>, c.unitId # 0,
           NEW response, response.user \in Word, response.unit \in Octet,
           response.size \in Nat, response.words[1] \in Word, response.words[2] \in Word,
           NEW r, r = OnResponse(c, response)
    PROVE  Waits(r.client) /\ r.event \in {"none", "close", "connect"}
<1>1. CASE response.user = ReadHeader
  <2> DEFINE headed == [c EXCEPT !.headerLength = response.words[2]]
  <2>1. headed \in Fields /\ headed.pending = <<>> /\ headed.unitId # 0
    BY DEF Fields
  <2>2. r = OnReadHeader(c, response)
    BY <1>1, Zenon DEF OnResponse
  <2> HIDE DEF headed
  <2>3. CASE response.size < 4
    <3>1. r = [client |-> c, event |-> "none"]
      BY <2>2, <2>3, Zenon DEF OnReadHeader, Quiet
    <3> QED BY <3>1, QuietWaits
  <2>4. CASE ~(response.size < 4) /\ ValidHeader(response)
    <3>1. r = [client |-> ReadBlock(headed, CommonModel, HeaderAddress + 4, response.words[2]),
               event |-> "none"]
      BY <2>2, <2>4, Zenon DEF OnReadHeader, Quiet, headed
    <3>2. Waits(ReadBlock(headed, CommonModel, HeaderAddress + 4, response.words[2]))
      BY <2>1, Numbers, BlockWaits
    <3> QED BY <3>1, <3>2
  <2>5. CASE ~(response.size < 4) /\ ~ValidHeader(response)
    <3>1. r = [client |-> headed, event |-> "close"]
      BY <2>2, <2>5, Zenon DEF OnReadHeader, Publish, headed
    <3> QED BY <2>1, <3>1, QuietWaits
  <2> QED BY <2>3, <2>4, <2>5
<1>2. CASE response.user # ReadHeader /\ response.size = 2
  <2> DEFINE id == response.words[1]
             length == response.words[2]
             d == AddModelAddress(c, id, response.user + 2, length)
  <2>1. r = OnReadModelEntry(c, response)
    BY <1>2, Zenon DEF OnResponse
  <2>2. CASE id = EndOfTable
    <3>1. r = [client |-> c, event |-> "connect"]
      BY <2>1, <2>2, Zenon DEF OnReadModelEntry, Publish
    <3> QED BY <3>1, QuietWaits
  <2>3. CASE id # EndOfTable
    <3>1. response.user + 2 \in Nat /\ response.user + 2 + length \in Nat
      BY DEF Word
    <3>2. r = [client |-> ReadModelEntry(d, response.user + 2 + length), event |-> "none"]
      BY <2>1, <2>3, Zenon DEF OnReadModelEntry, Quiet
    <3>3. d \in Fields /\ d.pending = <<>> /\ d.unitId # 0
      <4> HIDE <3>2
      <4> QED BY <3>1, EntryAddedWaits
    <3> HIDE DEF d
    <3>4. Waits(ReadModelEntry(d, response.user + 2 + length))
      BY <3>1, <3>3, EntryWaits
    <3> QED BY <3>2, <3>4
  <2> QED BY <2>2, <2>3
<1>3. CASE response.user # ReadHeader /\ response.size # 2
  <2> DEFINE e == IF response.size \in CommonLengths
                  THEN [c EXCEPT !.sunSpecId = response.unit] ELSE c
  <2>1. r = OnReadBlock(c, response)
    BY <1>3, Zenon DEF OnResponse
  <2>2. e \in Fields /\ e.pending = <<>> /\ e.unitId # 0
    BY DEF Fields
  <2>3. CASE response.user = CommonModel
    <3>1. HeaderAddress + 4 + c.headerLength \in Nat
      BY Numbers DEF Fields, Word
    <3>2. r = [client |-> ReadModelEntry(e, HeaderAddress + 4 + c.headerLength),
               event |-> "none"]
      BY <2>1, <2>3, Zenon DEF OnReadBlock, Quiet
    <3> HIDE DEF e
    <3>3. Waits(ReadModelEntry(e, HeaderAddress + 4 + c.headerLength))
      BY <2>2, <3>1, EntryWaits
    <3> QED BY <3>2, <3>3
  <2>4. CASE response.user # CommonModel
    <3>1. r = [client |-> c, event |-> "none"]
      BY <2>1, <2>4, Zenon DEF OnReadBlock, Quiet
    <3> QED BY <3>1, QuietWaits
  <2> QED BY <2>3, <2>4
<1> QED BY <1>1, <1>2, <1>3

-----------------------------------------------------------------------------
(* The steps.                                                                *)

LEMMA AbstractTyped ==
    ASSUME NEW message, message.values \in Seq(Word), message.unit \in Octet,
           NEW data \in Word, NEW response, response = Abstract(message, data)
    PROVE  /\ response.user \in Word /\ response.unit \in Octet /\ response.size \in Nat
           /\ response.words[1] \in Word /\ response.words[2] \in Word
<1>1. PICK values \in Seq(Word) : values = message.values
  OBVIOUS
<1>2. PICK words : words = CASE Len(values) = 2 -> values
                             [] Len(values) >= 4 -> SubSeq(values, 3, 4)
                             [] OTHER -> <<0, 0>>
  OBVIOUS
<1>3. /\ response.user = data /\ response.unit = message.unit
      /\ response.size = Len(values) /\ response.words = words
  BY <1>1, <1>2 DEF Abstract
<1>4. words[1] \in Word /\ words[2] \in Word
  <2>1. CASE Len(values) = 2
    <3>1. words = values
      BY <1>2, <2>1
    <3>2. 1 \in 1 .. Len(values) /\ 2 \in 1 .. Len(values)
      BY <2>1
    <3>3. values[1] \in Word /\ values[2] \in Word
      BY <3>2, ElementOfSeq, Zenon
    <3> HIDE <1>2
    <3> QED BY <3>1, <3>3
  <2>2. CASE Len(values) # 2 /\ Len(values) >= 4
    <3>1. words = SubSeq(values, 3, 4)
      BY <1>2, <2>2
    <3> QED BY <2>2, <3>1
  <2>3. CASE Len(values) # 2 /\ ~(Len(values) >= 4)
    <3>1. words = <<0, 0>>
      BY <1>2, <2>3
    <3>2. 0 \in Word
      BY Numbers
    <3> HIDE <1>2
    <3> QED BY <3>1, <3>2
  <2> QED BY <2>1, <2>2, <2>3
<1> QED BY <1>1, <1>3, <1>4

(* The request of a handler goes out on a wire that is idle.                 *)
LEMMA SentAsks ==
    ASSUME tid \in Word, request = <<>>, Waits(client'), Sent(client'),
           incoming' = <<>>, readBuffer' = <<>>
    PROVE  /\ tid' \in Word /\ request' \in Seq(Octet)
           /\ client'.pending = <<>> => Idle'
           /\ \A q \in Calls : client'.pending = <<q>> => Asked(q)'
<1>1. CASE client'.pending = <<>>
  <2>1. tid' = tid /\ request' = request
    BY <1>1, Zenon DEF Sent
  <2>2. \A q : <<q>> # <<>>
    OBVIOUS
  <2> QED BY <1>1, <2>1, <2>2 DEF Idle
<1>2. CASE client'.pending # <<>>
  <2>1. PICK q \in Calls : client'.pending = <<q>>
    BY <1>2, Zenon DEF Waits
  <2>2. Head(client'.pending) = q
    BY <2>1
  <2>3. /\ tid' = NextTransactionId(tid)
        /\ request' = RequestToBuffer(tid', q.unit, q.address, q.length)
    BY <1>2, <2>2, Zenon DEF Sent
  <2>4. tid' \in Word
    BY <2>3, NextIdTyped
  <2>6. request' \in Seq(Octet)
    BY <2>3, <2>4, CallIsUnderstood, Zenon
  <2>7. \A p \in Calls : client'.pending = <<p>> => p = q
    BY <2>1
  <2> QED BY <1>2, <2>3, <2>4, <2>6, <2>7, Zenon DEF Asked
<1> QED BY <1>1, <1>2

LEMMA NotAlone == \A q : <<q>> # <<>>
OBVIOUS

LEMMA NewClientTyped ==
    NewClient \in Fields /\ NewClient.pending = <<>> /\ NewClient.unitIdx = 0
<1>1. <<>> \in Directory /\ <<>> \in Seq(Calls)
  <2>1. <<>> \in [{} -> Word \X Word]
    OBVIOUS
  <2> QED BY <2>1 DEF Directory
<1>2. Len(UnitIds) \in Nat
  BY UnitIdsAssumption
<1> QED BY <1>1, <1>2, Numbers DEF NewClient, Fields

LEMMA InitFInv == Init => FInv
<1> SUFFICES ASSUME Init PROVE FInv
  OBVIOUS
<1>1. PICK r : r = ProbeNextUnitId(NewClient)
  OBVIOUS
<1>2. NewClient \in Fields /\ NewClient.pending = <<>> /\ NewClient.unitIdx = 0
  BY NewClientTyped
<1>3. Waits(r.client) /\ r.event \in {"none", "close"}
  BY <1>1, <1>2, ProbeWaits
<1>4. client = r.client /\ client.pending # <<>>
  <2>1. Len(UnitIds) \in Nat /\ Len(UnitIds) # 0
    BY UnitIdsAssumption
  <2>2. ~(NewClient.unitIdx >= Len(UnitIds))
    BY <1>2, <2>1
  <2> DEFINE id == UnitIds[NewClient.unitIdx + 1]
             e == [NewClient EXCEPT !.unitId = id, !.unitIdx = @ + 1]
             q == [unit |-> id, address |-> HeaderAddress, length |-> 4, user |-> ReadHeader]
  <2>3. r.client = Read(e, id, HeaderAddress, 4, ReadHeader)
    BY <1>1, <2>2 DEF ProbeNextUnitId, Quiet
  <2>4. e.pending = <<>> /\ e = [e EXCEPT !.pending = e.pending]
    BY DEF NewClient
  <2>5. r.client.pending = Append(<<>>, q)
    <3>1. r.client = [e EXCEPT !.pending = Append(e.pending, q)]
      BY <2>3, Zenon DEF Read
    <3>2. "pending" \in DOMAIN e
      BY DEF NewClient
    <3> HIDE DEF e, q
    <3> QED BY <2>4, <3>1, <3>2
  <2>6. Append(<<>>, q) # <<>>
    OBVIOUS
  <2> QED BY <1>1, <2>5, <2>6, Zenon DEF Init
<1>5. PICK q \in Calls : client.pending = <<q>>
  BY <1>3, <1>4, Zenon DEF Waits
<1>6. Head(client.pending) = q
  BY <1>5
<1>7. /\ tid = NextTransactionId(device.tid) /\ device \in Devices
      /\ request = RequestToBuffer(tid, q.unit, q.address, q.length)
      /\ incoming = <<>> /\ readBuffer = <<>>
      /\ handedOver = FALSE /\ heard = Nothing /\ awaiting = 0 /\ reads = 0
  BY <1>6, Zenon DEF Init
<1>8. tid \in Word
  BY <1>7, NextIdTyped, DevicesAssumption
<1>9. request \in Seq(Octet)
  BY <1>7, <1>8, CallIsUnderstood, Zenon
<1>10. Types
  <2>1. heard.kind = "none"
    BY <1>7 DEF Nothing
  <2>2. reads \in 0 .. MaxReads
    BY <1>7, ReadingBounds
  <2>3. incoming \in Seq(Octet) /\ readBuffer \in Seq(Octet)
    BY <1>7
  <2>4. handedOver \in BOOLEAN /\ awaiting \in Word
    BY <1>7, Numbers
  <2> QED BY <1>7, <1>8, <1>9, <2>1, <2>2, <2>3, <2>4 DEF Types
<1>11. Asked(q)
  BY <1>7, Zenon DEF Asked
<1>12. \A p \in Calls : client.pending = <<p>> => p = q
  BY <1>5
<1> QED BY <1>3, <1>4, <1>10, <1>11, <1>12, Zenon DEF FInv

(* The device answers the request with what it says.                         *)
LEMMA RegistersTyped ==
    ASSUME NEW frame \in Seq(Octet), AddressOf(frame) \in Word, LengthOf(frame) \in Word,
           NEW memory \in Seq(Word), NEW values, values = RegistersRead(frame, memory)
    PROVE  values \in Seq(Word) /\ Len(values) < 128
<1>1. PICK a, n : a = AddressOf(frame) /\ n = LengthOf(frame)
  OBVIOUS
<1>2. PICK first : first = a - HeaderAddress
  OBVIOUS
<1>3. first \in Int /\ n \in Word
  BY <1>1, <1>2, Numbers DEF Word
<1>4. CASE ~IsThere(memory, a, n)
  <2>1. values = <<>>
    BY <1>1, <1>4, Zenon DEF RegistersRead
  <2> QED BY <2>1
<1>5. CASE IsThere(memory, a, n)
  <2>1. values = RegistersAt(memory, a, n)
    BY <1>1, <1>5, Zenon DEF RegistersRead
  <2>2. values = SubSeq(memory, first + 1, first + n)
    BY <1>2, <2>1, Zenon DEF RegistersAt
  <2>3. first \in Nat /\ n \in Nat /\ first + n <= Len(memory) /\ n <= 125
    BY <1>1, <1>2, <1>3, <1>5, Numbers DEF Word, IsThere
  <2> HIDE <1>1, <1>2, <1>5, <2>1
  <2> QED BY <2>2, <2>3
<1> QED BY <1>4, <1>5

LEMMA FaultyIsSaid ==
    ASSUME NEW values \in Seq(Word), Len(values) < 128, NEW answer \in Faulty(values)
    PROVE  Said(answer)
<1>1. CASE answer = Says(<<>>, NegativeAcknowledge, "busy")
  BY <1>1 DEF Said, Says, NoException
<1>2. ASSUME NEW n \in {2, 47} \cap 1 .. Len(values) - 1, NEW fault,
             answer = Says(SubSeq(values, 1, n), NoException, fault)
      PROVE  Said(answer)
  <2>1. SubSeq(values, 1, n) \in Seq(Word) /\ Len(SubSeq(values, 1, n)) < 128
    OBVIOUS
  <2>2. answer.values = SubSeq(values, 1, n) /\ answer.exception = NoException
    BY <1>2 DEF Says
  <2> QED BY <2>1, <2>2 DEF Said
<1> QED BY <1>1, <1>2 DEF Faulty

LEMMA RegularIsSaid ==
    ASSUME NEW frame, NEW values \in Seq(Word), Len(values) < 128
    PROVE  Said(Regular(frame, values))
<1>1. CASE UnitOf(frame) # device.unit
  BY <1>1 DEF Regular, Said, Says, NoException, TargetFailedToRespond
<1>2. CASE UnitOf(frame) = device.unit /\ values = <<>>
  BY <1>2 DEF Regular, Said, Says, NoException, IllegalDataAddress
<1>3. CASE UnitOf(frame) = device.unit /\ values # <<>>
  BY <1>3 DEF Regular, Said, Says
<1> QED BY <1>1, <1>2, <1>3

LEMMA AnswerStep == ASSUME FInv, Answer PROVE FInv'
<1>1. PICK q \in Calls : client.pending = <<q>> /\ Asked(q)
  <2>1. request # <<>>
    BY DEF Answer
  <2>2. client.pending # <<>>
    BY <2>1 DEF FInv, Idle
  <2>3. PICK q \in Calls : client.pending = <<q>>
    BY <2>2, Zenon DEF FInv, Waits
  <2>4. Asked(q)
    BY <2>1, <2>3 DEF FInv, Answering
  <2> QED BY <2>3, <2>4
<1>2. /\ q.unit \in Octet /\ q.address \in Word /\ q.length \in Word
      /\ tid \in Word /\ device \in Devices /\ readBuffer = <<>>
  BY <1>1, IdsAreOctets DEF Calls, FInv, Types, Asked
<1>3. /\ request \in Seq(Octet) /\ WordAt(request, 1) = tid /\ UnitOf(request) = q.unit
      /\ request[8] = HoldingRegisters
      /\ AddressOf(request) = q.address /\ LengthOf(request) = q.length
  BY <1>1, <1>2, CallIsUnderstood, Zenon DEF Asked
<1>4. PICK time, values, answer :
         /\ time \in DOMAIN device.at
         /\ values = RegistersRead(request, device.at[time].memory)
         /\ answer = Regular(request, values) \/ answer \in Faulty(values)
         /\ said' = [answer |-> answer, time |-> time]
         /\ incoming' = ToFrame(request, answer)
  <2>1. 1 \in DOMAIN device.at
    BY <1>2, DevicesAssumption
  <2> QED BY <2>1, Zenon DEF Answer
<1>5. values \in Seq(Word) /\ Len(values) < 128
  <2>1. device.at[time].memory \in Seq(Word)
    BY <1>2, <1>4, DevicesAssumption
  <2> QED BY <1>2, <1>3, <1>4, <2>1, RegistersTyped
<1>6. Said(answer)
  BY <1>4, <1>5, FaultyIsSaid, RegularIsSaid
<1>7. incoming' = AnswerFrame(tid, q.unit, answer)
  BY <1>3, <1>4, Zenon DEF ToFrame, AnswerFrame
<1>8. incoming' \in Seq(Octet) /\ incoming' # <<>>
  BY <1>2, <1>6, <1>7, AnswerIsUnderstood
<1>9. /\ request' = <<>> /\ readBuffer' = <<>> /\ tid' = tid /\ client' = client
      /\ said'.answer = answer
      /\ device' = device /\ handedOver' = handedOver /\ heard' = heard
      /\ awaiting' = awaiting /\ reads' = reads
  BY <1>2, <1>4 DEF Answer, user
<1>10. readBuffer' \o incoming' = incoming'
  BY <1>8, <1>9, ConcatEmptySeq, Zenon
<1>11. Answering(q)'
  BY <1>6, <1>7, <1>8, <1>9, <1>10, Zenon DEF Answering
<1>12. Types'
  <2>1. request' \in Seq(Octet)
    BY <1>9
  <2> QED BY <1>8, <1>9, <2>1 DEF Types, FInv
<1>13. Waits(client)' /\ client'.pending = <<q>>
  BY <1>1, <1>9 DEF FInv
<1>14. \A p \in Calls : client'.pending = <<p>> => p = q
  BY <1>13
<1> QED BY <1>11, <1>12, <1>13, <1>14, NotAlone, Zenon DEF FInv

(* The client is given what the device said.                                 *)
LEMMA ExceptLands ==
    ASSUME NEW waiting \in Fields, waiting.pending = <<>>, waiting.unitId # 0,
           tid \in Word, request = <<>>, Types,
           incoming' = <<>>, readBuffer' = <<>>, Except(waiting)
    PROVE  /\ Waits(client')
           /\ Sent(client')
           /\ handedOver' \in BOOLEAN /\ awaiting' \in Word
           /\ heard'.kind \in {"none", "connect", "close", "exception", "model"}
<1>1. PICK result : /\ result = ProbeNextUnitId(waiting) \/ result = Publish(waiting, "exception")
                    /\ client' = result.client
                    /\ Sent(client')
                    /\ IF result.event = "none" THEN UNCHANGED <<heard, handedOver, awaiting>>
                       ELSE Hears(result.event, 0, <<>>)
  BY Zenon DEF Except
<1>2. Waits(result.client) /\ result.event \in {"none", "close", "exception"}
  <2>1. CASE result = ProbeNextUnitId(waiting)
    BY <2>1, ProbeWaits
  <2>2. CASE result = Publish(waiting, "exception")
    <3>1. result.client = waiting /\ result.event = "exception"
      BY <2>2 DEF Publish
    <3> QED BY <3>1, QuietWaits
  <2> QED BY <1>1, <2>1, <2>2
<1>3. CASE result.event = "none"
  BY <1>1, <1>2, <1>3 DEF Types
<1>4. CASE result.event # "none"
  <2>1. /\ heard' = Event(result.event, 0, <<>>)
        /\ handedOver' = (handedOver \/ result.event = "connect")
        /\ awaiting' \in {0, awaiting}
    BY <1>1, <1>4 DEF Hears
  <2>2. handedOver' \in BOOLEAN
    BY <2>1, Zenon DEF Types
  <2>3. heard'.kind = result.event
    BY <2>1 DEF Event
  <2> QED BY <1>1, <1>2, <2>1, <2>2, <2>3, Numbers DEF Types
<1> QED BY <1>3, <1>4

LEMMA RespondLands ==
    ASSUME NEW waiting \in Fields, waiting.pending = <<>>, waiting.unitId # 0,
           tid \in Word, request = <<>>, Types,
           NEW response, response.user \in Word, response.unit \in Octet,
           response.size \in Nat, response.words[1] \in Word, response.words[2] \in Word,
           NEW values, Respond(waiting, response, values)
    PROVE  /\ Waits(client')
           /\ Sent(client')
           /\ handedOver' \in BOOLEAN /\ awaiting' \in Word
           /\ heard'.kind \in {"none", "connect", "close", "exception", "model"}
<1>1. PICK result : result = OnResponse(waiting, response)
  OBVIOUS
<1>2. Waits(result.client) /\ result.event \in {"none", "close", "connect"}
  BY <1>1, ResponseWaits
<1>3. PICK event, id, found :
         /\ client' = result.client
         /\ Sent(client')
         /\ \/ UNCHANGED <<heard, handedOver, awaiting>>
            \/ Hears(event, id, found)
         /\ event = "model" \/ event = result.event
  BY <1>1, Zenon DEF Respond
<1>4. CASE UNCHANGED <<heard, handedOver, awaiting>>
  BY <1>2, <1>3, <1>4 DEF Types
<1>5. CASE Hears(event, id, found)
  <2>1. /\ heard' = Event(event, id, found)
        /\ handedOver' = (handedOver \/ event = "connect")
        /\ awaiting' \in {0, awaiting}
    BY <1>5 DEF Hears
  <2>2. handedOver' \in BOOLEAN
    BY <2>1, Zenon DEF Types
  <2>3. heard'.kind = event
    BY <2>1 DEF Event
  <2> QED BY <1>2, <1>3, <2>1, <2>2, <2>3, Numbers DEF Types
<1> QED BY <1>3, <1>4, <1>5

(* A message of what the device said, to the request that waits for it.      *)
LEMMA DeliverLands ==
    ASSUME FInv, NEW q \in Calls, client.pending = <<q>>, request = <<>>,
           incoming' = <<>>, readBuffer' = <<>>,
           NEW answer, Said(answer),
           NEW message, message = [tid |-> tid, unit |-> q.unit, values |-> answer.values,
                                   exception |-> Heard(answer)],
           Deliver(message)
    PROVE  /\ Waits(client')
           /\ Sent(client')
           /\ handedOver' \in BOOLEAN /\ awaiting' \in Word
           /\ heard'.kind \in {"none", "connect", "close", "exception", "model"}
<1> DEFINE waiting == [client EXCEPT !.pending = Tail(client.pending)]
<1>1. client \in Fields /\ client.unitId # 0 /\ Types /\ tid \in Word
  BY DEF FInv, Waits, Types
<1>2. Tail(client.pending) = <<>> /\ Head(client.pending) = q
  OBVIOUS
<1>3. waiting \in Fields /\ waiting.pending = <<>> /\ waiting.unitId # 0
  <2>1. waiting = [client EXCEPT !.pending = <<>>]
    BY <1>2, Zenon
  <2>2. <<>> \in Seq(Calls)
    OBVIOUS
  <2> HIDE <1>2 DEF waiting
  <2> QED BY <1>1, <2>1, <2>2 DEF Fields
<1>4. message.tid = tid /\ message.unit = q.unit /\ message.values = answer.values
  OBVIOUS
<1>5. IF message.exception # NoException THEN Except(waiting)
      ELSE Respond(waiting, Abstract(message, q.user), message.values)
  BY <1>2, <1>4, Zenon DEF Deliver
<1> HIDE DEF waiting
<1>6. CASE message.exception # NoException
  <2>1. Except(waiting)
    BY <1>5, <1>6, Zenon
  <2> QED BY <1>1, <1>3, <2>1, ExceptLands
<1>7. CASE message.exception = NoException
  <2>1. PICK response : response = Abstract(message, q.user)
    OBVIOUS
  <2>2. Respond(waiting, response, message.values)
    BY <1>5, <1>7, <2>1, Zenon
  <2>3. message.values \in Seq(Word) /\ message.unit \in Octet /\ q.user \in Word
    BY <1>4, IdsAreOctets DEF Said, Calls
  <2>4. /\ response.user \in Word /\ response.unit \in Octet /\ response.size \in Nat
        /\ response.words[1] \in Word /\ response.words[2] \in Word
    BY <2>1, <2>3, AbstractTyped, Zenon
  <2> QED BY <1>1, <1>3, <2>2, <2>4, RespondLands
<1> QED BY <1>6, <1>7

(* A data_event holds the rest of an answer, or leaves some of it to come.   *)
LEMMA CollectCases ==
    ASSUME FInv, NEW n \in 1 .. Len(incoming), Collect(n)
    PROVE  \E q \in Calls :
              /\ client.pending = <<q>> /\ Answering(q)
              /\ \/ /\ incoming' = <<>> /\ readBuffer' = <<>>
                    /\ \E message :
                          /\ message = [tid |-> tid, unit |-> q.unit, values |-> said.answer.values,
                                        exception |-> Heard(said.answer)]
                          /\ Deliver(message)
                 \/ /\ incoming' \in Seq(Octet) /\ incoming' # <<>> /\ readBuffer' \in Seq(Octet)
                    /\ readBuffer' \o incoming' = readBuffer \o incoming
                    /\ UNCHANGED <<client, models, tid, request, handedOver, heard, awaiting,
                                   measured, said, told, seen>>
<1>1. incoming \in Seq(Octet) /\ readBuffer \in Seq(Octet) /\ incoming # <<>>
  BY DEF FInv, Types
<1>2. PICK q \in Calls : client.pending = <<q>> /\ Answering(q)
  <2>1. client.pending # <<>>
    BY <1>1 DEF FInv, Idle
  <2>2. PICK q \in Calls : client.pending = <<q>>
    BY <2>1, Zenon DEF FInv, Waits
  <2>3. Answering(q)
    BY <1>1, <2>2 DEF FInv, Asked
  <2> QED BY <2>2, <2>3
<1>3. PICK frame, answer, collected, left :
         /\ frame = readBuffer \o incoming /\ answer = said.answer
         /\ collected = readBuffer \o SubSeq(incoming, 1, n)
         /\ left = SubSeq(incoming, n + 1, Len(incoming))
  OBVIOUS
<1>4. /\ request = <<>> /\ Said(answer) /\ frame = AnswerFrame(tid, q.unit, answer)
      /\ tid \in Word /\ q.unit \in Octet
  BY <1>2, <1>3, IdsAreOctets DEF Answering, FInv, Types, Calls
<1>5. /\ frame \in Seq(Octet)
      /\ \A k \in 0 .. Len(frame) : Whole(SubSeq(frame, 1, k)) <=> k = Len(frame)
      /\ FromBuffer(frame) = [tid |-> tid, unit |-> q.unit, values |-> answer.values,
                              exception |-> Heard(answer)]
  BY <1>4, AnswerIsUnderstood
<1>6. PICK k \in 0 .. Len(frame) :
         /\ collected \in Seq(Octet) /\ left \in Seq(Octet)
         /\ collected = SubSeq(frame, 1, k)
         /\ collected \o left = frame
         /\ k = Len(frame) <=> left = <<>>
  BY <1>1, <1>3, CutsOfFrame, Zenon
<1>7. Whole(collected) <=> left = <<>>
  BY <1>5, <1>6, Zenon
<1>8. incoming' = left
  BY <1>3, Zenon DEF Collect
<1>9. CASE left = <<>>
  <2>1. collected = frame
    BY <1>5, <1>6, <1>9, SubSeqFull, Zenon
  <2>2. readBuffer' = <<>> /\ Deliver(FromBuffer(frame))
    BY <1>3, <1>7, <1>9, <2>1, Zenon DEF Collect
  <2>3. FromBuffer(frame) = [tid |-> tid, unit |-> q.unit, values |-> said.answer.values,
                             exception |-> Heard(said.answer)]
    BY <1>3, <1>5, Zenon
  <2> QED BY <1>2, <1>8, <1>9, <2>2, <2>3, Zenon
<1>10. CASE left # <<>>
  <2>1. /\ readBuffer' = collected
        /\ UNCHANGED <<client, models, tid, request, handedOver, heard, awaiting,
                       measured, said, told, seen>>
    BY <1>3, <1>7, <1>10, Zenon DEF Collect
  <2> QED BY <1>2, <1>3, <1>6, <1>8, <1>10, <2>1, Zenon
<1> QED BY <1>9, <1>10

LEMMA CollectStep ==
    ASSUME FInv, NEW n \in 1 .. Len(incoming), Collect(n)
    PROVE  FInv'
<1>1. PICK q \in Calls :
         /\ client.pending = <<q>> /\ Answering(q)
         /\ \/ /\ incoming' = <<>> /\ readBuffer' = <<>>
               /\ \E message :
                     /\ message = [tid |-> tid, unit |-> q.unit, values |-> said.answer.values,
                                   exception |-> Heard(said.answer)]
                     /\ Deliver(message)
            \/ /\ incoming' \in Seq(Octet) /\ incoming' # <<>> /\ readBuffer' \in Seq(Octet)
               /\ readBuffer' \o incoming' = readBuffer \o incoming
               /\ UNCHANGED <<client, models, tid, request, handedOver, heard, awaiting,
                              measured, said, told, seen>>
  BY CollectCases
<1>2. device' = device /\ reads' = reads
  BY DEF Collect
<1>3. PICK answer : answer = said.answer
  OBVIOUS
<1>4. request = <<>> /\ Said(answer) /\ tid \in Word
  BY <1>1, <1>3 DEF Answering, FInv, Types
<1>5. CASE incoming' = <<>>
  <2>1. PICK message :
           /\ readBuffer' = <<>>
           /\ message = [tid |-> tid, unit |-> q.unit, values |-> answer.values,
                         exception |-> Heard(answer)]
           /\ Deliver(message)
    BY <1>1, <1>3, <1>5, Zenon
  <2>2. /\ Waits(client')
        /\ Sent(client')
        /\ handedOver' \in BOOLEAN /\ awaiting' \in Word
        /\ heard'.kind \in {"none", "connect", "close", "exception", "model"}
    <3> HIDE <1>3
    <3> QED BY <1>1, <1>4, <1>5, <2>1, DeliverLands
  <2>3. /\ tid' \in Word /\ request' \in Seq(Octet)
        /\ client'.pending = <<>> => Idle'
        /\ \A p \in Calls : client'.pending = <<p>> => Asked(p)'
    BY <1>4, <1>5, <2>1, <2>2, SentAsks, Zenon
  <2>4. incoming' \in Seq(Octet) /\ readBuffer' \in Seq(Octet)
    BY <1>5, <2>1
  <2>5. Types'
    BY <1>2, <2>2, <2>3, <2>4 DEF FInv, Types
  <2> QED BY <2>2, <2>3, <2>5, Zenon DEF FInv
<1>6. CASE incoming' # <<>>
  <2>1. /\ incoming' \in Seq(Octet) /\ readBuffer' \in Seq(Octet)
        /\ readBuffer' \o incoming' = readBuffer \o incoming
        /\ client' = client /\ tid' = tid /\ request' = request
        /\ handedOver' = handedOver /\ heard' = heard /\ awaiting' = awaiting
        /\ said' = said
    BY <1>1, <1>6
  <2>2. Answering(q)'
    BY <1>1, <1>6, <2>1, Zenon DEF Answering
  <2>3. Types'
    BY <1>2, <2>1 DEF FInv, Types
  <2>4. Waits(client)' /\ client'.pending = <<q>>
    BY <1>1, <2>1 DEF FInv
  <2>5. \A p \in Calls : client'.pending = <<p>> => p = q
    BY <2>4
  <2> QED BY <2>2, <2>3, <2>4, <2>5, NotAlone, Zenon DEF FInv
<1> QED BY <1>5, <1>6

LEMMA UserStep == ASSUME FInv, UserReadModel PROVE FInv'
<1>1. PICK id \in DOMAIN client.blockAddresses :
         client' = ReadModel(client, id) /\ awaiting' = id
  BY DEF UserReadModel
<1>2. /\ client.pending = <<>> /\ Sent(client') /\ reads < MaxReads /\ reads' = reads + 1
      /\ device' = device /\ incoming' = incoming /\ readBuffer' = readBuffer
      /\ handedOver' = handedOver /\ heard' = heard
  BY DEF UserReadModel
<1>3. client \in Fields /\ client.unitId # 0 /\ Idle /\ Types
  BY <1>2 DEF FInv, Waits
<1>4. Waits(client') /\ awaiting' \in Word
  BY <1>1, <1>2, <1>3, ModelWaits
<1>5. request = <<>> /\ incoming' = <<>> /\ readBuffer' = <<>>
  BY <1>2, <1>3 DEF Idle
<1>6. /\ tid' \in Word /\ request' \in Seq(Octet)
      /\ client'.pending = <<>> => Idle'
      /\ \A q \in Calls : client'.pending = <<q>> => Asked(q)'
  <2>1. tid \in Word
    BY <1>3 DEF Types
  <2> QED BY <1>2, <1>4, <1>5, <2>1, SentAsks, Zenon
<1>7. reads' \in 0 .. MaxReads
  BY <1>2, <1>3, ReadingBounds DEF Types
<1>8. Types'
  BY <1>2, <1>3, <1>4, <1>6, <1>7 DEF Types
<1> QED BY <1>4, <1>6, <1>8, Zenon DEF FInv

LEMMA NextFInv == FInv /\ [Next]_vars => FInv'
<1> SUFFICES ASSUME FInv, [Next]_vars PROVE FInv'
  OBVIOUS
<1>1. CASE Answer
  BY <1>1, AnswerStep
<1>2. CASE DataEvent
  <2>1. PICK n \in 1 .. Len(incoming) : Collect(n)
    BY <1>2 DEF DataEvent
  <2> QED BY <2>1, CollectStep
<1>3. CASE UserReadModel
  BY <1>3, UserStep
<1>4. CASE UNCHANGED vars
  BY <1>4, Zenon DEF vars, protocol, user, history, FInv, Types, Waits, Idle, Asked, Answering
<1> QED BY <1>1, <1>2, <1>3, <1>4 DEF Next

(* Every reachable state: one request at a time, on the wire, being answered, *)
(* or answered in part.                                                      *)
THEOREM OneRequest == Spec => []FInv
<1> QED BY InitFInv, NextFInv, PTL DEF Spec

LEMMA FInvTypes == FInv => TypeOK
<1> SUFFICES ASSUME FInv PROVE TypeOK
  OBVIOUS
<1>1. client.pending \in Seq([unit : Octet, address : Word, length : Word, user : Word])
  <2> DEFINE Wire == [unit : Octet, address : Word, length : Word, user : Word]
  <2>1. ASSUME NEW q \in Calls PROVE q \in Wire
    BY <2>1, IdsAreOctets DEF Calls
  <2>2. CASE client.pending = <<>>
    BY <2>2
  <2>3. ASSUME NEW q \in Calls, client.pending = <<q>> PROVE client.pending \in Seq(Wire)
    <3>1. q \in Wire
      BY <2>1
    <3> HIDE DEF Wire
    <3> QED BY <2>3, <3>1
  <2> QED BY <2>2, <2>3 DEF FInv, Waits
<1>2. \A id \in DOMAIN client.blockAddresses : client.blockAddresses[id] \in Word \X Word
  <2>1. PICK S \in SUBSET Word : client.blockAddresses \in [S -> Word \X Word]
    BY DEF FInv, Waits, Fields, Directory
  <2> QED BY <2>1
<1> QED BY <1>1, <1>2 DEF TypeOK, FInv, Types

LEMMA FInvFrames == FInv => FramesAreTrue
<1> SUFFICES ASSUME FInv PROVE FramesAreTrue
  OBVIOUS
<1>1. ASSUME request # <<>>
      PROVE  <<WordAt(request, 1), UnitOf(request), AddressOf(request), LengthOf(request)>>
                = <<tid, Head(client.pending).unit, Head(client.pending).address,
                    Head(client.pending).length>>
  <2>1. client.pending # <<>>
    BY <1>1 DEF FInv, Idle
  <2>2. PICK q \in Calls : client.pending = <<q>>
    BY <2>1, Zenon DEF FInv, Waits
  <2>3. Asked(q) /\ tid \in Word
    BY <1>1, <2>2 DEF FInv, Answering, Types
  <2>4. Head(client.pending) = q
    BY <2>2
  <2>5. /\ WordAt(request, 1) = tid /\ UnitOf(request) = q.unit
        /\ AddressOf(request) = q.address /\ LengthOf(request) = q.length
    BY <2>3, CallIsUnderstood, Zenon DEF Asked
  <2> QED BY <2>4, <2>5
<1>2. ASSUME incoming # <<>>, readBuffer = <<>>
      PROVE  /\ \A n \in 1 .. Len(incoming) - 1 : ~Whole(SubSeq(incoming, 1, n))
             /\ FromBuffer(incoming) =
                  [tid |-> tid, unit |-> Head(client.pending).unit,
                   values |-> said.answer.values, exception |-> Heard(said.answer)]
  <2>1. client.pending # <<>>
    BY <1>2 DEF FInv, Idle
  <2>2. PICK q \in Calls : client.pending = <<q>>
    BY <2>1, Zenon DEF FInv, Waits
  <2>3. Answering(q) /\ tid \in Word /\ incoming \in Seq(Octet)
    BY <1>2, <2>2 DEF FInv, Asked, Types
  <2>4. Head(client.pending) = q /\ q.unit \in Octet
    BY <2>2, IdsAreOctets DEF Calls
  <2>5. incoming = AnswerFrame(tid, q.unit, said.answer)
    BY <1>2, <2>3, ConcatEmptySeq, Zenon DEF Answering
  <2>6. PICK frame, answer : frame = incoming /\ answer = said.answer
    OBVIOUS
  <2>7. Said(answer) /\ frame = AnswerFrame(tid, q.unit, answer)
    BY <2>3, <2>5, <2>6, Zenon DEF Answering
  <2>8. /\ \A n \in 0 .. Len(frame) : Whole(SubSeq(frame, 1, n)) <=> n = Len(frame)
        /\ FromBuffer(frame) = [tid |-> tid, unit |-> q.unit, values |-> answer.values,
                                exception |-> Heard(answer)]
    BY <2>3, <2>4, <2>7, AnswerIsUnderstood
  <2>9. \A n \in 1 .. Len(frame) - 1 : n \in 0 .. Len(frame) /\ n # Len(frame)
    BY <2>3, <2>6
  <2> QED BY <2>4, <2>6, <2>8, <2>9, Zenon
<1> QED BY <1>1, <1>2, Zenon DEF FramesAreTrue, Heard

(* The fields, the frames and what the user heard have their types.          *)
THEOREM TypeCorrect == Spec => []TypeOK
<1> QED BY OneRequest, FInvTypes, PTL

(* The device reads in a frame what the client asked for, and the client     *)
(* understands what the device said, at the last octet and not before.       *)
THEOREM FramesCorrect == Spec => []FramesAreTrue
<1> QED BY OneRequest, FInvFrames, PTL

-----------------------------------------------------------------------------
(* Extremes: what the user keeps of each MPP holds all its readings.         *)

Readings == [current : Int, voltage : Int, power : Int]
Mpps == UNION {[1 .. n -> Readings] : n \in Nat}

(* Whatever model 160 was last accepted, its MPPs are numbers.               *)
Measures(all) ==
    Mppt \in DOMAIN all /\ "dc" \in DOMAIN all[Mppt] => all[Mppt].dc \in Mpps

KeptOf(cell, readings) ==
    /\ readings \in Seq(Int) /\ readings # <<>>
    /\ cell \in Cell /\ Holds(cell, Range(readings))
    /\ cell.dirty <=> \/ \A value \in Range(Front(readings)) : value < Last(readings)
                      \/ \A value \in Range(Front(readings)) : value > Last(readings)
Kept(block, readings) ==
    /\ DOMAIN block = Keys /\ DOMAIN readings = Keys
    /\ \A key \in Keys : KeptOf(block[key], readings[key])

EInv ==
    /\ Measures(models)
    /\ DOMAIN measured = DOMAIN seen
    /\ \A mpp \in DOMAIN measured : Kept(measured[mpp], seen[mpp])

LEMMA PowerTyped == ASSUME NEW n \in Nat PROVE 10 ^ n \in Int
OBVIOUS

LEMMA ScaledTyped == ASSUME NEW value \in Int, NEW factor \in Int PROVE Scaled(value, factor) \in Int
<1>1. CASE factor >= -2
  <2>1. factor + 2 \in Nat
    BY <1>1
  <2>2. 10 ^ (factor + 2) \in Int
    BY <2>1, PowerTyped
  <2>3. Scaled(value, factor) = value * 10 ^ (factor + 2)
    BY <1>1 DEF Scaled
  <2> QED BY <2>2, <2>3
<1>2. CASE factor \in -11 .. -3
  <2>1. ASSUME NEW v \in Int PROVE v \div 10 ^ (-2 - factor) \in Int
    <3>1. -2 - factor \in {1, 2, 3, 4, 5, 6, 7, 8, 9}
      BY <1>2
    <3>2. /\ v \div 10 ^ 1 \in Int /\ v \div 10 ^ 2 \in Int /\ v \div 10 ^ 3 \in Int
          /\ v \div 10 ^ 4 \in Int /\ v \div 10 ^ 5 \in Int /\ v \div 10 ^ 6 \in Int
          /\ v \div 10 ^ 7 \in Int /\ v \div 10 ^ 8 \in Int /\ v \div 10 ^ 9 \in Int
      OBVIOUS
    <3> QED BY <3>1, <3>2
  <2>2. ~(factor >= -2)
    BY <1>2
  <2>3. Scaled(value, factor) = IF value < 0 THEN -Hundredths(-value, factor)
                                ELSE Hundredths(value, factor)
    BY <1>2, <2>2 DEF Scaled
  <2> QED BY <2>1, <2>3 DEF Hundredths
<1>3. CASE factor < -11
  <2>1. Scaled(value, factor) = 0
    BY <1>3 DEF Scaled
  <2> QED BY <2>1
<1> QED BY <1>1, <1>2, <1>3

LEMMA DcTyped ==
    ASSUME NEW word \in Word, NEW exponent \in Word
    PROVE  DcValue(word, Int16(exponent)) \in Int
<1>1. PICK value, factor : value = (IF word = 65535 THEN 0 ELSE word) /\ factor = Int16(exponent)
  OBVIOUS
<1>2. value \in Int /\ factor \in Int
  BY <1>1 DEF Int16, Word
<1>3. Scaled(value, factor) \in Int
  BY <1>2, ScaledTyped
<1> QED BY <1>1, <1>3 DEF DcValue

(* The factory of model 160 and parseBlock().                                *)
LEMMA MpptTyped ==
    ASSUME NEW values, NEW buffer \in Seq(Word), Len(buffer) >= 8
    PROVE  MpptValues(values, buffer).dc \in Mpps
<1> DEFINE n == (Len(buffer) - 8) \div 20
           first(mpp) == 8 + 20 * (mpp - 1)
           reading(mpp) ==
               [current |-> DcValue(At(buffer, first(mpp) + 9), Signed(buffer, 0)),
                voltage |-> DcValue(At(buffer, first(mpp) + 10), Signed(buffer, 1)),
                power |-> DcValue(At(buffer, first(mpp) + 11), Signed(buffer, 2))]
<1>1. n \in Nat /\ 20 * n <= Len(buffer) - 8
  OBVIOUS
<1>2. MpptValues(values, buffer) = With(values, [dc |-> [mpp \in 1 .. n |-> reading(mpp)]])
  <2>1. ~(Len(buffer) < 8)
    OBVIOUS
  <2> QED BY <2>1, Zenon DEF MpptValues
<1>3. MpptValues(values, buffer).dc = [mpp \in 1 .. n |-> reading(mpp)]
  <2> HIDE DEF n, reading
  <2>1. PICK dc : dc = [mpp \in 1 .. n |-> reading(mpp)]
    OBVIOUS
  <2>2. MpptValues(values, buffer) = With(values, [dc |-> dc])
    BY <1>2, <2>1, Zenon
  <2>3. With(values, [dc |-> dc]).dc = dc
    BY DEF With
  <2> QED BY <2>1, <2>2, <2>3
<1>4. ASSUME NEW mpp \in 1 .. n
      PROVE  reading(mpp) \in Readings
  <2>1. \A i \in 0 .. Len(buffer) - 1 : At(buffer, i) \in Word
    BY DEF At
  <2>2. /\ first(mpp) + 9 \in 0 .. Len(buffer) - 1
        /\ first(mpp) + 10 \in 0 .. Len(buffer) - 1
        /\ first(mpp) + 11 \in 0 .. Len(buffer) - 1
        /\ 0 \in 0 .. Len(buffer) - 1 /\ 1 \in 0 .. Len(buffer) - 1
        /\ 2 \in 0 .. Len(buffer) - 1
    <3> HIDE DEF n
    <3> QED BY <1>1
  <2> HIDE DEF n, first
  <2>3. /\ DcValue(At(buffer, first(mpp) + 9), Signed(buffer, 0)) \in Int
        /\ DcValue(At(buffer, first(mpp) + 10), Signed(buffer, 1)) \in Int
        /\ DcValue(At(buffer, first(mpp) + 11), Signed(buffer, 2)) \in Int
    BY <2>1, <2>2, DcTyped DEF Signed
  <2> QED BY <2>3 DEF Readings
<1>5. [mpp \in 1 .. n |-> reading(mpp)] \in [1 .. n -> Readings]
  <2> HIDE DEF n, reading
  <2> QED BY <1>4
<1> HIDE DEF n, reading
<1> QED BY <1>1, <1>3, <1>5 DEF Mpps

LEMMA PutIs ==
    ASSUME NEW map, NEW key, NEW value, NEW after, after = Put(map, key, value)
    PROVE  /\ after[key] = value
           /\ \A k \in DOMAIN after \ {key} : k \in DOMAIN map /\ after[k] = map[k]
BY DEF Put, With

(* An Elgris meter's factory leaves the MPPs alone.                          *)
LEMMA ElgrisKeeps ==
    ASSUME NEW values, NEW buffer
    PROVE  LET after == ElgrisValues(values, buffer)
           IN  "dc" \in DOMAIN after => "dc" \in DOMAIN values /\ after.dc = values.dc
<1>1. CASE Len(buffer) # 105
  BY <1>1 DEF ElgrisValues
<1>2. CASE Len(buffer) = 105
  <2>1. PICK a, b, c : ElgrisValues(values, buffer) =
           With(values, [totalActiveAcPower |-> a, totalExportedActiveEnergy |-> b,
                         totalImportedActiveEnergy |-> c])
    BY <1>2 DEF ElgrisValues
  <2>2. PICK f : f = [totalActiveAcPower |-> a, totalExportedActiveEnergy |-> b,
                      totalImportedActiveEnergy |-> c]
    OBVIOUS
  <2>3. "dc" \notin DOMAIN f
    BY <2>2
  <2>4. ElgrisValues(values, buffer) = With(values, f)
    BY <2>1, <2>2, Zenon
  <2> HIDE <2>1, <2>2
  <2> QED BY <2>3, <2>4 DEF With
<1> QED BY <1>1, <1>2

LEMMA ParsedMeasures ==
    ASSUME NEW all, Measures(all), NEW id \in Word, NEW buffer \in Seq(Word)
    PROVE  Measures(ParseBlock(all, id, buffer))
<1>1. PICK after : after = ParseBlock(all, id, buffer)
  OBVIOUS
<1> SUFFICES Measures(after)
  BY <1>1
<1>2. Mppt # 1 /\ Mppt \notin Inverters /\ Mppt # WyeMeter
  BY DEF Mppt, Inverters, WyeMeter
<1>3. CASE id = 1
  <2>1. PICK common : after = Put(all, 1, common)
    BY <1>3, <1>1, Zenon DEF ParseBlock
  <2>2. Mppt \in DOMAIN after => Mppt \in DOMAIN all /\ after[Mppt] = all[Mppt]
    BY <1>2, <2>1, PutIs
  <2> QED BY <2>2, Zenon DEF Measures
<1>4. CASE id # 1 /\ ~IsPublished(id, buffer)
  BY <1>4, <1>1, Zenon DEF ParseBlock
<1>5. CASE id # 1 /\ IsPublished(id, buffer)
  <2>1. PICK new : new = FactoryOf(all, id, buffer)
    OBVIOUS
  <2>2. PICK common, rest : rest = Put(all, 1, common) /\ after = Put(rest, id, new)
    BY <1>5, <1>1, <2>1, Zenon DEF ParseBlock
  <2>3. CASE id # Mppt
    <3>1. Mppt \in DOMAIN rest => Mppt \in DOMAIN all /\ rest[Mppt] = all[Mppt]
      BY <1>2, <2>2, PutIs
    <3>2. Mppt \in DOMAIN after => Mppt \in DOMAIN rest /\ after[Mppt] = rest[Mppt]
      BY <2>2, <2>3, PutIs
    <3> QED BY <3>1, <3>2, Zenon DEF Measures
  <2>4. CASE id = Mppt
    <3>1. after[Mppt] = new
      BY <2>2, <2>4, PutIs
    <3>2. CASE IsElgris(all)
      <4>1. new = ElgrisValues(ValuesOf(all, Mppt), buffer)
        BY <2>1, <2>4, <3>2, Zenon DEF FactoryOf
      <4>2. "dc" \in DOMAIN new => "dc" \in DOMAIN ValuesOf(all, Mppt)
                                   /\ new.dc = ValuesOf(all, Mppt).dc
        BY <4>1, ElgrisKeeps, Zenon
      <4>3. "dc" \in DOMAIN ValuesOf(all, Mppt) =>
               Mppt \in DOMAIN all /\ ValuesOf(all, Mppt) = all[Mppt]
        BY DEF ValuesOf
      <4> QED BY <3>1, <4>2, <4>3, Zenon DEF Measures
    <3>3. CASE ~IsElgris(all)
      <4>1. new = MpptValues(ValuesOf(all, Mppt), buffer)
        BY <1>2, <2>1, <2>4, <3>3 DEF FactoryOf, FactoryOfModel
      <4>2. CASE Len(buffer) < 8
        <5>1. new = ValuesOf(all, Mppt)
          BY <4>1, <4>2 DEF MpptValues
        <5>2. "dc" \in DOMAIN ValuesOf(all, Mppt) =>
                 Mppt \in DOMAIN all /\ ValuesOf(all, Mppt) = all[Mppt]
          BY DEF ValuesOf
        <5> QED BY <3>1, <5>1, <5>2, Zenon DEF Measures
      <4>3. CASE Len(buffer) >= 8
        <5>1. new.dc \in Mpps
          BY <4>1, <4>3, MpptTyped
        <5> QED BY <3>1, <5>1, Zenon DEF Measures
      <4> QED BY <4>2, <4>3
    <3> QED BY <3>2, <3>3
  <2> QED BY <2>3, <2>4
<1> QED BY <1>3, <1>4, <1>5

(* One more reading.                                                         *)
LEMMA Appended ==
    ASSUME NEW readings \in Seq(Int), NEW value \in Int,
           NEW after, after = readings \o <<value>>
    PROVE  /\ after \in Seq(Int) /\ after # <<>>
           /\ Range(after) = Range(readings) \cup {value}
           /\ Last(after) = value /\ Front(after) = readings
<1>1. /\ after \in Seq(Int) /\ Len(after) = Len(readings) + 1 /\ Len(readings) \in Nat
      /\ \A i \in 1 .. Len(readings) : after[i] = readings[i]
      /\ after[Len(readings) + 1] = value
  OBVIOUS
<1>2. after # <<>>
  BY <1>1
<1>3. Range(after) = Range(readings) \cup {value}
  <2>1. DOMAIN after = 1 .. Len(readings) + 1 /\ DOMAIN readings = 1 .. Len(readings)
    BY <1>1
  <2>2. ASSUME NEW x \in Range(after) PROVE x \in Range(readings) \cup {value}
    <3>1. PICK i \in DOMAIN after : x = after[i]
      BY DEF Range
    <3>2. i = Len(readings) + 1 \/ i \in DOMAIN readings
      BY <1>1, <2>1
    <3> QED BY <1>1, <2>1, <3>1, <3>2 DEF Range
  <2>3. ASSUME NEW x \in Range(readings) PROVE x \in Range(after)
    <3>1. PICK i \in DOMAIN readings : x = readings[i]
      BY DEF Range
    <3>2. i \in DOMAIN after /\ after[i] = x
      BY <1>1, <2>1, <3>1
    <3> QED BY <3>2, Zenon DEF Range
  <2>4. value \in Range(after)
    <3>1. Len(readings) + 1 \in DOMAIN after
      BY <1>1, <2>1
    <3> QED BY <1>1, <3>1, Zenon DEF Range
  <2> QED BY <2>2, <2>3, <2>4
<1>4. Last(after) = value
  BY <1>1 DEF Last
<1>5. Front(after) = readings
  <2>1. PICK front : front = SubSeq(after, 1, Len(readings))
    OBVIOUS
  <2>2. /\ front \in Seq(Int) /\ Len(front) = Len(readings)
        /\ \A i \in 1 .. Len(readings) : front[i] = readings[i]
    BY <1>1, <2>1
  <2>3. front = readings
    <3>1. Len(front) = Len(readings) /\ \A i \in 1 .. Len(front) : front[i] = readings[i]
      BY <2>2
    <3> QED BY <2>2, <3>1, SeqEqual, Zenon
  <2>4. Len(after) - 1 = Len(readings)
    BY <1>1
  <2> QED BY <2>1, <2>3, <2>4, Zenon DEF Front
<1> QED BY <1>1, <1>2, <1>3, <1>4, <1>5, Zenon

(* The cell of one key after the next reading: of a key that is new, or kept. *)
LEMMA CellKept ==
    ASSUME NEW readings \in Seq(Int), NEW value \in Int,
           NEW cell \in Cell, Holds(cell, Range(readings))
    PROVE  KeptOf(Assign(cell, value), readings \o <<value>>)
<1>1. PICK after : after = readings \o <<value>>
  OBVIOUS
<1>2. /\ after \in Seq(Int) /\ after # <<>>
      /\ Range(after) = Range(readings) \cup {value}
      /\ Last(after) = value /\ Front(after) = readings
  BY <1>1, Appended
<1>3. PICK known : known = Range(readings)
  OBVIOUS
<1>4. known \in SUBSET Int
  BY <1>3 DEF Range
<1>5. /\ Assign(cell, value) \in Cell
      /\ Holds(Assign(cell, value), known \cup {value})
      /\ Assign(cell, value).dirty <=>
            \/ \A reading \in known : value < reading
            \/ \A reading \in known : value > reading
  BY <1>3, <1>4, AssignHolds
<1>6. /\ (\A reading \in known : value < reading) <=> (\A reading \in known : reading > value)
      /\ (\A reading \in known : value > reading) <=> (\A reading \in known : reading < value)
  BY <1>4
<1>7. PICK new : new = Assign(cell, value)
  OBVIOUS
<1>8. KeptOf(new, after)
  BY <1>2, <1>3, <1>5, <1>6, <1>7, Zenon DEF KeptOf
<1> QED BY <1>1, <1>7, <1>8

LEMMA EmptyRange == Range(<<>>) = {} /\ <<>> \in Seq(Int)
BY DEF Range

LEMMA BlockKept ==
    ASSUME NEW r \in Readings, NEW block, NEW readings,
           \/ Kept(block, readings)
           \/ block = <<>> /\ readings = [key \in Keys |-> <<>>]
    PROVE  Kept(AssignBlock(block, Converted(r)), [key \in Keys |-> readings[key] \o <<r[key]>>])
<1>1. PICK other : other = Converted(r)
  OBVIOUS
<1>2. PICK after : after = AssignBlock(block, other)
  OBVIOUS
<1>3. /\ DOMAIN r = Keys /\ DOMAIN other = Keys
      /\ \A key \in Keys : r[key] \in Int /\ other[key] = Assign(NewValue, r[key])
  <2>1. DOMAIN r = Keys /\ \A key \in Keys : r[key] \in Int
    BY DEF Readings, Keys
  <2> QED BY <1>1, <2>1 DEF Converted
<1>4. ASSUME NEW key \in Keys PROVE other[key].min = r[key]
  BY <1>3 DEF Assign, NewValue
<1>5. DOMAIN after = Keys
  <2>1. DOMAIN block \subseteq Keys
    BY DEF Kept
  <2>2. DOMAIN after = DOMAIN block \cup DOMAIN other
    BY <1>2 DEF AssignBlock
  <2> QED BY <1>3, <2>1, <2>2
<1>6. ASSUME NEW key \in Keys
      PROVE  KeptOf(after[key], readings[key] \o <<r[key]>>)
  <2>1. CASE Kept(block, readings)
    <3>1. /\ DOMAIN block = Keys /\ readings[key] \in Seq(Int) /\ block[key] \in Cell
          /\ Holds(block[key], Range(readings[key]))
      BY <2>1 DEF Kept, KeptOf
    <3>2. key \in DOMAIN block /\ key \in DOMAIN other /\ other[key].min = r[key]
      BY <1>3, <1>4, <3>1
    <3>3. after[key] = Assign(block[key], r[key])
      <4> HIDE <1>1
      <4> QED BY <1>2, <3>2, Zenon DEF AssignBlock, AssignOther
    <3> QED BY <1>3, <3>1, <3>3, CellKept
  <2>2. CASE block = <<>> /\ readings = [k \in Keys |-> <<>>]
    <3>1. key \notin DOMAIN block /\ readings[key] = <<>>
      BY <2>2
    <3>2. key \in DOMAIN other /\ other[key].min = r[key]
      BY <1>3, <1>4
    <3>3. after[key] = Assign(NewValue, r[key])
      <4> HIDE <1>1
      <4> QED BY <1>2, <3>1, <3>2, Zenon DEF AssignBlock, AssignOther
    <3>4. KeptOf(Assign(NewValue, r[key]), <<>> \o <<r[key]>>)
      BY <1>3, NewHoldsNothing, EmptyRange, CellKept
    <3> QED BY <3>1, <3>3, <3>4
  <2> QED BY <2>1, <2>2
<1>7. PICK all : all = [key \in Keys |-> readings[key] \o <<r[key]>>]
  OBVIOUS
<1>8. DOMAIN all = Keys /\ \A key \in Keys : all[key] = readings[key] \o <<r[key]>>
  BY <1>7
<1>9. Kept(after, all)
  BY <1>5, <1>6, <1>8, Zenon DEF Kept
<1> QED BY <1>1, <1>2, <1>7, <1>9

(* The user adds the readings of a model 160.                                *)
LEMMA AddedKept ==
    ASSUME EInv, NEW dc \in Mpps, Added(dc)
    PROVE  /\ DOMAIN measured' = DOMAIN seen'
           /\ \A mpp \in DOMAIN measured' : Kept(measured'[mpp], seen'[mpp])
<1>1. PICK n \in Nat : dc \in [1 .. n -> Readings]
  BY DEF Mpps
<1>2. /\ DOMAIN measured' = DOMAIN measured \cup DOMAIN dc
      /\ DOMAIN seen' = DOMAIN seen \cup DOMAIN dc
      /\ DOMAIN measured = DOMAIN seen
  BY DEF Added, EInv
<1>3. ASSUME NEW mpp \in DOMAIN measured'
      PROVE  Kept(measured'[mpp], seen'[mpp])
  <2>1. mpp \in DOMAIN measured \cup DOMAIN dc /\ mpp \in DOMAIN seen \cup DOMAIN dc
    BY <1>2
  <2>2. CASE mpp \notin DOMAIN dc
    <3>1. measured'[mpp] = measured[mpp] /\ seen'[mpp] = seen[mpp]
      BY <2>1, <2>2, Zenon DEF Added
    <3> QED BY <2>1, <2>2, <3>1, Zenon DEF EInv
  <2>3. CASE mpp \in DOMAIN dc
    <3>1. PICK r \in Readings : r = dc[mpp]
      BY <1>1, <2>3
    <3>2. CASE mpp \in DOMAIN measured
      <4>1. PICK block, readings : block = measured[mpp] /\ readings = seen[mpp]
        OBVIOUS
      <4>2. mpp \in DOMAIN seen
        BY <1>2, <3>2
      <4>3. /\ measured'[mpp] = AssignBlock(block, Converted(r))
            /\ seen'[mpp] = [key \in Keys |-> readings[key] \o <<r[key]>>]
        BY <2>1, <2>3, <3>1, <3>2, <4>1, <4>2, Zenon DEF Added
      <4>4. Kept(block, readings)
        BY <3>2, <4>1, Zenon DEF EInv
      <4>5. Kept(AssignBlock(block, Converted(r)), [key \in Keys |-> readings[key] \o <<r[key]>>])
        <5>1. \/ Kept(block, readings)
              \/ block = <<>> /\ readings = [key \in Keys |-> <<>>]
          BY <4>4
        <5> QED BY <5>1, BlockKept
      <4> QED BY <4>3, <4>5
    <3>3. CASE mpp \notin DOMAIN measured
      <4>1. PICK readings : readings = [key \in Keys |-> <<>>]
        OBVIOUS
      <4>2. mpp \notin DOMAIN seen
        BY <1>2, <3>3
      <4>3. measured'[mpp] = AssignBlock(<<>>, Converted(r))
        BY <2>1, <2>3, <3>1, <3>3, Zenon DEF Added
      <4>4. seen'[mpp] = [key \in Keys |-> readings[key] \o <<r[key]>>]
        <5>1. seen'[mpp] = [key \in Keys |-> <<>> \o <<r[key]>>]
          BY <2>1, <2>3, <3>1, <4>2, Zenon DEF Added
        <5>2. \A key \in Keys : readings[key] = <<>>
          BY <4>1
        <5> HIDE <4>1
        <5> QED BY <5>1, <5>2
      <4>5. Kept(AssignBlock(<<>>, Converted(r)), [key \in Keys |-> readings[key] \o <<r[key]>>])
        BY <4>1, BlockKept, Zenon
      <4> QED BY <4>3, <4>4, <4>5
    <3> QED BY <3>2, <3>3
  <2> QED BY <2>2, <2>3
<1> QED BY <1>2, <1>3

LEMMA RespondMeasures ==
    ASSUME EInv, NEW waiting, NEW response, response.user \in Word,
           NEW values \in Seq(Word), Respond(waiting, response, values)
    PROVE  EInv'
<1>1. PICK id : id = response.user
  OBVIOUS
<1>2. /\ models' = ParseBlock(models, id, values) \/ models' = models
      /\ \/ measured' = measured /\ seen' = seen
         \/ /\ id = Mppt /\ IsPublished(id, values)
            /\ models' = ParseBlock(models, id, values)
            /\ "dc" \in DOMAIN models'[id] /\ Added(models'[id].dc)
  BY <1>1 DEF Respond
<1>3. Measures(models')
  BY <1>1, <1>2, ParsedMeasures DEF EInv
<1>4. CASE measured' = measured /\ seen' = seen
  BY <1>3, <1>4, Zenon DEF EInv
<1>5. CASE /\ id = Mppt /\ IsPublished(id, values)
           /\ models' = ParseBlock(models, id, values)
           /\ "dc" \in DOMAIN models'[id] /\ Added(models'[id].dc)
  <2>1. Mppt \in DOMAIN models'
    BY <1>5 DEF ParseBlock, Put, With, Mppt
  <2>2. models'[Mppt].dc \in Mpps
    BY <1>3, <1>5, <2>1, Zenon DEF Measures
  <2>3. PICK dc \in Mpps : Added(dc)
    BY <1>5, <2>2
  <2>4. /\ DOMAIN measured' = DOMAIN seen'
        /\ \A mpp \in DOMAIN measured' : Kept(measured'[mpp], seen'[mpp])
    BY <2>3, AddedKept
  <2> QED BY <1>3, <2>4, Zenon DEF EInv
<1> QED BY <1>2, <1>4, <1>5

LEMMA NextEInv == FInv /\ EInv /\ [Next]_vars => EInv'
<1> SUFFICES ASSUME FInv, EInv, [Next]_vars PROVE EInv'
  OBVIOUS
<1>1. CASE UNCHANGED <<models, measured, seen>>
  BY <1>1, Zenon DEF EInv
<1>2. CASE Answer
  BY <1>1, <1>2, Zenon DEF Answer, user
<1>3. CASE UserReadModel
  BY <1>1, <1>3, Zenon DEF UserReadModel, history
<1>4. CASE UNCHANGED vars
  BY <1>1, <1>4, Zenon DEF vars, protocol, user, history
<1>5. CASE DataEvent
  <2>1. PICK n \in 1 .. Len(incoming) : Collect(n)
    BY <1>5 DEF DataEvent
  <2>2. PICK q \in Calls :
           /\ client.pending = <<q>> /\ Answering(q)
           /\ \/ UNCHANGED <<models, measured, seen>>
              \/ \E message :
                    /\ message = [tid |-> tid, unit |-> q.unit, values |-> said.answer.values,
                                  exception |-> Heard(said.answer)]
                    /\ Deliver(message)
    BY <2>1, CollectCases
  <2>3. CASE \E message :
                /\ message = [tid |-> tid, unit |-> q.unit, values |-> said.answer.values,
                              exception |-> Heard(said.answer)]
                /\ Deliver(message)
    <3>1. PICK message :
             /\ message = [tid |-> tid, unit |-> q.unit, values |-> said.answer.values,
                           exception |-> Heard(said.answer)]
             /\ Deliver(message)
      BY <2>3
    <3>2. message.tid = tid /\ message.values = said.answer.values
      BY <3>1
    <3>3. message.values \in Seq(Word) /\ Head(client.pending) = q /\ q.user \in Word
      BY <2>2, <3>2 DEF Answering, Said, Calls
    <3>4. PICK waiting : \/ Except(waiting)
                         \/ Respond(waiting, Abstract(message, q.user), message.values)
      BY <3>1, <3>2, <3>3, Zenon DEF Deliver
    <3>5. CASE Except(waiting)
      BY <1>1, <3>5, Zenon DEF Except
    <3>6. CASE Respond(waiting, Abstract(message, q.user), message.values)
      <4>1. PICK response : response = Abstract(message, q.user)
        OBVIOUS
      <4>2. response.user = q.user
        BY <4>1 DEF Abstract
      <4> QED BY <3>3, <3>6, <4>1, <4>2, RespondMeasures
    <3> QED BY <3>4, <3>5, <3>6
  <2> QED BY <1>1, <2>2, <2>3
<1> QED BY <1>2, <1>3, <1>4, <1>5 DEF Next

LEMMA InitEInv == Init => EInv
<1> SUFFICES ASSUME Init PROVE EInv
  OBVIOUS
<1>1. models = <<>> /\ measured = <<>> /\ seen = <<>>
  BY DEF Init
<1>2. DOMAIN models = {} /\ DOMAIN measured = {}
  BY <1>1
<1> QED BY <1>1, <1>2, Zenon DEF EInv, Measures

LEMMA LowestIsMin ==
    ASSUME NEW S \in SUBSET Int, NEW m \in S, \A x \in S : m <= x
    PROVE  Min(S) = m
<1>1. PICK k : k = Min(S)
  OBVIOUS
<1>2. k \in S /\ \A x \in S : k <= x
  BY <1>1 DEF Min
<1>3. k = m
  <2>1. k <= m /\ m <= k /\ k \in Int /\ m \in Int
    BY <1>2
  <2> QED BY <2>1
<1> QED BY <1>1, <1>3

LEMMA HighestIsMax ==
    ASSUME NEW S \in SUBSET Int, NEW m \in S, \A x \in S : m >= x
    PROVE  Max(S) = m
<1>1. PICK k : k = Max(S)
  OBVIOUS
<1>2. k \in S /\ \A x \in S : k >= x
  BY <1>1 DEF Max
<1>3. k = m
  <2>1. k >= m /\ m >= k /\ k \in Int /\ m \in Int
    BY <1>2
  <2> QED BY <2>1
<1> QED BY <1>1, <1>3

LEMMA KeptExtremes ==
    ASSUME NEW cell, NEW readings, KeptOf(cell, readings)
    PROVE  cell.min = Min(Range(readings)) /\ cell.max = Max(Range(readings))
<1>1. readings \in Seq(Int) /\ readings # <<>> /\ Holds(cell, Range(readings))
  BY DEF KeptOf
<1>2. PICK S : S = Range(readings)
  OBVIOUS
<1>3. S \in SUBSET Int
  BY <1>1, <1>2 DEF Range
<1>4. S # {}
  <2>1. 1 \in DOMAIN readings
    BY <1>1
  <2> QED BY <1>2, <2>1, Zenon DEF Range
<1>5. /\ cell.min \in S /\ cell.max \in S
      /\ \A x \in S : cell.min <= x /\ x <= cell.max
  BY <1>1, <1>2, <1>4, Zenon DEF Holds
<1>6. \A x \in S : cell.max >= x
  BY <1>3, <1>5
<1>7. Min(S) = cell.min /\ Max(S) = cell.max
  <2> HIDE <1>2
  <2> QED BY <1>3, <1>5, <1>6, LowestIsMin, HighestIsMax
<1> QED BY <1>2, <1>7

LEMMA EInvExtremes == EInv => Extremes /\ DirtyIsChange
<1> SUFFICES ASSUME EInv, NEW mpp \in DOMAIN measured, NEW key \in Keys
             PROVE  /\ measured[mpp][key].min = Min(Range(seen[mpp][key]))
                    /\ measured[mpp][key].max = Max(Range(seen[mpp][key]))
                    /\ measured[mpp][key].dirty <=>
                          \/ \A value \in Range(Front(seen[mpp][key])) : value < Last(seen[mpp][key])
                          \/ \A value \in Range(Front(seen[mpp][key])) : value > Last(seen[mpp][key])
  BY Zenon DEF Extremes, DirtyIsChange
<1>1. KeptOf(measured[mpp][key], seen[mpp][key])
  BY DEF EInv, Kept
<1> QED BY <1>1, KeptExtremes, Zenon DEF KeptOf

LEMMA ReadingsKept == Spec => [](FInv /\ EInv)
<1> QED BY InitFInv, InitEInv, NextFInv, NextEInv, PTL DEF Spec

(* The extremes kept of each MPP are those of all its readings.              *)
THEOREM ExtremesCorrect == Spec => []Extremes
<1> QED BY ReadingsKept, EInvExtremes, PTL

(* A measured value is dirty exactly when its last reading lies outside of    *)
(* all readings before it.                                                   *)
THEOREM DirtyCorrect == Spec => []DirtyIsChange
<1> QED BY ReadingsKept, EInvExtremes, PTL

-----------------------------------------------------------------------------
(* What a number and its scale factor stand for is what is computed of them.  *)
LEMMA Quotient ==
    ASSUME NEW n \in Nat, NEW p \in Nat, p > 0, NEW h \in Int, h * p <= n, n < (h + 1) * p
    PROVE  n \div p = h
OBVIOUS

LEMMA PowerIs == \A k \in 0 .. 10 : 10 ^ k \in Nat /\ 10 ^ k > 0 /\ 10 ^ (k + 1) = 10 * 10 ^ k
<1> SUFFICES ASSUME NEW k \in 0 .. 10
             PROVE  10 ^ k \in Nat /\ 10 ^ k > 0 /\ 10 ^ (k + 1) = 10 * 10 ^ k
  OBVIOUS
<1>0. CASE k = 0
  BY <1>0, SMT
<1>1. CASE k = 1
  BY <1>1, SMT
<1>2. CASE k = 2
  BY <1>2, SMT
<1>3. CASE k = 3
  BY <1>3, SMT
<1>4. CASE k = 4
  BY <1>4, SMT
<1>5. CASE k = 5
  BY <1>5, SMT
<1>6. CASE k = 6
  BY <1>6, SMT
<1>7. CASE k = 7
  BY <1>7, SMT
<1>8. CASE k = 8
  BY <1>8, SMT
<1>9. CASE k = 9
  BY <1>9, SMT
<1>10. CASE k = 10
  BY <1>10, SMT
<1> QED BY <1>0, <1>1, <1>2, <1>3, <1>4, <1>5, <1>6, <1>7, <1>8, <1>9, <1>10

LEMMA ScaledIs ==
    ASSUME NEW number \in Int, NEW factor \in Int, NEW value, IsScaled(number, factor, 2, value)
    PROVE  Scaled(number, factor) = value
<1>1. factor \in -10 .. 9 /\ value \in Int
  BY DEF IsScaled
<1>2. CASE factor >= -2
  <2>1. factor + 2 >= 0
    BY <1>1, <1>2
  <2>2. value = number * 10 ^ (factor + 2)
    BY <2>1, Zenon DEF IsScaled
  <2> QED BY <1>2, <2>2 DEF Scaled
<1>3. CASE ~(factor >= -2)
  <2>1. PICK k : k = -factor - 2
    OBVIOUS
  <2>2. k \in 1 .. 8 /\ k \in 0 .. 10 /\ -2 - factor = k /\ ~(factor + 2 >= 0) /\ factor + 2 < 0 /\ factor \in -11 .. -3
    BY <1>1, <1>3, <2>1
  <2>3. PICK p : p = 10 ^ k
    OBVIOUS
  <2>4. p \in Nat /\ p > 0
    BY <2>2, <2>3, PowerIs
  <2>5. IF number >= 0 THEN value * p <= number /\ number < (value + 1) * p
        ELSE (-value) * p <= -number /\ -number < (1 - value) * p
    BY <2>1, <2>2, <2>3, Zenon DEF IsScaled
  <2>6. Scaled(number, factor) = IF number < 0 THEN -((-number) \div p) ELSE number \div p
    BY <1>3, <2>2, <2>3 DEF Scaled, Hundredths
  <2> HIDE <2>1, <2>3
  <2>7. CASE number >= 0
    <3>1. number \div p = value
      BY <1>1, <2>4, <2>5, <2>7, Quotient
    <3> QED BY <2>6, <2>7, <3>1
  <2>8. CASE number < 0
    <3>1. -number \in Nat /\ -value \in Int /\ 1 - value = -value + 1
      BY <1>1, <2>8
    <3>2. (-value) * p <= -number /\ -number < (-value + 1) * p
      BY <2>5, <2>8, <3>1
    <3>3. (-number) \div p = -value
      BY <2>4, <3>1, <3>2, Quotient
    <3> QED BY <1>1, <2>6, <2>8, <3>3
  <2> QED BY <2>7, <2>8
<1> QED BY <1>2, <1>3

LEMMA ZeroScaled == ASSUME NEW factor \in Int PROVE Scaled(0, factor) = 0
<1>1. CASE factor >= -2
  <2>1. 10 ^ (factor + 2) \in Int
    BY <1>1, PowerTyped
  <2>2. Scaled(0, factor) = 0 * 10 ^ (factor + 2)
    BY <1>1 DEF Scaled
  <2> QED BY <2>1, <2>2
<1>2. CASE ~(factor >= -2) /\ factor \in -11 .. -3
  <2>1. PICK k \in 0 .. 10 : k = -2 - factor
    BY <1>2
  <2>2. Scaled(0, factor) = 0 \div 10 ^ k
    BY <1>2, <2>1 DEF Scaled, Hundredths
  <2>3. PICK p \in Nat : p = 10 ^ k /\ p > 0
    BY PowerIs
  <2>4. 0 \div p = 0
    BY <2>3
  <2> QED BY <2>2, <2>3, <2>4
<1>3. CASE factor < -11
  BY <1>3 DEF Scaled
<1> QED BY <1>1, <1>2, <1>3

(* Watts and watt hours.                                                     *)
LEMMA TruncatedIs == ASSUME NEW value \in Int PROVE IsTruncated(Truncated(value), value)
<1>1. CASE value < 0
  <2>1. Truncated(value) = -((-value) \div 100)
    BY <1>1 DEF Truncated
  <2> QED BY <1>1, <2>1 DEF IsTruncated
<1>2. CASE ~(value < 0)
  <2>1. Truncated(value) = value \div 100
    BY <1>2 DEF Truncated
  <2> QED BY <1>2, <2>1 DEF IsTruncated
<1> QED BY <1>1, <1>2

LEMMA RoundedIs == ASSUME NEW value \in Int PROVE IsRounded(RoundedToHundreds(value), value)
BY DEF IsRounded, RoundedToHundreds

LEMMA WholeIs ==
    ASSUME NEW number \in Nat, NEW factor \in Int, NEW value, IsScaled(number, factor, 0, value)
    PROVE  Truncated(Scaled(number, factor)) = value
<1>1. factor \in -10 .. 9 /\ value \in Int
  BY DEF IsScaled
<1>2. CASE factor >= 0
  <2>1. factor \in 0 .. 10 /\ factor + 1 \in 0 .. 10 /\ factor + 2 = (factor + 1) + 1
    BY <1>1, <1>2
  <2>2. PICK p \in Nat : p = 10 ^ factor
    BY <2>1, PowerIs
  <2>3. value = number * p
    <3>1. factor + 0 = factor
      BY <1>1
    <3> QED BY <1>2, <2>2, <3>1 DEF IsScaled
  <2>4. 10 ^ (factor + 2) = 100 * p
    <3>1. 10 ^ (factor + 1) = 10 * p
      BY <2>1, <2>2, PowerIs
    <3>2. 10 ^ ((factor + 1) + 1) = 10 * 10 ^ (factor + 1)
      BY <2>1, PowerIs
    <3> QED BY <2>1, <3>1, <3>2
  <2>5. Scaled(number, factor) = number * 10 ^ (factor + 2)
    BY <1>1, <1>2 DEF Scaled
  <2>6. Scaled(number, factor) = 100 * (number * p)
    BY <2>4, <2>5
  <2>7. PICK t \in Nat : t = number * p
    BY <2>2
  <2>8. Truncated(100 * t) = t
    BY <2>7 DEF Truncated
  <2> QED BY <2>3, <2>6, <2>7, <2>8
<1>3. CASE factor < 0
  <2>1. PICK k \in 0 .. 10 : k = -factor /\ k > 0
    BY <1>1, <1>3
  <2>2. PICK p \in Nat : p = 10 ^ k /\ p > 0
    BY PowerIs
  <2>3. value * p <= number /\ number < (value + 1) * p
    <3>1. -factor - 0 = k /\ factor + 0 < 0
      BY <1>1, <1>3, <2>1
    <3> QED BY <2>2, <3>1 DEF IsScaled
  <2>4. PICK s : s = Scaled(number, factor)
    OBVIOUS
  <2>5. s \in Nat /\ s \div 100 = value
    <3>1. CASE k = 1
      <4>0. 10 ^ 1 = 10
        BY SMT
      <4>1. p = 10
        BY <2>2, <3>1, <4>0
      <4>2. factor = -1 /\ factor + 2 = 1
        BY <2>1, <3>1
      <4>3. s = number * 10 ^ 1
        BY <2>4, <4>2 DEF Scaled
      <4>4. s = number * 10
        <5>1. 10 ^ 1 = 10
          BY SMT
        <5> QED BY <4>3, <5>1
      <4> HIDE <2>2, <2>4, <4>0, <4>3
      <4> QED BY <1>1, <2>3, <4>1, <4>4
    <3>2. CASE k = 2
      <4>0. 10 ^ 2 = 100
        BY SMT
      <4>1. p = 100
        BY <2>2, <3>2, <4>0
      <4>2. factor = -2 /\ factor + 2 = 0
        BY <2>1, <3>2
      <4>3. s = number * 10 ^ 0
        BY <2>4, <4>2 DEF Scaled
      <4>4. s = number
        <5>1. 10 ^ 0 = 1
          BY SMT
        <5> QED BY <4>3, <5>1
      <4> HIDE <2>2, <2>4, <4>0, <4>3
      <4> QED BY <1>1, <2>3, <4>1, <4>4
    <3>3. CASE k > 2
      <4>1. -2 - factor = k - 2 /\ k - 2 \in 0 .. 10 /\ k - 1 \in 0 .. 10
            /\ (k - 2) + 1 = k - 1 /\ (k - 1) + 1 = k
        BY <2>1, <3>3
      <4>2. PICK t \in Nat : t = 10 ^ (k - 2) /\ t > 0
        BY <4>1, PowerIs
      <4>3. p = 100 * t
        <5>1. 10 ^ (k - 1) = 10 * t
          BY <4>1, <4>2, PowerIs
        <5>2. 10 ^ k = 10 * 10 ^ (k - 1)
          BY <4>1, PowerIs
        <5> QED BY <2>2, <5>1, <5>2
      <4>4. s = number \div t
        BY <2>1, <2>4, <3>3, <4>1, <4>2 DEF Scaled, Hundredths
      <4>5. PICK u \in Int : u = number \div t
        BY <4>2
      <4>6. u * t <= number /\ number < (u + 1) * t
        BY <4>2, <4>5
      <4>7. (100 * value) * t <= number /\ number < (100 * value + 100) * t
        BY <1>1, <2>3, <4>2, <4>3
      <4>8. 100 * value < u + 1 /\ u < 100 * value + 100
        <5>1. (100 * value) * t < (u + 1) * t
          BY <1>1, <4>2, <4>6, <4>7
        <5>2. u * t < (100 * value + 100) * t
          BY <1>1, <4>2, <4>6, <4>7
        <5>3. \A x, y \in Int : x * t < y * t => x < y
          BY <4>2
        <5> QED BY <1>1, <5>1, <5>2, <5>3
      <4>9. u >= 0
        <5>1. CASE u < 0
          <6>1. (u + 1) * t <= 0
            BY <4>2, <5>1
          <6> QED BY <4>6, <6>1
        <5> QED BY <5>1
      <4>10. u \div 100 = value
        <5>1. u \in Nat /\ value * 100 <= u /\ u < (value + 1) * 100
          BY <1>1, <4>8, <4>9
        <5> QED BY <1>1, <5>1, Quotient
      <4> QED BY <4>4, <4>5, <4>9, <4>10
    <3> QED BY <2>1, <3>1, <3>2, <3>3
  <2>6. Truncated(s) = s \div 100
    BY <2>5 DEF Truncated
  <2> QED BY <2>4, <2>5, <2>6
<1> QED BY <1>1, <1>2, <1>3

LEMMA NegatedIs ==
    ASSUME NEW word \in Word, -Int16(word) \in -10 .. 10
    PROVE  Negated(word) = -Int16(word)
BY DEF Word, Int16, Negated

-----------------------------------------------------------------------------
(* Blocks: what a factory makes of a block is what the block stands for.     *)

LEMMA WithIs ==
    ASSUME NEW values, NEW assigned, DOMAIN values \subseteq DOMAIN assigned,
           NEW after, after = With(values, assigned)
    PROVE  DOMAIN after = DOMAIN assigned /\ \A key \in DOMAIN assigned : after[key] = assigned[key]
BY DEF With

LEMMA Int16Typed == ASSUME NEW word \in Word PROVE Int16(word) \in Int
BY DEF Word, Int16

LEMMA AtTyped ==
    ASSUME NEW buffer \in Seq(Word)
    PROVE  \A i \in 0 .. Len(buffer) - 1 : At(buffer, i) \in Word
BY DEF At

LEMMA ScaledTo == ASSUME NEW number, NEW factor, NEW digits, NEW value,
                         IsScaled(number, factor, digits, value)
                  PROVE  value \in Int
BY DEF IsScaled

LEMMA LongTyped == ASSUME NEW high \in Word, NEW low \in Word PROVE Long(high, low) \in Nat
BY DEF Word, Long

(* Models 101 and 103.                                                       *)
LEMMA InverterIs ==
    ASSUME NEW buffer \in Seq(Word), Len(buffer) = 50, NEW says, InverterSays(buffer, says),
           NEW old, DOMAIN old \subseteq InverterKeys,
           NEW new, new = InverterValues(old, buffer)
    PROVE  IsReading(new, says)
<1>1. /\ At(buffer, 12) \in Word /\ At(buffer, 13) \in Word /\ At(buffer, 22) \in Word
      /\ At(buffer, 23) \in Word /\ At(buffer, 24) \in Word
  <2>1. \A i \in 0 .. Len(buffer) - 1 : At(buffer, i) \in Word
    BY AtTyped
  <2>2. /\ 12 \in 0 .. Len(buffer) - 1 /\ 13 \in 0 .. Len(buffer) - 1 /\ 22 \in 0 .. Len(buffer) - 1
        /\ 23 \in 0 .. Len(buffer) - 1 /\ 24 \in 0 .. Len(buffer) - 1
    OBVIOUS
  <2> QED BY <2>1, <2>2, Zenon
<1>2. /\ Signed(buffer, 12) \in Int /\ Signed(buffer, 13) \in Int /\ Signed(buffer, 24) \in Int
      /\ Long(At(buffer, 22), At(buffer, 23)) \in Nat
  BY <1>1, Int16Typed, LongTyped DEF Signed
<1>3. PICK number, factor, energy, scale :
         /\ number = Signed(buffer, 12) /\ factor = Signed(buffer, 13)
         /\ energy = Long(At(buffer, 22), At(buffer, 23)) /\ scale = Signed(buffer, 24)
         /\ number \in Int /\ factor \in Int /\ energy \in Nat /\ scale \in Int
  BY <1>2
<1>4. PICK power, exported :
         /\ power = Truncated(Scaled(NotNegative(number), factor))
         /\ exported = RoundedToHundreds(Truncated(Scaled(energy, scale)))
  OBVIOUS
<1>5. IsTruncated(power, says.totalActiveAcPower)
  <2>1. CASE number < 0
    <3>1. Scaled(NotNegative(number), factor) = 0 /\ says.totalActiveAcPower = 0
      BY <1>3, <2>1, ZeroScaled DEF NotNegative, InverterSays
    <3> QED BY <1>4, <3>1, TruncatedIs
  <2>2. CASE ~(number < 0)
    <3>1. IsScaled(number, factor, 2, says.totalActiveAcPower) /\ NotNegative(number) = number
      BY <1>3, <2>2, Zenon DEF NotNegative, InverterSays
    <3>2. Scaled(number, factor) = says.totalActiveAcPower /\ says.totalActiveAcPower \in Int
      BY <1>3, <3>1, ScaledIs, ScaledTo
    <3> QED BY <1>4, <3>1, <3>2, TruncatedIs
  <2> QED BY <2>1, <2>2
<1>6. IsRounded(exported, says.totalExportedActiveEnergy)
  <2>1. IsScaled(energy, scale, 0, says.totalExportedActiveEnergy)
    BY <1>3, Zenon DEF InverterSays
  <2>2. /\ Truncated(Scaled(energy, scale)) = says.totalExportedActiveEnergy
        /\ says.totalExportedActiveEnergy \in Int
    BY <1>3, <2>1, WholeIs, ScaledTo
  <2> QED BY <1>4, <2>2, RoundedIs
<1>7. PICK assigned : assigned = [totalActiveAcPower |-> power, totalExportedActiveEnergy |-> exported,
                                  operatingStatus |-> At(buffer, 36), events |-> At(buffer, 38)]
  OBVIOUS
<1>8. new = With(old, assigned)
  BY <1>3, <1>4, <1>7, Zenon DEF InverterValues
<1>9. DOMAIN assigned = InverterKeys
  BY <1>7 DEF InverterKeys
<1>10. DOMAIN new = InverterKeys /\ \A key \in InverterKeys : new[key] = assigned[key]
  BY <1>8, <1>9, WithIs
<1>11. /\ DOMAIN says = InverterKeys
       /\ says.operatingStatus = At(buffer, 36) /\ says.events = At(buffer, 38)
  BY DEF InverterSays
<1>12. /\ new.totalActiveAcPower = power /\ new.totalExportedActiveEnergy = exported
       /\ new.operatingStatus = says.operatingStatus /\ new.events = says.events
  BY <1>7, <1>10, <1>11 DEF InverterKeys
<1> HIDE <1>7, <1>8
<1> QED BY <1>5, <1>6, <1>10, <1>11, <1>12 DEF IsReading, InverterKeys

(* Model 203.                                                                *)
LEMMA MeterKeysAre ==
    ASSUME NEW old, DOMAIN old \subseteq MeterKeys, NEW power, NEW exported, NEW imported, NEW says,
           DOMAIN says = MeterKeys,
           IsTruncated(power, says.totalActiveAcPower),
           IsRounded(exported, says.totalExportedActiveEnergy),
           IsRounded(imported, says.totalImportedActiveEnergy),
           NEW new, new = With(old, [totalActiveAcPower |-> power,
                                     totalExportedActiveEnergy |-> exported,
                                     totalImportedActiveEnergy |-> imported])
    PROVE  IsReading(new, says)
<1>1. PICK assigned : assigned = [totalActiveAcPower |-> power, totalExportedActiveEnergy |-> exported,
                                  totalImportedActiveEnergy |-> imported]
  OBVIOUS
<1>2. DOMAIN assigned = MeterKeys
  BY <1>1 DEF MeterKeys
<1>3. DOMAIN new = MeterKeys /\ \A key \in MeterKeys : new[key] = assigned[key]
  BY <1>1, <1>2, WithIs
<1>4. /\ new.totalActiveAcPower = power /\ new.totalExportedActiveEnergy = exported
      /\ new.totalImportedActiveEnergy = imported
  BY <1>1, <1>3 DEF MeterKeys
<1> QED BY <1>3, <1>4 DEF IsReading, MeterKeys

LEMMA MeterIs ==
    ASSUME NEW buffer \in Seq(Word), Len(buffer) = 105, NEW says, MeterSays(buffer, says),
           NEW old, DOMAIN old \subseteq MeterKeys,
           NEW new, new = MeterValues(old, buffer)
    PROVE  IsReading(new, says)
<1>1. /\ At(buffer, 16) \in Word /\ At(buffer, 20) \in Word /\ At(buffer, 36) \in Word
      /\ At(buffer, 37) \in Word /\ At(buffer, 44) \in Word /\ At(buffer, 45) \in Word
  <2>1. \A i \in 0 .. Len(buffer) - 1 : At(buffer, i) \in Word
    BY AtTyped
  <2>2. /\ 16 \in 0 .. Len(buffer) - 1 /\ 20 \in 0 .. Len(buffer) - 1 /\ 36 \in 0 .. Len(buffer) - 1
        /\ 37 \in 0 .. Len(buffer) - 1 /\ 44 \in 0 .. Len(buffer) - 1 /\ 45 \in 0 .. Len(buffer) - 1
    OBVIOUS
  <2> QED BY <2>1, <2>2
<1>2. PICK number, factor, exported, imported :
         /\ number = Signed(buffer, 16) /\ factor = Signed(buffer, 20)
         /\ exported = Long(At(buffer, 36), At(buffer, 37))
         /\ imported = Long(At(buffer, 44), At(buffer, 45))
  OBVIOUS
<1>3. number \in Int /\ factor \in Int /\ exported \in Nat /\ imported \in Nat
  BY <1>1, <1>2, Int16Typed, LongTyped DEF Signed
<1>4. /\ DOMAIN says = MeterKeys /\ IsScaled(number, factor, 2, says.totalActiveAcPower)
      /\ says.totalExportedActiveEnergy = exported /\ says.totalImportedActiveEnergy = imported
  BY <1>2, Zenon DEF MeterSays
<1>5. Scaled(number, factor) = says.totalActiveAcPower /\ says.totalActiveAcPower \in Int
  <2>1. IsScaled(number, factor, 2, says.totalActiveAcPower)
    BY <1>4, Zenon
  <2> QED BY <1>3, <2>1, ScaledIs, ScaledTo
<1>6. new = With(old, [totalActiveAcPower |-> Truncated(Scaled(number, factor)),
                       totalExportedActiveEnergy |-> RoundedToHundreds(exported),
                       totalImportedActiveEnergy |-> RoundedToHundreds(imported)])
  BY <1>2, Zenon DEF MeterValues
<1>7. /\ IsTruncated(Truncated(Scaled(number, factor)), says.totalActiveAcPower)
      /\ IsRounded(RoundedToHundreds(exported), says.totalExportedActiveEnergy)
      /\ IsRounded(RoundedToHundreds(imported), says.totalImportedActiveEnergy)
  BY <1>3, <1>4, <1>5, TruncatedIs, RoundedIs
<1> QED BY <1>4, <1>6, <1>7, MeterKeysAre

LEMMA ElgrisIs ==
    ASSUME NEW buffer \in Seq(Word), Len(buffer) = 105, NEW says, ElgrisSays(buffer, says),
           NEW old, DOMAIN old \subseteq MeterKeys,
           NEW new, new = ElgrisValues(old, buffer)
    PROVE  IsReading(new, says)
<1>1. /\ At(buffer, 16) \in Word /\ At(buffer, 20) \in Word /\ At(buffer, 36) \in Word
      /\ At(buffer, 37) \in Word /\ At(buffer, 44) \in Word /\ At(buffer, 45) \in Word
  <2>1. \A i \in 0 .. Len(buffer) - 1 : At(buffer, i) \in Word
    BY AtTyped
  <2>2. /\ 16 \in 0 .. Len(buffer) - 1 /\ 20 \in 0 .. Len(buffer) - 1 /\ 36 \in 0 .. Len(buffer) - 1
        /\ 37 \in 0 .. Len(buffer) - 1 /\ 44 \in 0 .. Len(buffer) - 1 /\ 45 \in 0 .. Len(buffer) - 1
    OBVIOUS
  <2> QED BY <2>1, <2>2
<1>2. PICK number, factor, exported, imported :
         /\ number = Signed(buffer, 16) /\ factor = Negated(At(buffer, 20))
         /\ exported = Long(At(buffer, 37), At(buffer, 36))
         /\ imported = Long(At(buffer, 45), At(buffer, 44))
  OBVIOUS
<1>3. number \in Int /\ exported \in Nat /\ imported \in Nat /\ At(buffer, 20) \in Word
  BY <1>1, <1>2, Int16Typed, LongTyped DEF Signed
<1>4. /\ DOMAIN says = MeterKeys
      /\ IsScaled(number, -Int16(At(buffer, 20)), 2, says.totalActiveAcPower)
      /\ says.totalExportedActiveEnergy = exported /\ says.totalImportedActiveEnergy = imported
  BY <1>2, Zenon DEF ElgrisSays, Signed
<1>5. factor = -Int16(At(buffer, 20)) /\ factor \in Int
  <2>1. -Int16(At(buffer, 20)) \in -10 .. 10
    BY <1>4 DEF IsScaled
  <2> QED BY <1>2, <1>3, <2>1, NegatedIs, Int16Typed
<1>6. Scaled(number, factor) = says.totalActiveAcPower /\ says.totalActiveAcPower \in Int
  <2>1. IsScaled(number, factor, 2, says.totalActiveAcPower)
    BY <1>4, <1>5, Zenon
  <2> QED BY <1>3, <2>1, <1>5, ScaledIs, ScaledTo
<1>7. new = With(old, [totalActiveAcPower |-> Truncated(Scaled(number, factor)),
                       totalExportedActiveEnergy |-> RoundedToHundreds(exported),
                       totalImportedActiveEnergy |-> RoundedToHundreds(imported)])
  BY <1>2, Zenon DEF ElgrisValues
<1>8. /\ IsTruncated(Truncated(Scaled(number, factor)), says.totalActiveAcPower)
      /\ IsRounded(RoundedToHundreds(exported), says.totalExportedActiveEnergy)
      /\ IsRounded(RoundedToHundreds(imported), says.totalImportedActiveEnergy)
  BY <1>3, <1>4, <1>6, TruncatedIs, RoundedIs
<1> QED BY <1>4, <1>7, <1>8, MeterKeysAre

(* Model 160: of the MPPs a block holds, those that were read in full.       *)
LEMMA DcIs ==
    ASSUME NEW word \in Word, NEW exponent \in Word, NEW value, DcSays(word, Int16(exponent), value)
    PROVE  DcValue(word, Int16(exponent)) = value
<1>1. PICK number, factor : number = (IF word = 65535 THEN 0 ELSE word) /\ factor = Int16(exponent)
  OBVIOUS
<1>2. number \in Int /\ factor \in Int
  BY <1>1, Int16Typed DEF Word
<1>3. IsScaled(number, factor, 2, value)
  BY <1>1, SMT DEF DcSays
<1>4. Scaled(number, factor) = value
  BY <1>2, <1>3, ScaledIs
<1> QED BY <1>1, <1>4, SMT DEF DcValue

LEMMA MpptIs ==
    ASSUME NEW whole \in Seq(Word), Len(whole) >= 8, NEW says, MpptSays(whole, says),
           NEW values \in Seq(Word), Len(values) >= 8, Len(values) <= Len(whole),
           \A i \in 0 .. Len(values) - 1 : At(values, i) = At(whole, i),
           NEW old, DOMAIN old \subseteq {"dc"},
           NEW new, new = MpptValues(old, values)
    PROVE  IsReading(new, [dc |-> SubSeq(says.dc, 1, (Len(values) - 8) \div 20)])
<1> DEFINE n == (Len(values) - 8) \div 20
           first(mpp) == 8 + 20 * (mpp - 1)
           reading(mpp) ==
               [current |-> DcValue(At(values, first(mpp) + 9), Signed(values, 0)),
                voltage |-> DcValue(At(values, first(mpp) + 10), Signed(values, 1)),
                power |-> DcValue(At(values, first(mpp) + 11), Signed(values, 2))]
           Reading == [current : Int, voltage : Int, power : Int]
<1>1. n \in Nat /\ 20 * n <= Len(values) - 8 /\ n <= (Len(whole) - 8) \div 20
  OBVIOUS
<1>2. PICK dc, said_dc : dc = [mpp \in 1 .. n |-> reading(mpp)] /\ said_dc = says.dc
  OBVIOUS
<1>3. new = With(old, [dc |-> dc])
  <2>1. ~(Len(values) < 8)
    OBVIOUS
  <2> QED BY <1>2, <2>1, Zenon DEF MpptValues
<1>4. DOMAIN new = {"dc"} /\ new.dc = dc
  <2>1. PICK assigned : assigned = [dc |-> dc]
    OBVIOUS
  <2>2. DOMAIN assigned = {"dc"} /\ assigned.dc = dc
    BY <2>1
  <2>3. new = With(old, assigned)
    BY <1>3, <2>1, Zenon
  <2> HIDE <2>1, <1>3
  <2> QED BY <2>2, <2>3, WithIs
<1>5. said_dc \in Seq(Reading) /\ Len(said_dc) = (Len(whole) - 8) \div 20
  BY <1>2 DEF MpptSays
<1>6. ASSUME NEW mpp \in 1 .. n
      PROVE  said_dc[mpp] = reading(mpp)
  <2>1. /\ first(mpp) + 9 \in 0 .. Len(values) - 1
        /\ first(mpp) + 10 \in 0 .. Len(values) - 1
        /\ first(mpp) + 11 \in 0 .. Len(values) - 1
        /\ 0 \in 0 .. Len(values) - 1 /\ 1 \in 0 .. Len(values) - 1
        /\ 2 \in 0 .. Len(values) - 1
    <3> HIDE DEF n
    <3> QED BY <1>1
  <2>2. mpp \in DOMAIN said_dc
    <3> HIDE DEF n
    <3> QED BY <1>1, <1>5
  <2>3. \A i \in 0 .. Len(values) - 1 : At(values, i) \in Word /\ At(whole, i) = At(values, i)
    BY AtTyped
  <2>4. PICK i, v, p : i = first(mpp) + 9 /\ v = first(mpp) + 10 /\ p = first(mpp) + 11
    OBVIOUS
  <2>5. /\ DcSays(At(whole, i), Signed(whole, 0), said_dc[mpp].current)
        /\ DcSays(At(whole, v), Signed(whole, 1), said_dc[mpp].voltage)
        /\ DcSays(At(whole, p), Signed(whole, 2), said_dc[mpp].power)
    BY <1>2, <2>2, <2>4, Zenon DEF MpptSays
  <2> HIDE DEF first, n
  <2>6. /\ DcSays(At(values, i), Int16(At(values, 0)), said_dc[mpp].current)
        /\ DcSays(At(values, v), Int16(At(values, 1)), said_dc[mpp].voltage)
        /\ DcSays(At(values, p), Int16(At(values, 2)), said_dc[mpp].power)
        /\ At(values, i) \in Word /\ At(values, v) \in Word /\ At(values, p) \in Word
        /\ At(values, 0) \in Word /\ At(values, 1) \in Word /\ At(values, 2) \in Word
    BY <2>1, <2>3, <2>4, <2>5 DEF Signed
  <2>7. /\ DcValue(At(values, i), Signed(values, 0)) = said_dc[mpp].current
        /\ DcValue(At(values, v), Signed(values, 1)) = said_dc[mpp].voltage
        /\ DcValue(At(values, p), Signed(values, 2)) = said_dc[mpp].power
    BY <2>6, DcIs DEF Signed
  <2>8. said_dc[mpp] \in Reading
    <3> HIDE DEF Reading
    <3> QED BY <1>5, <2>2
  <2>9. reading(mpp) = [current |-> said_dc[mpp].current, voltage |-> said_dc[mpp].voltage,
                        power |-> said_dc[mpp].power]
    BY <2>4, <2>7, Zenon
  <2> HIDE DEF reading
  <2> QED BY <2>8, <2>9
<1>7. dc = SubSeq(said_dc, 1, n)
  <2> HIDE DEF reading, Reading, n
  <2>1. n \in 0 .. Len(said_dc)
    BY <1>1, <1>5
  <2>2. SubSeq(said_dc, 1, n) = [mpp \in 1 .. n |-> said_dc[mpp]]
    BY <1>5, <2>1
  <2> QED BY <1>2, <1>6, <2>2
<1>8. PICK says_dc : says_dc = [dc |-> SubSeq(says.dc, 1, n)]
  OBVIOUS
<1>9. DOMAIN says_dc = {"dc"} /\ says_dc.dc = dc
  BY <1>2, <1>7, <1>8
<1>10. IsReading(new, says_dc)
  BY <1>4, <1>9 DEF IsReading
<1> QED BY <1>8, <1>10, Zenon

-----------------------------------------------------------------------------
(* Names: readString() finds the name before its padding.                    *)

LEMMA NameIsRead ==
    ASSUME NEW buffer, NEW first, NEW n,
           SubSeq(buffer, first + 1, first + n) \in Seq(Word),
           NEW name, IsText(SubSeq(buffer, first + 1, first + n), name)
    PROVE  ReadString(buffer, first, n) = name
<1>1. PICK registers \in Seq(Word) : registers = SubSeq(buffer, first + 1, first + n)
  OBVIOUS
<1>2. PICK octets : octets = RegisterOctets(registers)
  OBVIOUS
<1>3. /\ name \in Seq(1 .. 255) /\ Len(name) <= 2 * Len(registers)
      /\ \A i \in 1 .. 2 * Len(registers) : octets[i] = IF i <= Len(name) THEN name[i] ELSE 0
  BY <1>1, <1>2, Zenon DEF IsText
<1>4. octets \in Seq(Octet) /\ Len(octets) = 2 * Len(registers)
  BY <1>2, RegisterOctetsShape
<1>5. PICK zeros, end : /\ zeros = {i \in 1 .. Len(octets) : octets[i] = 0}
                        /\ end = SelectInSeq(octets, LAMBDA octet : octet = 0)
  OBVIOUS
<1>6. end = IF zeros # {} THEN Min(zeros) ELSE 0
  BY <1>5 DEF SelectInSeq
<1>7. ReadString(buffer, first, n) = IF end = 0 THEN octets ELSE SubSeq(octets, 1, end - 1)
  BY <1>1, <1>2, <1>5 DEF ReadString
<1>8. zeros = Len(name) + 1 .. Len(octets)
  <2>1. \A i \in 1 .. Len(name) : name[i] # 0
    <3>1. PICK k \in Nat : k = 255
      OBVIOUS
    <3>2. name \in Seq(1 .. k)
      BY <1>3, <3>1
    <3> QED BY <3>2
  <2> QED BY <1>3, <1>4, <1>5, <2>1
<1>9. CASE Len(name) < Len(octets)
  <2>1. Min(zeros) = Len(name) + 1
    <3>1. Len(name) + 1 \in zeros /\ \A x \in zeros : Len(name) + 1 <= x
      BY <1>3, <1>4, <1>8, <1>9
    <3>2. zeros \in SUBSET Int
      BY <1>3, <1>4, <1>8
    <3> QED BY <3>1, <3>2, LowestIsMin
  <2>2. zeros # {}
    BY <1>3, <1>4, <1>8, <1>9
  <2>3. end = Len(name) + 1 /\ end # 0 /\ end - 1 = Len(name)
    BY <1>3, <1>6, <2>1, <2>2
  <2>4. ReadString(buffer, first, n) = SubSeq(octets, 1, Len(name))
    BY <1>7, <2>3
  <2>5. SubSeq(octets, 1, Len(name)) = name
    BY <1>3, <1>4, <1>9
  <2> QED BY <2>4, <2>5
<1>10. CASE ~(Len(name) < Len(octets))
  <2>1. Len(name) = Len(octets)
    BY <1>3, <1>4, <1>10
  <2>2. zeros = {}
    BY <1>4, <1>8, <2>1
  <2>3. ReadString(buffer, first, n) = octets
    BY <1>6, <1>7, <2>2
  <2>4. octets = name
    BY <1>3, <1>4, <2>1
  <2> QED BY <2>3, <2>4
<1> QED BY <1>9, <1>10

-----------------------------------------------------------------------------
(* A block, all of it or the first few of its registers.                     *)

LEMMA PartOf ==
    ASSUME NEW memory \in Seq(Word), NEW address \in Word, NEW n \in Nat, NEW m \in 0 .. n,
           address >= HeaderAddress, address - HeaderAddress + n <= Len(memory),
           NEW whole, whole = RegistersAt(memory, address, n),
           NEW part, part = RegistersAt(memory, address, m)
    PROVE  /\ whole \in Seq(Word) /\ Len(whole) = n
           /\ part \in Seq(Word) /\ Len(part) = m /\ part = SubSeq(whole, 1, m)
           /\ \A i \in 0 .. m - 1 : At(part, i) = At(whole, i)
<1>1. PICK first \in Nat : first = address - HeaderAddress
  <2>1. address - HeaderAddress \in Nat
    BY Numbers DEF Word
  <2> QED BY <2>1
<1>2. whole = SubSeq(memory, first + 1, first + n) /\ part = SubSeq(memory, first + 1, first + m)
  BY <1>1, Zenon DEF RegistersAt
<1>3. first + n <= Len(memory)
  BY <1>1
<1>4. whole \in Seq(Word) /\ Len(whole) = n
  <2> HIDE <1>1
  <2> QED BY <1>2, <1>3
<1>5. part \in Seq(Word) /\ Len(part) = m
  <2> HIDE <1>1
  <2> QED BY <1>2, <1>3
<1>6. \A i \in 1 .. m : part[i] = memory[first + i] /\ whole[i] = memory[first + i]
  BY <1>2, <1>3
<1>7. part = SubSeq(whole, 1, m)
  BY <1>4, <1>5, <1>6
<1>8. \A i \in 0 .. m - 1 : At(part, i) = At(whole, i)
  <2>1. \A i \in 0 .. m - 1 : i + 1 \in 1 .. m
    OBVIOUS
  <2>2. ASSUME NEW i \in 0 .. m - 1 PROVE part[i + 1] = whole[i + 1]
    BY <1>6, <2>1
  <2> QED BY <2>2 DEF At
<1> QED BY <1>4, <1>5, <1>7, <1>8

AcceptedOf(block, id, size) ==
    IF block.says = <<>> THEN <<>>
    ELSE IF id = Mppt /\ size >= 8 THEN [dc |-> SubSeq(block.says.dc, 1, (size - 8) \div 20)]
    ELSE IF size = block.length THEN block.says ELSE <<>>

LEMMA NotEmpty == ASSUME NEW f, NEW x \in DOMAIN f PROVE f # <<>>
OBVIOUS

LEMMA Readable ==
    ASSUME NEW id, NEW n \in Nat
    PROVE  /\ ReadableLength(id, n) \in Nat /\ ReadableLength(id, n) <= n
           /\ ReadableLength(id, n) # n => ReadableLength(id, n) = 48
           /\ id # Mppt => ReadableLength(id, n) = n
           /\ n >= 8 => ReadableLength(id, n) >= 8
           /\ n # 2 => ReadableLength(id, n) # 2
           /\ n \in Word => ReadableLength(id, n) \in Word
BY LengthsOfTheCode DEF ReadableLength, InverterMpptExtension, Mppt, Word

(* What a factory makes of the registers that were read.                     *)
FactoryFits(id, accepted, old, new) ==
    /\ accepted = <<>> => new = old
    /\ accepted # <<>> => DOMAIN accepted = KeysOfModel(id) /\ IsReading(new, accepted)

LEMMA OtherSize ==
    ASSUME NEW id, NEW n \in Nat, NEW size \in Nat, size = ReadableLength(id, n) \/ size = 47
    PROVE  /\ n # 105 => size # 105
           /\ n # 50 => size # 50
           /\ n >= 8 => size >= 8
BY LengthsOfTheCode DEF ReadableLength

LEMMA FactoryIsElgris ==
    ASSUME NEW id \in ModelsWithFactory, NEW whole \in Seq(Word), NEW block,
           block.length = Len(whole), ElgrisStandsFor(id, whole, block.says),
           NEW values \in Seq(Word),
           \/ Len(values) = ReadableLength(id, Len(whole)) \/ Len(values) = 47,
           Len(values) = Len(whole) => values = whole,
           NEW old, DOMAIN old \subseteq KeysOfModel(id)
    PROVE  FactoryFits(id, AcceptedOf(block, id, Len(values)), old, ElgrisValues(old, values))
<1>1. PICK says : says = block.says
  OBVIOUS
<1>0. /\ Len(whole) # 105 => Len(values) # 105
      /\ Len(whole) # 50 => Len(values) # 50
      /\ Len(whole) >= 8 => Len(values) >= 8
  <2>1. PICK n \in Nat : n = Len(whole)
    OBVIOUS
  <2>2. PICK size \in Nat : size = Len(values)
    OBVIOUS
  <2>3. size = ReadableLength(id, n) \/ size = 47
    BY <2>1, <2>2
  <2>4. /\ n # 105 => size # 105
        /\ n # 50 => size # 50
        /\ n >= 8 => size >= 8
    BY <2>3, OtherSize
  <2> QED BY <2>1, <2>2, <2>4
<1>2. CASE id = WyeMeter /\ Len(whole) = 105
  <2>1. id # Mppt /\ KeysOfModel(id) = MeterKeys
    BY <1>2 DEF WyeMeter, Mppt, KeysOfModel, Inverters
  <2>2. ElgrisSays(whole, says)
    BY <1>1, <1>2 DEF ElgrisStandsFor
  <2>3. DOMAIN says = MeterKeys /\ says # <<>>
    <3>1. DOMAIN says = MeterKeys
      BY <2>2, Zenon DEF ElgrisSays
    <3>2. "totalActiveAcPower" \in DOMAIN says
      BY <3>1 DEF MeterKeys
    <3> QED BY <3>1, <3>2, NotEmpty
  <2>4. CASE Len(values) = 105
    <3>1. AcceptedOf(block, id, Len(values)) = says
      BY <1>1, <1>2, <2>1, <2>3, <2>4 DEF AcceptedOf
    <3>2. values = whole
      BY <1>2, <2>4
    <3>3. IsReading(ElgrisValues(old, whole), says)
      BY <1>2, <2>1, <2>2, ElgrisIs
    <3> QED BY <2>1, <2>3, <3>1, <3>2, <3>3, Zenon DEF FactoryFits
  <2>5. CASE Len(values) # 105
    <3>1. AcceptedOf(block, id, Len(values)) = <<>>
      BY <1>1, <1>2, <2>1, <2>3, <2>5 DEF AcceptedOf
    <3>2. ElgrisValues(old, values) = old
      BY <2>5 DEF ElgrisValues
    <3> QED BY <3>1, <3>2 DEF FactoryFits
  <2> QED BY <2>4, <2>5
<1>3. CASE ~(id = WyeMeter /\ Len(whole) = 105)
  <2>1. says = <<>> /\ Len(whole) # 105
    BY <1>1, <1>3 DEF ElgrisStandsFor
  <2>2. AcceptedOf(block, id, Len(values)) = <<>>
    BY <1>1, <2>1 DEF AcceptedOf
  <2>3. Len(values) # 105
    BY <1>0, <2>1
  <2>4. ElgrisValues(old, values) = old
    BY <2>3 DEF ElgrisValues
  <2> QED BY <2>2, <2>4 DEF FactoryFits
<1> QED BY <1>2, <1>3

LEMMA FactoryIsModel ==
    ASSUME NEW id \in ModelsWithFactory, NEW whole \in Seq(Word), NEW block,
           block.length = Len(whole), StandsFor(id, whole, block.says),
           NEW values \in Seq(Word), Len(values) <= Len(whole),
           \/ Len(values) = ReadableLength(id, Len(whole)) \/ Len(values) = 47,
           Len(values) = Len(whole) => values = whole,
           \A i \in 0 .. Len(values) - 1 : At(values, i) = At(whole, i),
           NEW all, NEW old, old = ValuesOf(all, id), DOMAIN old \subseteq KeysOfModel(id)
    PROVE  FactoryFits(id, AcceptedOf(block, id, Len(values)), old, FactoryOfModel(all, id, values))
<1>1. PICK says, new : says = block.says /\ new = FactoryOfModel(all, id, values)
  OBVIOUS
<1>0. /\ Len(whole) # 105 => Len(values) # 105
      /\ Len(whole) # 50 => Len(values) # 50
      /\ Len(whole) >= 8 => Len(values) >= 8
  <2>1. PICK n \in Nat : n = Len(whole)
    OBVIOUS
  <2>2. PICK size \in Nat : size = Len(values)
    OBVIOUS
  <2>3. size = ReadableLength(id, n) \/ size = 47
    BY <2>1, <2>2
  <2>4. /\ n # 105 => size # 105
        /\ n # 50 => size # 50
        /\ n >= 8 => size >= 8
    BY <2>3, OtherSize
  <2> QED BY <2>1, <2>2, <2>4
<1>2. CASE id \in Inverters
  <2>1. id # Mppt /\ KeysOfModel(id) = InverterKeys /\ new = InverterValues(old, values)
    <3>1. id # Mppt
      BY <1>2 DEF Inverters, Mppt
    <3>2. KeysOfModel(id) = InverterKeys
      BY <1>2, <3>1 DEF KeysOfModel, Inverters, WyeMeter
    <3>3. new = InverterValues(old, values)
      BY <1>1, <1>2, <3>1 DEF FactoryOfModel, Inverters, WyeMeter
    <3> QED BY <3>1, <3>2, <3>3
  <2>2. CASE Len(whole) = 50
    <3>1. InverterSays(whole, says)
      BY <1>1, <1>2, <2>1, <2>2 DEF StandsFor, Inverters, WyeMeter
    <3>2. DOMAIN says = InverterKeys /\ says # <<>>
      <4>1. DOMAIN says = InverterKeys
        BY <3>1, Zenon DEF InverterSays
      <4>2. "events" \in DOMAIN says
        BY <4>1 DEF InverterKeys
      <4> QED BY <4>1, <4>2, NotEmpty
    <3>3. CASE Len(values) = 50
      <4>1. AcceptedOf(block, id, Len(values)) = says
        BY <1>1, <2>1, <2>2, <3>2, <3>3 DEF AcceptedOf
      <4>2. IsReading(InverterValues(old, whole), says)
        BY <2>1, <2>2, <3>1, InverterIs
      <4>3. values = whole
        BY <2>2, <3>3
      <4> QED BY <1>1, <2>1, <3>2, <4>1, <4>2, <4>3, Zenon DEF FactoryFits
    <3>4. CASE Len(values) # 50
      <4>1. AcceptedOf(block, id, Len(values)) = <<>>
        BY <1>1, <2>1, <2>2, <3>2, <3>4 DEF AcceptedOf
      <4>2. new = old
        BY <2>1, <3>4 DEF InverterValues
      <4> QED BY <1>1, <4>1, <4>2 DEF FactoryFits
    <3> QED BY <3>3, <3>4
  <2>3. CASE Len(whole) # 50
    <3>1. says = <<>>
      BY <1>1, <1>2, <2>1, <2>3 DEF StandsFor, Inverters, Mppt, WyeMeter
    <3>2. AcceptedOf(block, id, Len(values)) = <<>>
      BY <1>1, <3>1 DEF AcceptedOf
    <3>3. Len(values) # 50
      BY <1>0, <2>3
    <3>4. new = old
      BY <2>1, <3>3 DEF InverterValues
    <3> QED BY <1>1, <3>2, <3>4 DEF FactoryFits
  <2> QED BY <2>2, <2>3
<1>3. CASE id = WyeMeter
  <2>1. id # Mppt /\ id \notin Inverters /\ KeysOfModel(id) = MeterKeys /\ new = MeterValues(old, values)
    BY <1>1, <1>3 DEF Inverters, Mppt, WyeMeter, KeysOfModel, FactoryOfModel
  <2>2. CASE Len(whole) = 105
    <3>1. MeterSays(whole, says)
      BY <1>1, <1>3, <2>1, <2>2 DEF StandsFor
    <3>2. DOMAIN says = MeterKeys /\ says # <<>>
      <4>1. DOMAIN says = MeterKeys
        BY <3>1, Zenon DEF MeterSays
      <4>2. "totalActiveAcPower" \in DOMAIN says
        BY <4>1 DEF MeterKeys
      <4> QED BY <4>1, <4>2, NotEmpty
    <3>3. CASE Len(values) = 105
      <4>1. AcceptedOf(block, id, Len(values)) = says
        BY <1>1, <2>1, <2>2, <3>2, <3>3 DEF AcceptedOf
      <4>2. IsReading(MeterValues(old, whole), says)
        BY <2>1, <2>2, <3>1, MeterIs
      <4>3. values = whole
        BY <2>2, <3>3
      <4> QED BY <1>1, <2>1, <3>2, <4>1, <4>2, <4>3, Zenon DEF FactoryFits
    <3>4. CASE Len(values) # 105
      <4>1. AcceptedOf(block, id, Len(values)) = <<>>
        BY <1>1, <2>1, <2>2, <3>2, <3>4 DEF AcceptedOf
      <4>2. new = old
        BY <2>1, <3>4 DEF MeterValues
      <4> QED BY <1>1, <4>1, <4>2 DEF FactoryFits
    <3> QED BY <3>3, <3>4
  <2>3. CASE Len(whole) # 105
    <3>1. says = <<>>
      BY <1>1, <1>3, <2>1, <2>3 DEF StandsFor
    <3>2. AcceptedOf(block, id, Len(values)) = <<>>
      BY <1>1, <3>1 DEF AcceptedOf
    <3>3. Len(values) # 105
      BY <1>0, <2>3
    <3>4. new = old
      BY <2>1, <3>3 DEF MeterValues
    <3> QED BY <1>1, <3>2, <3>4 DEF FactoryFits
  <2> QED BY <2>2, <2>3
<1>4. CASE id = Mppt
  <2>1. id \notin Inverters /\ id # WyeMeter /\ KeysOfModel(id) = {"dc"} /\ new = MpptValues(old, values)
    BY <1>1, <1>4 DEF Inverters, Mppt, WyeMeter, KeysOfModel, FactoryOfModel
  <2>2. CASE Len(whole) >= 8
    <3>1. MpptSays(whole, says)
      BY <1>1, <1>4, <2>1, <2>2 DEF StandsFor
    <3>2. DOMAIN says = {"dc"} /\ says # <<>>
      <4>1. DOMAIN says = {"dc"}
        BY <3>1, Zenon DEF MpptSays
      <4> QED BY <4>1, NotEmpty
    <3>3. Len(values) >= 8
      BY <1>0, <2>2
    <3>4. PICK accepted : accepted = [dc |-> SubSeq(says.dc, 1, (Len(values) - 8) \div 20)]
      OBVIOUS
    <3>5. AcceptedOf(block, id, Len(values)) = accepted
      BY <1>1, <1>4, <3>2, <3>3, <3>4 DEF AcceptedOf
    <3>6. DOMAIN accepted = {"dc"} /\ accepted # <<>>
      BY <3>4
    <3>7. IsReading(new, accepted)
      BY <2>1, <2>2, <3>1, <3>3, <3>4, MpptIs
    <3> QED BY <1>1, <2>1, <3>5, <3>6, <3>7, Zenon DEF FactoryFits
  <2>3. CASE ~(Len(whole) >= 8)
    <3>1. says = <<>>
      BY <1>1, <1>4, <2>1, <2>3 DEF StandsFor
    <3>2. AcceptedOf(block, id, Len(values)) = <<>>
      BY <1>1, <3>1 DEF AcceptedOf
    <3>3. Len(values) < 8
      BY <2>3
    <3>4. new = old
      BY <2>1, <3>3 DEF MpptValues
    <3> QED BY <1>1, <3>2, <3>4 DEF FactoryFits
  <2> QED BY <2>2, <2>3
<1> QED BY <1>2, <1>3, <1>4 DEF ModelsWithFactory

LEMMA FactoryIs ==
    ASSUME NEW id \in ModelsWithFactory, NEW elgris \in BOOLEAN, NEW whole \in Seq(Word), NEW block,
           block.length = Len(whole),
           IF elgris THEN ElgrisStandsFor(id, whole, block.says)
           ELSE StandsFor(id, whole, block.says),
           NEW n \in 0 .. Len(whole), n = ReadableLength(id, Len(whole)) \/ n = 47,
           NEW values \in Seq(Word), Len(values) = n, values = SubSeq(whole, 1, n),
           \A i \in 0 .. n - 1 : At(values, i) = At(whole, i),
           NEW all, IsElgris(all) <=> elgris,
           NEW old, old = ValuesOf(all, id), DOMAIN old \subseteq KeysOfModel(id)
    PROVE  FactoryFits(id, AcceptedOf(block, id, n), old, FactoryOf(all, id, values))
<1>1. Len(values) = Len(whole) => values = whole
  OBVIOUS
<1>2. CASE elgris
  <2>1. FactoryOf(all, id, values) = ElgrisValues(old, values)
    BY <1>2, Zenon DEF FactoryOf
  <2>2. ElgrisStandsFor(id, whole, block.says)
    BY <1>2
  <2>3. Len(values) = ReadableLength(id, Len(whole)) \/ Len(values) = 47
    OBVIOUS
  <2>4. FactoryFits(id, AcceptedOf(block, id, Len(values)), old, ElgrisValues(old, values))
    BY <1>1, <2>2, <2>3, FactoryIsElgris
  <2> QED BY <2>1, <2>4
<1>3. CASE ~elgris
  <2>1. FactoryOf(all, id, values) = FactoryOfModel(all, id, values)
    BY <1>3, Zenon DEF FactoryOf
  <2>2. StandsFor(id, whole, block.says)
    BY <1>3
  <2>3. Len(values) = ReadableLength(id, Len(whole)) \/ Len(values) = 47
    OBVIOUS
  <2>4. Len(values) <= Len(whole) /\ \A i \in 0 .. Len(values) - 1 : At(values, i) = At(whole, i)
    OBVIOUS
  <2>5. FactoryFits(id, AcceptedOf(block, id, Len(values)), old, FactoryOfModel(all, id, values))
    BY <1>1, <2>2, <2>3, <2>4, FactoryIsModel
  <2> QED BY <2>1, <2>5
<1> QED BY <1>2, <1>3

-----------------------------------------------------------------------------
(* Where the requests of a client go, with a standard device: the header,    *)
(* the common model, an entry of the table, a block, or nothing at all.      *)

(* The directory holds blocks of the device, and what cut answers left in it. *)
Listed(host, id, place) ==
    /\ id \in DOMAIN Blocks(host)
    /\ place = <<Blocks(host)[id].address, ReadableLength(id, Blocks(host)[id].length)>>
Nowhere(host, address, n) ==
    \A time \in DOMAIN host.at : ~IsThere(host.at[time].memory, address, n)
Stray(host, id, place) ==
    id \notin ModelsWithFactory \cup {CommonModel, ReadHeader} /\ Nowhere(host, place[1], place[2])
Directs(host, c) ==
    \A id \in DOMAIN c.blockAddresses :
        Listed(host, id, c.blockAddresses[id]) \/ Stray(host, id, c.blockAddresses[id])

(* What is asked before (~h) and after (h) the client is handed over.        *)
AsksHeader(c, h, q) ==
    ~h /\ c.sunSpecId = 0 /\ q.user = ReadHeader /\ q.address = HeaderAddress /\ q.length = 4
AsksCommon(host, c, h, q) ==
    /\ ~h /\ c.sunSpecId = 0 /\ c.headerLength = CommonLengthOf(host)
    /\ q.user = CommonModel /\ q.address = CommonAddress /\ q.length = CommonLengthOf(host)
AsksEntry(host, h, q) == ~h /\ q.user = q.address /\ q.length = 2 /\ q.address \in Entries(host)
AsksBlock(host, h, q) == h /\ q.length # 2 /\ Listed(host, q.user, <<q.address, q.length>>)
Asks(host, c, h, q) ==
    \/ AsksHeader(c, h, q) \/ AsksCommon(host, c, h, q)
    \/ AsksEntry(host, h, q) \/ AsksBlock(host, h, q)
    \/ Nowhere(host, q.address, q.length)

Directed(host, c, h) ==
    /\ Directs(host, c)
    /\ \A q \in Calls : c.pending = <<q>> => Asks(host, c, h, q)

(* What the device says to a request: an exception, or registers that are     *)
(* there, all of them or the first few.                                      *)
Answers(host, h, s, q) ==
    /\ s.time \in DOMAIN host.at
    /\ ~h => s.time = 1
    /\ s.answer.exception = NoException =>
          /\ IsThere(host.at[s.time].memory, q.address, q.length)
          /\ \E n \in {q.length} \cup {m \in {2, 47} : m < q.length} :
                n > 0 /\ s.answer.values = RegistersAt(host.at[s.time].memory, q.address, n)

PInv ==
    /\ Directed(device, client, handedOver)
    /\ \A q \in Calls :
          client.pending = <<q>> /\ request = <<>> => Answers(device, handedOver, said, q)

LEMMA MemoryTyped ==
    ASSUME NEW host \in Devices
    PROVE  /\ 1 \in DOMAIN host.at
           /\ \A time \in DOMAIN host.at : host.at[time].memory \in Seq(Word)
BY DevicesAssumption

(* Every entry of the table lies between the header and ReadHeader.          *)
LEMMA EntriesBounded ==
    ASSUME NEW host \in Devices, IsStandard(host), NEW entry \in Entries(host)
    PROVE  entry \in Word /\ HeaderAddress <= entry /\ entry < ReadHeader
<1>1. PICK memory \in Seq(Word) : memory = host.at[1].memory
  BY MemoryTyped
<1>2. PICK n \in Nat : n = Len(memory)
  OBVIOUS
<1>3. /\ HeaderAddress + n <= ReadHeader /\ EndAddress(host) = HeaderAddress + n - 2
      /\ EndAddress(host) >= HeaderAddress
  BY <1>1, <1>2, Zenon DEF IsStandard, HasTable, EndAddress
<1>4. HeaderAddress \in Nat /\ ReadHeader \in Word
  BY Numbers DEF Word
<1>5. CASE entry = EndAddress(host)
  BY <1>3, <1>4, <1>5 DEF Word
<1>6. ASSUME NEW id \in DOMAIN Blocks(host), entry = Blocks(host)[id].address - 2
      PROVE  entry \in Word /\ HeaderAddress <= entry /\ entry < ReadHeader
  <2>1. PICK address, length : address = Blocks(host)[id].address /\ length = Blocks(host)[id].length
    OBVIOUS
  <2>2. address \in Word /\ length \in Word /\ address - 2 >= HeaderAddress
    BY <2>1, Zenon DEF IsStandard, HasTable
  <2>3. address + length <= HeaderAddress + n
    <3>1. 1 \in DOMAIN host.at
      BY MemoryTyped
    <3>2. host.at[1].blocks = Blocks(host)
      BY Zenon DEF Blocks
    <3> QED BY <1>1, <1>2, <2>1, <3>1, <3>2, Zenon DEF IsStandard, HasBlocks
  <2>4. entry = address - 2
    BY <1>6, <2>1
  <2> QED BY <1>3, <1>4, <2>2, <2>3, <2>4 DEF Word
<1> QED BY <1>5, <1>6 DEF Entries

LEMMA EntryStays == ASSUME NEW n \in Nat, n < AddressMod PROVE n % AddressMod = n
BY AddressAssumption

-----------------------------------------------------------------------------
(* The handlers send such requests only.                                     *)

SameTable(d, c) ==
    d.sunSpecId = c.sunSpecId /\ d.headerLength = c.headerLength
    /\ d.blockAddresses = c.blockAddresses

LEMMA ReadIs ==
    ASSUME NEW c \in Fields, c.pending = <<>>, NEW unit, NEW address, NEW length, NEW data,
           NEW q, q = [unit |-> unit, address |-> address, length |-> length, user |-> data],
           NEW d, d = Read(c, unit, address, length, data)
    PROVE  d.pending = <<q>> /\ SameTable(d, c)
<1>1. d = [c EXCEPT !.pending = Append(c.pending, q)]
  BY Zenon DEF Read
<1>2. Append(c.pending, q) = <<q>>
  OBVIOUS
<1>3. d = [c EXCEPT !.pending = <<q>>]
  BY <1>1, <1>2, Zenon
<1> QED BY <1>3 DEF Fields, SameTable

LEMMA SameDirects ==
    ASSUME NEW host, NEW c, NEW d, SameTable(d, c), Directs(host, c)
    PROVE  Directs(host, d)
BY Zenon DEF Directs, SameTable

LEMMA SameAsks ==
    ASSUME NEW host, NEW c, NEW d, SameTable(d, c), NEW h, NEW q, Asks(host, c, h, q)
    PROVE  Asks(host, d, h, q)
BY Zenon DEF Asks, SameTable, AsksHeader, AsksCommon

LEMMA QuietDirected ==
    ASSUME NEW host, NEW c, NEW h, c.pending = <<>>, Directs(host, c)
    PROVE  Directed(host, c, h)
BY NotAlone, Zenon DEF Directed

LEMMA ReadDirected ==
    ASSUME NEW host, NEW c \in Fields, c.pending = <<>>, Directs(host, c), NEW h,
           NEW unit, NEW address, NEW length, NEW data,
           NEW q, q = [unit |-> unit, address |-> address, length |-> length, user |-> data],
           Asks(host, c, h, q),
           NEW d, d = Read(c, unit, address, length, data)
    PROVE  Directed(host, d, h) /\ d.sunSpecId = c.sunSpecId
<1>1. d.pending = <<q>> /\ SameTable(d, c)
  BY ReadIs
<1>2. Directs(host, d) /\ Asks(host, d, h, q)
  BY <1>1, SameDirects, SameAsks
<1>3. \A p : d.pending = <<p>> => p = q
  BY <1>1
<1> QED BY <1>1, <1>2, <1>3, Zenon DEF Directed, SameTable

(* The memory has a table entry or nothing where an entry is read.           *)
Enters(host, h, address) ==
    \/ ~h /\ address \in Entries(host)
    \/ Nowhere(host, address % AddressMod, 2)

LEMMA EntryDirected ==
    ASSUME NEW host \in Devices, IsStandard(host), NEW c \in Fields, c.pending = <<>>,
           Directs(host, c), NEW h, NEW address \in Nat, Enters(host, h, address),
           NEW d, d = ReadModelEntry(c, address)
    PROVE  Directed(host, d, h) /\ d.sunSpecId = c.sunSpecId
<1>1. PICK a : a = address % AddressMod
  OBVIOUS
<1>2. PICK q : q = [unit |-> c.unitId, address |-> a, length |-> 2, user |-> a]
  OBVIOUS
<1>3. d = Read(c, c.unitId, a, 2, a)
  BY <1>1, Zenon DEF ReadModelEntry
<1>4. Asks(host, c, h, q)
  <2>1. q.address = a /\ q.user = a /\ q.length = 2
    BY <1>2
  <2>2. CASE ~h /\ address \in Entries(host)
    <3>1. address < AddressMod
      BY <2>2, EntriesBounded, AddressAssumption DEF Word
    <3>2. a = address
      BY <1>1, <3>1, EntryStays
    <3> QED BY <2>1, <2>2, <3>2, Zenon DEF Asks, AsksEntry
  <2>3. CASE Nowhere(host, address % AddressMod, 2)
    BY <1>1, <2>1, <2>3, Zenon DEF Asks
  <2> QED BY <2>2, <2>3, Zenon DEF Enters
<1> QED BY <1>2, <1>3, <1>4, ReadDirected

LEMMA ProbeDirected ==
    ASSUME NEW host \in Devices, NEW c \in Fields, c.pending = <<>>, Directs(host, c),
           NEW h, ~h, c.sunSpecId = 0, NEW r, r = ProbeNextUnitId(c)
    PROVE  /\ Directed(host, r.client, h) /\ r.client.sunSpecId = 0
           /\ r.event \in {"none", "close"}
<1>1. Len(UnitIds) \in Nat /\ c.unitIdx \in 0 .. Len(UnitIds)
  BY UnitIdsAssumption DEF Fields
<1>2. CASE c.unitIdx >= Len(UnitIds)
  <2>1. r = [client |-> c, event |-> "close"]
    BY <1>2, Zenon DEF ProbeNextUnitId, Publish
  <2> QED BY <2>1, QuietDirected
<1>3. CASE ~(c.unitIdx >= Len(UnitIds))
  <2>1. PICK next, k : next = UnitIds[c.unitIdx + 1] /\ k = c.unitIdx + 1
    OBVIOUS
  <2>2. PICK e : e = [c EXCEPT !.unitId = next, !.unitIdx = k]
    OBVIOUS
  <2>3. r = [client |-> Read(e, next, HeaderAddress, 4, ReadHeader), event |-> "none"]
    BY <1>3, <2>1, <2>2, Zenon DEF ProbeNextUnitId, Quiet
  <2>4. next \in Ids /\ k \in 0 .. Len(UnitIds)
    <3>1. k \in DOMAIN UnitIds /\ k \in 0 .. Len(UnitIds)
      BY <1>1, <1>3, <2>1, UnitIdsAssumption
    <3> QED BY <2>1, <3>1 DEF Ids
  <2>5. e \in Fields /\ SameTable(e, c) /\ e.pending = <<>>
    <3> HIDE <2>1
    <3> QED BY <2>2, <2>4 DEF Fields, SameTable
  <2>6. PICK q : q = [unit |-> next, address |-> HeaderAddress, length |-> 4, user |-> ReadHeader]
    OBVIOUS
  <2>7. Asks(host, e, h, q)
    <3>1. q.user = ReadHeader /\ q.address = HeaderAddress /\ q.length = 4
      BY <2>6
    <3>2. e.sunSpecId = 0
      BY <2>5 DEF SameTable
    <3> QED BY <3>1, <3>2, Zenon DEF Asks, AsksHeader
  <2>8. Directs(host, e) /\ e.sunSpecId = 0
    BY <2>5, SameDirects DEF SameTable
  <2>9. PICK d : d = Read(e, next, HeaderAddress, 4, ReadHeader)
    OBVIOUS
  <2>10. Directed(host, d, h) /\ d.sunSpecId = 0
    BY <2>5, <2>6, <2>7, <2>8, <2>9, ReadDirected
  <2> QED BY <2>3, <2>9, <2>10
<1> QED BY <1>2, <1>3

AsksFor(host, c, h, id, address, length) ==
    length # 2 =>
        Asks(host, c, h, [unit |-> c.unitId, address |-> address, length |-> length, user |-> id])

LEMMA BlockDirected ==
    ASSUME NEW host \in Devices, NEW c \in Fields, c.pending = <<>>, Directs(host, c), NEW h,
           NEW id, NEW address, NEW length, AsksFor(host, c, h, id, address, length),
           NEW d, d = ReadBlock(c, id, address, length)
    PROVE  Directed(host, d, h) /\ d.sunSpecId = c.sunSpecId
<1>1. CASE length = 2
  BY <1>1, QuietDirected, Zenon DEF ReadBlock
<1>2. CASE length # 2
  <2>1. PICK q : q = [unit |-> c.unitId, address |-> address, length |-> length, user |-> id]
    OBVIOUS
  <2>2. d = Read(c, c.unitId, address, length, id)
    BY <1>2, Zenon DEF ReadBlock
  <2>3. Asks(host, c, h, q)
    BY <1>2, <2>1, Zenon DEF AsksFor
  <2> QED BY <2>1, <2>2, <2>3, ReadDirected
<1> QED BY <1>1, <1>2

(* readModel() of what is in the directory.                                  *)
LEMMA ModelDirected ==
    ASSUME NEW host \in Devices, NEW c \in Fields, c.pending = <<>>, Directs(host, c),
           NEW h, NEW id \in DOMAIN c.blockAddresses, NEW d, d = ReadModel(c, id)
    PROVE  h => Directed(host, d, h) /\ d.sunSpecId = c.sunSpecId
<1>1. PICK place, a, n : place = c.blockAddresses[id] /\ a = place[1] /\ n = place[2]
  OBVIOUS
<1>2. d = ReadBlock(c, id, a, n)
  BY <1>1, Zenon DEF ReadModel
<1>3. Listed(host, id, place) \/ Stray(host, id, place)
  BY <1>1, Zenon DEF Directs
<1>4. ASSUME h PROVE AsksFor(host, c, h, id, a, n)
  <2>1. PICK q : q = [unit |-> c.unitId, address |-> a, length |-> n, user |-> id]
    OBVIOUS
  <2>2. q.address = a /\ q.length = n /\ q.user = id
    BY <2>1
  <2>3. CASE Listed(host, id, place)
    <3>1. place = <<a, n>>
      BY <1>1, <2>3 DEF Listed
    <3>2. n # 2 => AsksBlock(host, h, q)
      BY <1>4, <2>2, <2>3, <3>1, Zenon DEF AsksBlock
    <3> QED BY <2>1, <3>2, Zenon DEF Asks, AsksFor
  <2>4. CASE Stray(host, id, place)
    BY <1>1, <2>1, <2>2, <2>4, Zenon DEF Asks, AsksFor, Stray
  <2> QED BY <1>3, <2>3, <2>4
<1>5. ASSUME AsksFor(host, c, h, id, a, n)
      PROVE  Directed(host, d, h) /\ d.sunSpecId = c.sunSpecId
  <2> HIDE <1>1, <1>3
  <2> QED BY <1>2, <1>5, BlockDirected
<1> QED BY <1>4, <1>5

-----------------------------------------------------------------------------
(* Answers: what they add to the directory, and what is asked next.          *)

LEMMA BlockBounded ==
    ASSUME NEW host \in Devices, IsStandard(host), NEW id \in DOMAIN Blocks(host)
    PROVE  /\ id \notin {CommonModel, ReadHeader, EndOfTable}
           /\ Blocks(host)[id].address \in Word /\ Blocks(host)[id].length \in Word
           /\ Blocks(host)[id].address < AddressMod
           /\ Blocks(host)[id].address - 2 >= HeaderAddress
           /\ Blocks(host)[id].address + Blocks(host)[id].length \in Entries(host)
           /\ RegistersAt(host.at[1].memory, Blocks(host)[id].address - 2, 2)
                 = <<id, Blocks(host)[id].length>>
<1>1. PICK address, length : address = Blocks(host)[id].address /\ length = Blocks(host)[id].length
  OBVIOUS
<1>2. /\ id \notin {CommonModel, ReadHeader, EndOfTable}
      /\ address \in Word /\ address - 2 >= HeaderAddress /\ length \in Word
      /\ address + length \in Entries(host)
      /\ RegistersAt(host.at[1].memory, address - 2, 2) = <<id, length>>
  BY <1>1, Zenon DEF IsStandard, HasTable
<1>3. address + length < ReadHeader
  BY <1>2, EntriesBounded
<1>4. address < AddressMod
  BY <1>2, <1>3, AddressAssumption DEF Word
<1> QED BY <1>1, <1>2, <1>4

LEMMA AddedDirects ==
    ASSUME NEW host, NEW c \in Fields, Directs(host, c),
           NEW id, NEW address, NEW length,
           NEW place, place = <<address % AddressMod, ReadableLength(id, length)>>,
           Listed(host, id, place) \/ Stray(host, id, place),
           NEW d, d = AddModelAddress(c, id, address, length)
    PROVE  Directs(host, d) /\ d.sunSpecId = c.sunSpecId
<1>1. PICK table : table = [i \in DOMAIN c.blockAddresses \cup {id} |->
                               IF i = id THEN place ELSE c.blockAddresses[i]]
  OBVIOUS
<1>2. d = [c EXCEPT !.blockAddresses = table]
  BY <1>1, Zenon DEF AddModelAddress
<1>3. d.blockAddresses = table /\ d.sunSpecId = c.sunSpecId
  <2> HIDE <1>1
  <2> QED BY <1>2 DEF Fields
<1>4. \A i \in DOMAIN table : Listed(host, i, table[i]) \/ Stray(host, i, table[i])
  <2>1. ASSUME NEW i \in DOMAIN table
        PROVE  Listed(host, i, table[i]) \/ Stray(host, i, table[i])
    <3>1. CASE i = id
      <4>1. table[i] = place
        BY <1>1, <3>1
      <4> QED BY <3>1, <4>1, Zenon
    <3>2. CASE i # id
      <4>1. i \in DOMAIN c.blockAddresses /\ table[i] = c.blockAddresses[i]
        BY <1>1, <3>2
      <4> QED BY <4>1, Zenon DEF Directs
    <3> QED BY <3>1, <3>2
  <2> QED BY <2>1
<1> QED BY <1>3, <1>4, Zenon DEF Directs

(* What the client asks, and waits for nothing when it is handed over.       *)
Lands(host, h, r) ==
    /\ Directs(host, r.client)
    /\ r.event = "connect" => r.client.pending = <<>>
    /\ r.event # "connect" => Directed(host, r.client, h)

(* A table entry, or what an answer cut to two registers is taken for.       *)
Leads(host, h, from, id, length) ==
    \/ id = EndOfTable
    \/ ~h /\ id \in DOMAIN Blocks(host) /\ from = Blocks(host)[id].address - 2
          /\ length = Blocks(host)[id].length
    \/ LeadsNowhere(host, from, id, length)

OnUnit(c) == c \in Fields /\ c.pending = <<>> /\ c.unitId # 0

LEMMA AddedOnUnit ==
    \A c, id, address, length :
        OnUnit(c) /\ id \in Word /\ address \in Nat /\ length \in Word =>
            OnUnit(AddModelAddress(c, id, address, length))
<1> TAKE c, id, address, length
<1> HAVE OnUnit(c) /\ id \in Word /\ address \in Nat /\ length \in Word
<1>1. c \in Fields /\ c.pending = <<>> /\ c.unitId # 0
  BY DEF OnUnit
<1>2. PICK d : d = AddModelAddress(c, id, address, length)
  OBVIOUS
<1>3. d \in Fields /\ d.pending = <<>> /\ d.unitId # 0
  BY <1>1, <1>2, EntryAddedWaits
<1> QED BY <1>2, <1>3 DEF OnUnit

LEMMA EntryLands ==
    ASSUME NEW host \in Devices, IsStandard(host), NEW c \in Fields, c.pending = <<>>,
           c.unitId # 0, Directs(host, c), NEW h,
           NEW from \in Word, NEW id \in Word, NEW length \in Word,
           Leads(host, h, from, id, length),
           NEW response, response.user = from, response.words[1] = id, response.words[2] = length,
           NEW r, r = OnReadModelEntry(c, response)
    PROVE  Lands(host, h, r)
<1>1. CASE id = EndOfTable
  <2>1. r = [client |-> c, event |-> "connect"]
    BY <1>1, Zenon DEF OnReadModelEntry, Publish
  <2> QED BY <2>1 DEF Lands
<1>2. CASE id # EndOfTable
  <2>1. PICK address, next : address = from + 2 /\ next = from + 2 + length
    OBVIOUS
  <2>2. PICK d, e : d = AddModelAddress(c, id, address, length) /\ e = ReadModelEntry(d, next)
    OBVIOUS
  <2>3. r = [client |-> e, event |-> "none"]
    BY <1>2, <2>1, <2>2, Zenon DEF OnReadModelEntry, Quiet
  <2>4. address \in Nat /\ next \in Nat
    BY <2>1 DEF Word
  <2>5. PICK place : place = <<address % AddressMod, ReadableLength(id, length)>>
    OBVIOUS
  <2>6. /\ Listed(host, id, place) \/ Stray(host, id, place)
        /\ Enters(host, h, next)
    <3>1. CASE /\ ~h /\ id \in DOMAIN Blocks(host) /\ from = Blocks(host)[id].address - 2
               /\ length = Blocks(host)[id].length
      <4>1. PICK at : at = Blocks(host)[id].address
        OBVIOUS
      <4>2. at \in Word /\ at < AddressMod /\ at + length \in Entries(host)
        BY <3>1, <4>1, BlockBounded
      <4>3. address = at /\ next = at + length
        BY <2>1, <3>1, <4>1, <4>2 DEF Word
      <4>4. at % AddressMod = at
        BY <4>2, EntryStays DEF Word
      <4>5. place = <<at, ReadableLength(id, length)>>
        BY <2>5, <4>3, <4>4
      <4>6. Listed(host, id, place)
        BY <3>1, <4>1, <4>5 DEF Listed
      <4> QED BY <3>1, <4>2, <4>3, <4>6 DEF Enters
    <3>2. CASE LeadsNowhere(host, from, id, length)
      <4>1. /\ id \notin ModelsWithFactory \cup {CommonModel, ReadHeader}
            /\ Nowhere(host, address % AddressMod, length)
            /\ Nowhere(host, next % AddressMod, 2)
        BY <1>2, <2>1, <3>2, Zenon DEF LeadsNowhere, Nowhere
      <4>2. ReadableLength(id, length) = length
        <5>1. id # Mppt
          BY <4>1 DEF ModelsWithFactory
        <5>2. length \in Nat
          BY DEF Word
        <5> QED BY <5>1, <5>2, Readable
      <4>3. place[1] = address % AddressMod /\ place[2] = length
        BY <2>5, <4>2
      <4> QED BY <4>1, <4>3, Zenon DEF Stray, Enters
    <3> QED BY <1>2, <3>1, <3>2 DEF Leads
  <2>7. Directs(host, d) /\ d.sunSpecId = c.sunSpecId
    <3> HIDE <2>1, <2>3
    <3> QED BY <2>2, <2>5, <2>6, AddedDirects
  <2>8. d \in Fields /\ d.pending = <<>> /\ d.unitId # 0
    <3>1. OnUnit(c)
      BY Zenon DEF OnUnit
    <3>2. OnUnit(AddModelAddress(c, id, address, length))
      BY <2>4, <3>1, AddedOnUnit, Zenon
    <3> QED BY <2>2, <3>2, Zenon DEF OnUnit
  <2>9. Directed(host, e, h) /\ e.sunSpecId = d.sunSpecId
    <3> HIDE <2>1, <2>3, <2>5
    <3> QED BY <2>2, <2>4, <2>6, <2>7, <2>8, EntryDirected
  <2>10. Directs(host, e)
    BY <2>9, Zenon DEF Directed
  <2> QED BY <2>3, <2>7, <2>9, <2>10 DEF Lands
<1> QED BY <1>1, <1>2

LEMMA QuietLands ==
    ASSUME NEW host, NEW c, NEW h, Directs(host, c), c.pending = <<>>,
           NEW r, r.client = c
    PROVE  Lands(host, h, r)
BY QuietDirected DEF Lands

LEMMA ReadLands ==
    ASSUME NEW host, NEW c, NEW h, Directed(host, c, h), NEW r, r.client = c, r.event # "connect"
    PROVE  Lands(host, h, r)
BY Zenon DEF Lands, Directed

LEMMA AnsweredIs ==
    ASSUME NEW host \in Devices, NEW h, NEW s, NEW q \in Calls, Answers(host, h, s, q),
           s.answer.exception = NoException,
           NEW memory, memory = host.at[s.time].memory
    PROVE  /\ s.time \in DOMAIN host.at /\ IsThere(memory, q.address, q.length)
           /\ s.answer.values \in Seq(Word) /\ Len(s.answer.values) \in 1 .. q.length
           /\ \/ Len(s.answer.values) = q.length
              \/ Len(s.answer.values) \in {2, 47} /\ Len(s.answer.values) < q.length
           /\ s.answer.values = RegistersAt(memory, q.address, Len(s.answer.values))
<1>1. PICK a, n : a = q.address /\ n = q.length
  OBVIOUS
<1>2. a \in Word /\ n \in Word
  BY <1>1 DEF Calls
<1>3. s.time \in DOMAIN host.at /\ IsThere(memory, a, n)
  BY <1>1, Zenon DEF Answers
<1>4. PICK m \in {n} \cup {k \in {2, 47} : k < n} :
         m > 0 /\ s.answer.values = RegistersAt(memory, a, m)
  BY <1>1, Zenon DEF Answers
<1>5. memory \in Seq(Word)
  BY <1>3, MemoryTyped
<1>6. m \in 1 .. n /\ n \in Nat /\ a >= HeaderAddress /\ a - HeaderAddress + n <= Len(memory)
  BY <1>2, <1>3, <1>4 DEF Word, IsThere
<1>7. RegistersAt(memory, a, m) \in Seq(Word) /\ Len(RegistersAt(memory, a, m)) = m
  <2>1. m \in 0 .. n
    BY <1>6
  <2> HIDE <1>1, <1>3, <1>4
  <2> QED BY <1>2, <1>5, <1>6, <2>1, PartOf
<1>8. Len(s.answer.values) = m /\ s.answer.values \in Seq(Word)
  BY <1>4, <1>7
<1> QED BY <1>1, <1>3, <1>4, <1>6, <1>8

LEMMA AbstractIs ==
    ASSUME NEW message, NEW values, values = message.values, NEW data,
           NEW response, response = Abstract(message, data)
    PROVE  /\ response.user = data /\ response.unit = message.unit
           /\ response.size = Len(values)
           /\ Len(values) = 2 => response.words = values
           /\ Len(values) >= 4 => response.words = SubSeq(values, 3, 4)
<1>1. PICK words : words = CASE Len(values) = 2 -> values
                             [] Len(values) >= 4 -> SubSeq(values, 3, 4)
                             [] OTHER -> <<0, 0>>
  OBVIOUS
<1>2. /\ response.user = data /\ response.unit = message.unit
      /\ response.size = Len(values) /\ response.words = words
  BY <1>1 DEF Abstract
<1>3. Len(values) = 2 => words = values
  BY <1>1
<1>4. Len(values) >= 4 => words = SubSeq(values, 3, 4)
  BY <1>1
<1> QED BY <1>2, <1>3, <1>4

LEMMA HeaderLands ==
    ASSUME NEW host \in Devices, IsStandard(host), NEW c \in Fields, c.pending = <<>>,
           Directs(host, c), NEW h, ~h, c.sunSpecId = 0,
           NEW values \in Seq(Word), Len(values) \in {2, 4},
           values = RegistersAt(host.at[1].memory, HeaderAddress, Len(values)),
           NEW response, response.user = ReadHeader, response.size = Len(values),
           Len(values) = 4 => response.words = SubSeq(values, 3, 4),
           NEW r, r = OnReadHeader(c, response)
    PROVE  Lands(host, h, r)
<1>1. CASE Len(values) = 2
  <2>0. response.size < 4
    BY <1>1
  <2>1. r = [client |-> c, event |-> "none"]
    BY <2>0, Zenon DEF OnReadHeader, Quiet
  <2> QED BY <2>1, QuietLands
<1>2. CASE Len(values) = 4
  <2>1. PICK memory : memory = host.at[1].memory
    OBVIOUS
  <2>2. PICK words : words = response.words
    OBVIOUS
  <2>3. words[2] = CommonLengthOf(host) /\ words[2] \in Word
    <3>1. memory \in Seq(Word) /\ Len(memory) >= 4
      BY <2>1, MemoryTyped, Zenon DEF IsStandard, HasTable
    <3>2. values = SubSeq(memory, 1, 4)
      <4>1. HeaderAddress - HeaderAddress + 1 = 1 /\ HeaderAddress - HeaderAddress + 4 = 4
        BY AddressAssumption
      <4> QED BY <1>2, <2>1, <4>1, Zenon DEF RegistersAt
    <3>3. words = SubSeq(values, 3, 4)
      BY <1>2, <2>2
    <3>4. words[2] = memory[4] /\ words[2] \in Word
      <4> HIDE <2>1, <2>2
      <4> QED BY <3>1, <3>2, <3>3
    <3> QED BY <2>1, <3>4, Zenon DEF CommonLengthOf
  <2>4. PICK d : d = [c EXCEPT !.headerLength = words[2]]
    OBVIOUS
  <2>5. /\ d \in Fields /\ d.pending = <<>> /\ d.sunSpecId = 0 /\ d.headerLength = words[2]
        /\ d.blockAddresses = c.blockAddresses
    <3> HIDE <2>2
    <3> QED BY <2>3, <2>4 DEF Fields
  <2>6. Directs(host, d)
    BY <2>5, Zenon DEF Directs
  <2>7. ~(response.size < 4)
    BY <1>2
  <2>8. CASE ValidHeader(response)
    <3>1. PICK e : e = ReadBlock(d, CommonModel, CommonAddress, words[2])
      OBVIOUS
    <3>2. r = [client |-> e, event |-> "none"]
      BY <2>2, <2>4, <2>7, <2>8, <3>1, Zenon DEF OnReadHeader, Quiet, CommonAddress
    <3>3. AsksFor(host, d, h, CommonModel, CommonAddress, words[2])
      <4>1. PICK q : q = [unit |-> d.unitId, address |-> CommonAddress, length |-> words[2],
                          user |-> CommonModel]
        OBVIOUS
      <4>2. q.address = CommonAddress /\ q.length = words[2] /\ q.user = CommonModel
        BY <4>1
      <4>3. AsksCommon(host, d, h, q)
        BY <2>3, <2>5, <4>2, Zenon DEF AsksCommon
      <4> QED BY <4>1, <4>3, Zenon DEF Asks, AsksFor
    <3>4. Directed(host, e, h)
      <4> HIDE <2>1, <2>2, <2>4
      <4> QED BY <2>5, <2>6, <3>1, <3>3, BlockDirected
    <3> QED BY <3>2, <3>4, ReadLands
  <2>9. CASE ~ValidHeader(response)
    <3>1. r = [client |-> d, event |-> "close"]
      BY <2>2, <2>4, <2>7, <2>9, Zenon DEF OnReadHeader, Publish
    <3> QED BY <2>5, <2>6, <3>1, QuietLands
  <2> QED BY <2>8, <2>9
<1> QED BY <1>1, <1>2

LEMMA CommonLands ==
    ASSUME NEW host \in Devices, IsStandard(host), NEW c \in Fields, c.pending = <<>>,
           c.unitId # 0, Directs(host, c), NEW h, c.headerLength = CommonLengthOf(host),
           Enters(host, h, CommonAddress + CommonLengthOf(host)),
           NEW response, response.user = CommonModel, response.unit \in Octet,
           NEW r, r = OnReadBlock(c, response)
    PROVE  Lands(host, h, r)
<1>1. PICK e : e = IF response.size \in CommonLengths THEN [c EXCEPT !.sunSpecId = response.unit]
                   ELSE c
  OBVIOUS
<1>2. /\ e \in Fields /\ e.pending = <<>> /\ e.unitId # 0
      /\ e.blockAddresses = c.blockAddresses
  BY <1>1 DEF Fields
<1>3. Directs(host, e)
  BY <1>2, Zenon DEF Directs
<1>4. PICK address, d : /\ address = HeaderAddress + 4 + c.headerLength
                        /\ d = ReadModelEntry(e, address)
  OBVIOUS
<1>5. r = [client |-> d, event |-> "none"]
  BY <1>1, <1>4, Zenon DEF OnReadBlock, Quiet
<1>6. address \in Nat
  BY <1>4, Numbers DEF Fields, Word
<1>7. Enters(host, h, address)
  BY <1>4, Zenon DEF CommonAddress
<1>8. Directed(host, d, h)
  <2> HIDE <1>1
  <2> QED BY <1>2, <1>3, <1>4, <1>6, <1>7, EntryDirected
<1> QED BY <1>5, <1>8, ReadLands

IsPartOf(host, s, q) ==
    /\ s.time \in DOMAIN host.at /\ Len(s.answer.values) \in 1 .. q.length
    /\ s.answer.values =
          RegistersAt(host.at[s.time].memory, q.address, Len(s.answer.values))

LEMMA AnsweredPart ==
    \A host, h, s, q : host \in Devices /\ q \in Calls /\ Answers(host, h, s, q)
        /\ s.answer.exception = NoException => IsPartOf(host, s, q)
<1> TAKE host, h, s, q
<1> HAVE host \in Devices /\ q \in Calls /\ Answers(host, h, s, q)
         /\ s.answer.exception = NoException
<1>1. PICK memory : memory = host.at[s.time].memory
  OBVIOUS
<1>2. /\ s.time \in DOMAIN host.at /\ Len(s.answer.values) \in 1 .. q.length
      /\ s.answer.values = RegistersAt(memory, q.address, Len(s.answer.values))
  BY <1>1, AnsweredIs
<1> QED BY <1>1, <1>2 DEF IsPartOf

LEMMA TwoLead ==
    ASSUME NEW host \in Devices, IsStandard(host), NEW c, NEW h, NEW q \in Calls,
           AsksCommon(host, c, h, q) \/ AsksEntry(host, h, q) \/ AsksBlock(host, h, q),
           NEW s, Answers(host, h, s, q), s.answer.exception = NoException,
           NEW values, values = s.answer.values, Len(values) = 2
    PROVE  Leads(host, h, q.user, values[1], values[2])
<1>1. PICK memory : memory = host.at[s.time].memory
  OBVIOUS
<1>2. s.time \in DOMAIN host.at /\ values = RegistersAt(memory, q.address, 2) /\ 2 <= q.length
  <2>1. /\ s.time \in DOMAIN host.at /\ Len(s.answer.values) \in 1 .. q.length
        /\ s.answer.values = RegistersAt(memory, q.address, Len(s.answer.values))
    <3>1. IsPartOf(host, s, q)
      BY AnsweredPart, Zenon
    <3> QED BY <1>1, <3>1, Zenon DEF IsPartOf
  <2> QED BY <2>1
<1>3. CASE AsksCommon(host, c, h, q)
  <2>1. q.user = CommonModel /\ q.address = CommonAddress
    BY <1>3, Zenon DEF AsksCommon
  <2>2. LeadsNowhere(host, CommonModel, values[1], values[2])
    BY <1>1, <1>2, <2>1, Zenon DEF IsStandard, CutsLeadNowhere
  <2> QED BY <2>1, <2>2, Zenon DEF Leads
<1>4. CASE AsksEntry(host, h, q)
  <2>1. ~h /\ q.user = q.address /\ q.address \in Entries(host)
    BY <1>4, Zenon DEF AsksEntry
  <2>2. s.time = 1
    BY <2>1, Zenon DEF Answers
  <2>3. CASE q.address = EndAddress(host)
    <3>1. RegistersAt(memory, q.address, 1) = <<EndOfTable>>
      BY <1>1, <2>2, <2>3, Zenon DEF IsStandard, HasTable
    <3>2. PICK first : first = q.address - HeaderAddress
      OBVIOUS
    <3>3. SubSeq(memory, first + 1, first + 1) = <<EndOfTable>> /\ values = SubSeq(memory, first + 1, first + 2)
      BY <1>2, <3>1, <3>2, Zenon DEF RegistersAt
    <3>4. first \in Int
      BY <3>2, Numbers DEF Calls, Word
    <3>5. values[1] = EndOfTable
      <4>1. values[1] = memory[first + 1]
        BY <3>3, <3>4
      <4>2. SubSeq(memory, first + 1, first + 1)[1] = memory[first + 1]
        BY <3>4
      <4>3. <<EndOfTable>>[1] = EndOfTable
        OBVIOUS
      <4> QED BY <3>3, <4>1, <4>2, <4>3, Zenon
    <3> QED BY <3>5, Zenon DEF Leads
  <2>4. ASSUME NEW id \in DOMAIN Blocks(host), q.address = Blocks(host)[id].address - 2
        PROVE  Leads(host, h, q.user, values[1], values[2])
    <3>1. values = <<id, Blocks(host)[id].length>>
      BY <1>1, <1>2, <2>2, <2>4, BlockBounded, Zenon
    <3>2. values[1] = id /\ values[2] = Blocks(host)[id].length
      BY <3>1
    <3> QED BY <2>1, <2>4, <3>2, Zenon DEF Leads
  <2> QED BY <2>1, <2>3, <2>4 DEF Entries
<1>5. CASE AsksBlock(host, h, q)
  <2>1. q.length # 2 /\ Listed(host, q.user, <<q.address, q.length>>)
    BY <1>5, Zenon DEF AsksBlock
  <2>2. PICK length : length = Blocks(host)[q.user].length
    OBVIOUS
  <2>3. /\ q.user \in DOMAIN Blocks(host) /\ q.address = Blocks(host)[q.user].address
        /\ q.length = ReadableLength(q.user, length)
    BY <2>1, <2>2 DEF Listed
  <2>4. length \in Nat
    BY <2>2, <2>3, BlockBounded DEF Word
  <2>5. length > 2
    BY <1>2, <2>1, <2>3, <2>4, Readable
  <2>6. LeadsNowhere(host, q.user, values[1], values[2])
    BY <1>1, <1>2, <2>2, <2>3, <2>5, Zenon DEF IsStandard, CutsLeadNowhere
  <2> QED BY <2>6, Zenon DEF Leads
<1> QED BY <1>3, <1>4, <1>5

LEMMA FewOf ==
    ASSUME NEW l, NEW n \in 1 .. l, n = l \/ (n \in {2, 47} /\ n < l)
    PROVE  (l = 4 => n \in {2, 4}) /\ (l = 2 => n = 2)
OBVIOUS

(* Whatever part of an answer it is, the client goes on as it should.        *)
LEMMA ResponseLands ==
    ASSUME NEW host \in Devices, IsStandard(host), NEW c \in Fields, c.pending = <<>>,
           c.unitId # 0, Directs(host, c), NEW h, NEW q \in Calls, Asks(host, c, h, q),
           NEW s, Answers(host, h, s, q), s.answer.exception = NoException,
           NEW message, message.values = s.answer.values, message.unit = q.unit,
           NEW response, response = Abstract(message, q.user),
           NEW r, r = OnResponse(c, response)
    PROVE  Lands(host, h, r)
<1>1. PICK values : values = s.answer.values
  OBVIOUS
<1>2. PICK memory : memory = host.at[s.time].memory
  OBVIOUS
<1>3. /\ s.time \in DOMAIN host.at /\ IsThere(memory, q.address, q.length)
      /\ values \in Seq(Word) /\ Len(values) \in 1 .. q.length
      /\ \/ Len(values) = q.length
         \/ Len(values) \in {2, 47} /\ Len(values) < q.length
      /\ values = RegistersAt(memory, q.address, Len(values))
  BY <1>1, <1>2, AnsweredIs
<1>4. /\ response.user = q.user /\ response.unit = q.unit /\ response.size = Len(values)
      /\ Len(values) = 2 => response.words = values
      /\ Len(values) >= 4 => response.words = SubSeq(values, 3, 4)
  <2>1. values = message.values
    BY <1>1
  <2> HIDE <1>1, <1>2, <1>3
  <2> QED BY <2>1, AbstractIs
<1>5. q.user \in Word /\ q.unit \in Octet
  BY IdsAreOctets DEF Calls
<1>6. CASE AsksHeader(c, h, q)
  <2>1. /\ ~h /\ c.sunSpecId = 0 /\ q.user = ReadHeader /\ q.address = HeaderAddress
        /\ q.length = 4 /\ s.time = 1
    BY <1>6, Zenon DEF AsksHeader, Answers
  <2>2. Len(values) \in {2, 4}
    BY <1>3, <2>1, FewOf
  <2>3. values = RegistersAt(host.at[1].memory, HeaderAddress, Len(values))
    BY <1>2, <1>3, <2>1
  <2>4. r = OnReadHeader(c, response)
    BY <1>4, <2>1, Zenon DEF OnResponse
  <2>5. Len(values) = 4 => response.words = SubSeq(values, 3, 4)
    BY <1>4
  <2>6. response.user = ReadHeader /\ response.size = Len(values) /\ values \in Seq(Word)
    BY <1>3, <1>4, <2>1
  <2> HIDE <1>1, <1>2, <1>3, <1>4, <1>6
  <2> QED BY <2>1, <2>2, <2>3, <2>4, <2>5, <2>6, HeaderLands
<1>7. ASSUME Len(values) = 2, q.user # ReadHeader,
             AsksCommon(host, c, h, q) \/ AsksEntry(host, h, q) \/ AsksBlock(host, h, q)
      PROVE  Lands(host, h, r)
  <2>1. Leads(host, h, q.user, values[1], values[2])
    BY <1>1, <1>7, TwoLead, Zenon
  <2>2. values[1] \in Word /\ values[2] \in Word
    BY <1>3, <1>7
  <2>3. response.words[1] = values[1] /\ response.words[2] = values[2]
    BY <1>4, <1>7
  <2>4. r = OnReadModelEntry(c, response)
    <3>1. response.size = 2 /\ response.user # ReadHeader
      BY <1>4, <1>7
    <3> QED BY <3>1, Zenon DEF OnResponse
  <2>5. response.user = q.user
    BY <1>4
  <2> HIDE <1>1, <1>2, <1>3, <1>4, <1>7
  <2> QED BY <1>5, <2>1, <2>2, <2>3, <2>4, <2>5, EntryLands
<1>8. CASE AsksCommon(host, c, h, q)
  <2>1. ~h /\ q.user = CommonModel /\ c.headerLength = CommonLengthOf(host)
    BY <1>8, Zenon DEF AsksCommon
  <2>2. q.user # ReadHeader
    BY <2>1, Numbers
  <2>3. CASE Len(values) # 2
    <3>1. response.user = CommonModel /\ response.size # 2 /\ response.unit \in Octet
      BY <1>4, <1>5, <2>1, <2>3
    <3>2. r = OnReadBlock(c, response)
      BY <2>1, <2>2, <3>1, Zenon DEF OnResponse
    <3>3. CommonAddress + CommonLengthOf(host) \in Entries(host)
      BY Zenon DEF IsStandard, HasTable
    <3>4. Enters(host, h, CommonAddress + CommonLengthOf(host))
      BY <2>1, <3>3, Zenon DEF Enters
    <3> HIDE <1>1, <1>2, <1>3, <1>4, <1>8
    <3> QED BY <2>1, <3>1, <3>2, <3>4, CommonLands
  <2> QED BY <1>7, <1>8, <2>2, <2>3
<1>9. CASE AsksEntry(host, h, q)
  <2>1. q.user = q.address /\ q.length = 2 /\ q.address \in Entries(host)
    BY <1>9, Zenon DEF AsksEntry
  <2>2. q.user # ReadHeader
    BY <2>1, EntriesBounded, Numbers DEF Word
  <2>3. Len(values) = 2
    BY <1>3, <2>1, FewOf
  <2> QED BY <1>7, <1>9, <2>2, <2>3
<1>10. CASE AsksBlock(host, h, q)
  <2>1. q.user \in DOMAIN Blocks(host)
    BY <1>10, Zenon DEF AsksBlock, Listed
  <2>2. q.user # ReadHeader /\ q.user # CommonModel
    BY <2>1, BlockBounded
  <2>3. CASE Len(values) # 2
    <3>1. response.user = q.user /\ response.size # 2
      BY <1>4, <2>3
    <3>2. r = [client |-> c, event |-> "none"]
      BY <2>2, <3>1, Zenon DEF OnResponse, OnReadBlock, Quiet
    <3> QED BY <3>2, QuietLands
  <2> QED BY <1>7, <1>10, <2>2, <2>3
<1>11. CASE Nowhere(host, q.address, q.length)
  BY <1>2, <1>3, <1>11, Zenon DEF Nowhere
<1> QED BY <1>6, <1>8, <1>9, <1>10, <1>11, Zenon DEF Asks

-----------------------------------------------------------------------------
(* The steps of the protocol.                                                *)

LEMMA AnswerIsPart ==
    ASSUME NEW memory \in Seq(Word), NEW a \in Word, NEW n \in Word,
           NEW values, values = IF IsThere(memory, a, n) THEN RegistersAt(memory, a, n) ELSE <<>>,
           NEW answer, NEW frame, frame \in Seq(Octet),
           answer = Regular(frame, values) \/ answer \in Faulty(values),
           answer.exception = NoException
    PROVE  /\ IsThere(memory, a, n)
           /\ \E m \in {n} \cup {k \in {2, 47} : k < n} :
                 m > 0 /\ answer.values = RegistersAt(memory, a, m)
<1>1. /\ IllegalDataAddress # NoException /\ NegativeAcknowledge # NoException
      /\ TargetFailedToRespond # NoException
  BY DEF IllegalDataAddress, NegativeAcknowledge, TargetFailedToRespond, NoException
<1>2. PICK whole : whole = RegistersAt(memory, a, n)
  OBVIOUS
<1>3. CASE ~IsThere(memory, a, n)
  <2>1. values = <<>>
    BY <1>3
  <2>2. Len(values) = 0
    BY <2>1
  <2>3. CASE answer = Regular(frame, values)
    <3>1. answer \in {Says(<<>>, TargetFailedToRespond, "none"), Says(<<>>, IllegalDataAddress, "none")}
      BY <2>1, <2>3, Zenon DEF Regular
    <3> QED BY <1>1, <3>1 DEF Says
  <2>4. CASE answer \in Faulty(values)
    <3>1. answer = Says(<<>>, NegativeAcknowledge, "busy")
      <4>1. {2, 47} \cap 1 .. Len(values) - 1 = {}
        BY <2>2
      <4> QED BY <2>4, <4>1 DEF Faulty
    <3> QED BY <1>1, <3>1 DEF Says
  <2> QED BY <2>3, <2>4
<1>4. CASE IsThere(memory, a, n)
  <2>1. values = whole
    BY <1>2, <1>4
  <2>2. a >= HeaderAddress /\ a - HeaderAddress + n <= Len(memory)
    BY <1>4 DEF IsThere
  <2>3. ASSUME NEW m \in 0 .. n
        PROVE  /\ whole \in Seq(Word) /\ Len(whole) = n
               /\ RegistersAt(memory, a, m) = SubSeq(whole, 1, m)
    <3>1. n \in Nat
      BY DEF Word
    <3> HIDE <1>4, <2>1
    <3> QED BY <1>2, <2>2, <3>1, PartOf
  <2>4. n \in 0 .. n
    BY DEF Word
  <2>5. CASE answer = Regular(frame, values)
    <3>1. values # <<>> /\ answer = Says(values, NoException, "none")
      <4>1. CASE UnitOf(frame) # device.unit
        <5>1. answer = Says(<<>>, TargetFailedToRespond, "none")
          BY <2>5, <4>1, Zenon DEF Regular
        <5> QED BY <1>1, <5>1 DEF Says
      <4>2. CASE UnitOf(frame) = device.unit /\ values = <<>>
        <5>1. answer = Says(<<>>, IllegalDataAddress, "none")
          BY <2>5, <4>2, Zenon DEF Regular
        <5> QED BY <1>1, <5>1 DEF Says
      <4>3. CASE UnitOf(frame) = device.unit /\ values # <<>>
        BY <2>5, <4>3, Zenon DEF Regular
      <4> QED BY <4>1, <4>2, <4>3
    <3>2. answer.values = whole
      BY <2>1, <3>1 DEF Says
    <3>3. n > 0
      <4>1. Len(whole) = n /\ whole \in Seq(Word) /\ whole # <<>>
        BY <2>1, <2>3, <2>4, <3>1
      <4> QED BY <2>4, <4>1
    <3> QED BY <1>2, <1>4, <3>2, <3>3
  <2>6. CASE answer \in Faulty(values)
    <3>1. PICK m \in {2, 47} \cap 1 .. Len(values) - 1 :
             \E fault : answer = Says(SubSeq(values, 1, m), NoException, fault)
      <4>1. answer # Says(<<>>, NegativeAcknowledge, "busy")
        BY <1>1 DEF Says
      <4> QED BY <2>6, <4>1 DEF Faulty
    <3>2. Len(whole) = n /\ n \in Nat
      BY <2>3, <2>4 DEF Word
    <3>3. m \in {2, 47} /\ m < n /\ m > 0 /\ m \in 0 .. n
      BY <2>1, <3>1, <3>2
    <3>4. answer.values = SubSeq(whole, 1, m)
      BY <2>1, <3>1 DEF Says
    <3>5. answer.values = RegistersAt(memory, a, m)
      BY <2>3, <3>3, <3>4
    <3> QED BY <1>4, <3>3, <3>5
  <2> QED BY <2>5, <2>6
<1> QED BY <1>3, <1>4

LEMMA AnswerPInv == ASSUME FInv, PInv, Answer PROVE PInv'
<1>1. PICK q \in Calls : client.pending = <<q>> /\ Asked(q)
  <2>1. request # <<>>
    BY DEF Answer
  <2>2. client.pending # <<>>
    BY <2>1 DEF FInv, Idle
  <2>3. PICK q \in Calls : client.pending = <<q>>
    BY <2>2, Zenon DEF FInv, Waits
  <2>4. Asked(q)
    BY <2>1, <2>3 DEF FInv, Answering
  <2> QED BY <2>3, <2>4
<1>2. q.address \in Word /\ q.length \in Word /\ tid \in Word /\ device \in Devices
  BY <1>1 DEF FInv, Types, Calls
<1>3. /\ request \in Seq(Octet)
      /\ AddressOf(request) = q.address /\ LengthOf(request) = q.length
  BY <1>1, <1>2, CallIsUnderstood, Zenon DEF Asked
<1>4. PICK time \in IF handedOver THEN DOMAIN device.at ELSE {1} : \E values, answer :
         /\ values = RegistersRead(request, device.at[time].memory)
         /\ answer = Regular(request, values) \/ answer \in Faulty(values)
         /\ said' = [answer |-> answer, time |-> time]
  BY Zenon DEF Answer
<1>5. PICK values, answer :
         /\ values = RegistersRead(request, device.at[time].memory)
         /\ answer = Regular(request, values) \/ answer \in Faulty(values)
         /\ said' = [answer |-> answer, time |-> time]
  BY <1>4, Zenon
<1>6. /\ client' = client /\ device' = device /\ handedOver' = handedOver
      /\ said'.answer = answer /\ said'.time = time
  BY <1>5 DEF Answer, user
<1>7. time \in DOMAIN device.at /\ (~handedOver => time = 1)
  BY <1>2, <1>4, MemoryTyped
<1>8. PICK memory \in Seq(Word) : memory = device.at[time].memory
  BY <1>2, <1>7, MemoryTyped
<1>9. answer.exception = NoException =>
         /\ IsThere(memory, q.address, q.length)
         /\ \E m \in {q.length} \cup {k \in {2, 47} : k < q.length} :
               m > 0 /\ answer.values = RegistersAt(memory, q.address, m)
  <2>1. values = IF IsThere(memory, q.address, q.length)
                 THEN RegistersAt(memory, q.address, q.length) ELSE <<>>
    BY <1>3, <1>5, <1>8, Zenon DEF RegistersRead
  <2> HIDE <1>1, <1>4, <1>6, <1>7, <1>8
  <2> QED BY <1>2, <1>3, <1>5, <2>1, AnswerIsPart
<1>10. Answers(device', handedOver', said', q)
  BY <1>6, <1>7, <1>8, <1>9, Zenon DEF Answers
<1>11. Directed(device', client', handedOver')
  BY <1>6, Zenon DEF PInv
<1>12. \A p \in Calls : client'.pending = <<p>> => p = q
  BY <1>1, <1>6
<1> QED BY <1>10, <1>11, <1>12, Zenon DEF PInv

(* A request goes out when an answer has been understood, if any.            *)
LEMMA SentUnanswered ==
    ASSUME FInv', incoming' = <<>>, NEW q \in Calls, client'.pending = <<q>>
    PROVE  request' # <<>>
<1>1. Asked(q)'
  BY Zenon DEF FInv, Answering
<1>2. tid' \in Word
  BY DEF FInv, Types
<1> QED BY <1>1, <1>2, CallIsUnderstood, Zenon DEF Asked

LEMMA ExceptTurns ==
    ASSUME device \in Devices, NEW waiting \in Fields, waiting.pending = <<>>,
           waiting.sunSpecId = client.sunSpecId, Directs(device, waiting),
           handedOver \in BOOLEAN, Except(waiting)
    PROVE  /\ Directed(device, client', handedOver')
           /\ client'.sunSpecId = client.sunSpecId /\ handedOver' = handedOver
           /\ heard' = heard \/ heard'.kind \in {"close", "exception"}
           /\ models' = models /\ told' = told
<1>1. PICK result :
         /\ result = IF ~handedOver /\ client.sunSpecId = 0 THEN ProbeNextUnitId(waiting)
                     ELSE Publish(waiting, "exception")
         /\ client' = result.client
         /\ IF result.event = "none" THEN UNCHANGED <<heard, handedOver, awaiting>>
            ELSE Hears(result.event, 0, <<>>)
         /\ UNCHANGED <<models, measured, seen, told>>
  BY Zenon DEF Except
<1>2. /\ Directed(device, result.client, handedOver)
      /\ result.client.sunSpecId = client.sunSpecId
      /\ result.event \in {"none", "close", "exception"}
  <2>1. CASE ~handedOver /\ client.sunSpecId = 0
    <3>1. result = ProbeNextUnitId(waiting)
      BY <1>1, <2>1
    <3> HIDE <1>1
    <3> QED BY <2>1, <3>1, ProbeDirected
  <2>2. CASE ~(~handedOver /\ client.sunSpecId = 0)
    <3>1. result = [client |-> waiting, event |-> "exception"]
      BY <1>1, <2>2, Zenon DEF Publish
    <3>2. result.client = waiting /\ result.event = "exception"
      BY <3>1
    <3> QED BY <3>2, QuietDirected
  <2> QED BY <2>1, <2>2
<1>3. handedOver' = handedOver /\ (heard' = heard \/ heard'.kind \in {"close", "exception"})
  <2>1. CASE result.event = "none"
    BY <1>1, <2>1
  <2>2. CASE result.event # "none"
    <3>1. heard' = Event(result.event, 0, <<>>) /\ handedOver' = (handedOver \/ result.event = "connect")
      BY <1>1, <2>2, Zenon DEF Hears
    <3>2. result.event # "connect"
      BY <1>2
    <3> QED BY <1>2, <2>2, <3>1, <3>2 DEF Event
  <2> QED BY <2>1, <2>2
<1>4. client' = result.client /\ models' = models /\ told' = told
  BY <1>1
<1> QED BY <1>2, <1>3, <1>4

LEMMA ReadKeeps ==
    ASSUME NEW c \in Fields, c.pending = <<>>, NEW unit, NEW address, NEW length, NEW data
    PROVE  Read(c, unit, address, length, data).sunSpecId = c.sunSpecId
<1>1. PICK q, d : /\ q = [unit |-> unit, address |-> address, length |-> length, user |-> data]
                  /\ d = Read(c, unit, address, length, data)
  OBVIOUS
<1>2. SameTable(d, c)
  BY <1>1, ReadIs
<1> QED BY <1>1, <1>2 DEF SameTable

(* Which unit a client is identified with.                                   *)
LEMMA IdentifiedAs ==
    ASSUME NEW c \in Fields, c.pending = <<>>, c.unitId # 0,
           NEW response, response.user \in Word, response.unit \in Octet,
           response.words[1] \in Word, response.words[2] \in Word,
           NEW r, r = OnResponse(c, response)
    PROVE  /\ r.client.sunSpecId = IF /\ response.user = CommonModel
                                      /\ response.size \in CommonLengths
                                   THEN response.unit ELSE c.sunSpecId
           /\ response.user # ReadHeader /\ response.size # 2 => r.event = "none"
<1>0. CommonModel # ReadHeader /\ 2 \notin CommonLengths
  BY Numbers, LengthAssumption
<1>1. CASE response.user = ReadHeader
  <2>1. PICK d : d = [c EXCEPT !.headerLength = response.words[2]]
    OBVIOUS
  <2>2. d.sunSpecId = c.sunSpecId /\ d.pending = <<>> /\ d \in Fields
    BY <2>1 DEF Fields
  <2>3. r = OnReadHeader(c, response)
    BY <1>1, Zenon DEF OnResponse
  <2>4. CASE response.size < 4
    BY <1>0, <1>1, <2>3, <2>4 DEF OnReadHeader, Quiet
  <2>5. CASE ~(response.size < 4) /\ ~ValidHeader(response)
    <3>1. r = Publish(d, "close")
      BY <2>1, <2>3, <2>5, Zenon DEF OnReadHeader
    <3>2. r.client = d
      BY <3>1 DEF Publish
    <3> QED BY <1>0, <1>1, <2>2, <3>2
  <2>6. CASE ~(response.size < 4) /\ ValidHeader(response)
    <3>1. PICK e : e = ReadBlock(d, CommonModel, HeaderAddress + 4, response.words[2])
      OBVIOUS
    <3>2. r.client = e
      <4>1. r = Quiet(e)
        BY <2>1, <2>3, <2>6, <3>1, Zenon DEF OnReadHeader
      <4> QED BY <4>1 DEF Quiet
    <3>3. e.sunSpecId = d.sunSpecId
      <4>1. CASE response.words[2] = 2
        BY <3>1, <4>1, Zenon DEF ReadBlock
      <4>2. CASE response.words[2] # 2
        <5>1. e = Read(d, d.unitId, HeaderAddress + 4, response.words[2], CommonModel)
          BY <3>1, <4>2, Zenon DEF ReadBlock
        <5> HIDE <2>1, <3>1
        <5> QED BY <2>2, <5>1, ReadKeeps
      <4> QED BY <4>1, <4>2
    <3> QED BY <1>0, <1>1, <2>2, <3>2, <3>3
  <2> QED BY <2>4, <2>5, <2>6
<1>2. CASE response.user # ReadHeader /\ response.size = 2
  <2>1. PICK address, next, d : /\ address = response.user + 2
                                /\ next = response.user + 2 + response.words[2]
                                /\ d = AddModelAddress(c, response.words[1], address, response.words[2])
    OBVIOUS
  <2>2. r = IF response.words[1] = EndOfTable THEN Publish(c, "connect")
            ELSE Quiet(ReadModelEntry(d, next))
    BY <1>2, <2>1, Zenon DEF OnResponse, OnReadModelEntry
  <2>3. address \in Nat /\ next \in Nat
    BY <2>1 DEF Word
  <2>4. d \in Fields /\ d.pending = <<>>
    <3> HIDE <1>2
    <3> QED BY <2>1, <2>3, EntryAddedWaits
  <2>5. d.sunSpecId = c.sunSpecId
    BY <2>1 DEF AddModelAddress, Fields
  <2>6. ReadModelEntry(d, next).sunSpecId = d.sunSpecId
    <3>1. PICK e, a : a = next % AddressMod /\ e = Read(d, d.unitId, a, 2, a)
      OBVIOUS
    <3>2. e.sunSpecId = d.sunSpecId
      <4> HIDE <1>2, <2>1, <2>2
      <4> QED BY <2>4, <3>1, ReadKeeps
    <3> QED BY <3>1, <3>2, Zenon DEF ReadModelEntry
  <2>7. r.client.sunSpecId = c.sunSpecId
    BY <2>2, <2>5, <2>6 DEF Publish, Quiet
  <2> QED BY <1>0, <1>2, <2>7
<1>3. CASE response.user # ReadHeader /\ response.size # 2
  <2>1. PICK e : e = IF response.size \in CommonLengths
                     THEN [c EXCEPT !.sunSpecId = response.unit] ELSE c
    OBVIOUS
  <2>2. r = IF response.user = CommonModel
            THEN Quiet(ReadModelEntry(e, HeaderAddress + 4 + c.headerLength)) ELSE Quiet(c)
    BY <1>3, <2>1, Zenon DEF OnResponse, OnReadBlock
  <2>3. e \in Fields /\ e.pending = <<>>
    BY <2>1 DEF Fields
  <2>4. e.sunSpecId = IF response.size \in CommonLengths THEN response.unit ELSE c.sunSpecId
    BY <2>1 DEF Fields
  <2>5. ReadModelEntry(e, HeaderAddress + 4 + c.headerLength).sunSpecId = e.sunSpecId
    <3>1. PICK d, a : /\ a = (HeaderAddress + 4 + c.headerLength) % AddressMod
                      /\ d = Read(e, e.unitId, a, 2, a)
      OBVIOUS
    <3>2. d.sunSpecId = e.sunSpecId
      <4> HIDE <1>3, <2>1, <2>2
      <4> QED BY <2>3, <3>1, ReadKeeps
    <3> QED BY <3>1, <3>2, Zenon DEF ReadModelEntry
  <2>6. r.event = "none"
    BY <2>2 DEF Quiet
  <2>7. r.client.sunSpecId = IF response.user = CommonModel THEN e.sunSpecId ELSE c.sunSpecId
    BY <2>2, <2>5 DEF Quiet
  <2> QED BY <1>0, <1>3, <2>4, <2>6, <2>7
<1> QED BY <1>1, <1>2, <1>3

(* The block a response holds; and whether its model is published.           *)
IsBlock(id, size) == id # ReadHeader /\ size # 2
Publishes(id, values) ==
    IsBlock(id, Len(values)) /\ id # CommonModel /\ IsPublished(id, values)

LEMMA RespondTurns ==
    ASSUME device \in Devices, IsStandard(device), NEW waiting \in Fields, waiting.pending = <<>>,
           waiting.unitId # 0, waiting.sunSpecId = client.sunSpecId, Directs(device, waiting),
           handedOver \in BOOLEAN, NEW q \in Calls, Asks(device, waiting, handedOver, q),
           Answers(device, handedOver, said, q), said.answer.exception = NoException,
           NEW message, message.values = said.answer.values, message.unit = q.unit,
           NEW response, response = Abstract(message, q.user),
           NEW values, values = said.answer.values,
           Respond(waiting, response, values)
    PROVE  /\ Directed(device, client', handedOver')
           /\ handedOver => handedOver'
           /\ client'.sunSpecId = IF q.user = CommonModel /\ Len(values) \in CommonLengths
                                  THEN q.unit ELSE client.sunSpecId
           /\ models' = IF IsBlock(q.user, Len(values)) THEN ParseBlock(models, q.user, values)
                        ELSE models
           /\ IF Publishes(q.user, values)
              THEN heard' = Event("model", q.user, models'[q.user]) /\ handedOver' = handedOver
              ELSE heard' = heard \/ heard'.kind \in {"none", "close", "connect"}
           /\ told' = IF Publishes(q.user, values) /\ Accepted(q.user, Len(values)) # <<>>
                      THEN Put(told, q.user, Accepted(q.user, Len(values))) ELSE told
<1>1. PICK result : result = OnResponse(waiting, response)
  OBVIOUS
<1>2. Lands(device, handedOver, result)
  BY <1>1, ResponseLands
<1>3. /\ response.user = q.user /\ response.unit = q.unit /\ response.size = Len(values)
      /\ response.words[1] \in Word /\ response.words[2] \in Word
      /\ q.user \in Word /\ q.unit \in Octet
  <2>1. values \in Seq(Word)
    BY AnsweredIs
  <2>2. q.user \in Word /\ q.unit \in Octet
    BY IdsAreOctets DEF Calls
  <2>3. message.values \in Seq(Word) /\ message.unit \in Octet /\ message.values = values
    BY <2>1, <2>2
  <2>4. response.words[1] \in Word /\ response.words[2] \in Word
    BY <2>2, <2>3, AbstractTyped, Zenon
  <2>5. response.user = q.user /\ response.unit = q.unit /\ response.size = Len(values)
    BY <2>3 DEF Abstract
  <2> QED BY <2>2, <2>4, <2>5
<1>4. /\ result.client.sunSpecId = IF q.user = CommonModel /\ Len(values) \in CommonLengths
                                   THEN q.unit ELSE client.sunSpecId
      /\ q.user # ReadHeader /\ Len(values) # 2 => result.event = "none"
  BY <1>1, <1>3, IdentifiedAs
<1>5. PICK event : event = IF Publishes(q.user, values) THEN "model" ELSE result.event
  OBVIOUS
<1>6. /\ client' = result.client
      /\ models' = IF IsBlock(q.user, Len(values)) THEN ParseBlock(models, q.user, values)
                   ELSE models
      /\ IF Publishes(q.user, values) THEN Hears("model", q.user, models'[q.user])
         ELSE IF result.event # "none" THEN Hears(result.event, 0, <<>>)
         ELSE UNCHANGED <<heard, handedOver, awaiting>>
      /\ told' = IF Publishes(q.user, values) /\ Accepted(q.user, Len(values)) # <<>>
                 THEN Put(told, q.user, Accepted(q.user, Len(values))) ELSE told
  BY <1>1, <1>3, Zenon DEF Respond, IsBlock, Publishes, CommonModel
<1>7. result.event \in {"none", "close", "connect"}
  <2>1. response.size \in Nat
    BY <1>3, AnsweredIs
  <2> QED BY <1>1, <1>3, <2>1, ResponseWaits
<1>8. Publishes(q.user, values) => result.event = "none"
  BY <1>4, Zenon DEF Publishes, IsBlock
<1>9. /\ handedOver' = (handedOver \/ result.event = "connect")
      /\ IF Publishes(q.user, values)
         THEN heard' = Event("model", q.user, models'[q.user]) /\ handedOver' = handedOver
         ELSE heard' = heard \/ heard'.kind \in {"none", "close", "connect"}
  <2>1. CASE Publishes(q.user, values)
    <3>1. heard' = Event("model", q.user, models'[q.user]) /\ handedOver' = (handedOver \/ "model" = "connect")
      BY <1>6, <2>1, Zenon DEF Hears
    <3>2. "model" # "connect" /\ "none" # "connect"
      OBVIOUS
    <3> QED BY <1>8, <2>1, <3>1, <3>2
  <2>2. CASE ~Publishes(q.user, values) /\ result.event # "none"
    <3>1. heard' = Event(result.event, 0, <<>>) /\ handedOver' = (handedOver \/ result.event = "connect")
      BY <1>6, <2>2, Zenon DEF Hears
    <3> QED BY <1>7, <2>2, <3>1 DEF Event
  <2>3. CASE ~Publishes(q.user, values) /\ result.event = "none"
    <3>1. "none" # "connect"
      OBVIOUS
    <3> QED BY <1>6, <2>3, <3>1
  <2> QED BY <2>1, <2>2, <2>3
<1>10. Directed(device, client', handedOver')
  <2>1. CASE result.event = "connect"
    BY <1>2, <1>6, <2>1, QuietDirected DEF Lands
  <2>2. CASE result.event # "connect"
    BY <1>2, <1>6, <1>9, <2>2 DEF Lands
  <2> QED BY <2>1, <2>2
<1> QED BY <1>4, <1>6, <1>9, <1>10

-----------------------------------------------------------------------------
(* What the models hold, with a standard device: the names of an identified  *)
(* device, and of each model with a factory the values of the last block it  *)
(* accepted.                                                                 *)

Identified(host, n, all) ==
    LET common == ValuesOf(all, CommonModel) IN
    IF n = 0 THEN "Manufacturer" \notin DOMAIN common
    ELSE /\ "Manufacturer" \in DOMAIN common
         /\ common.Manufacturer = host.names.manufacturer
         /\ common.Product = host.names.product /\ common.Serial = host.names.serial
Tells(all, tells, id) ==
    IF id \in DOMAIN tells
    THEN DOMAIN tells[id] = KeysOfModel(id) /\ IsReading(ValuesOf(all, id), tells[id])
    ELSE ValuesOf(all, id) = <<>>
AllTell(all, tells) == \A id \in ModelsWithFactory : Tells(all, tells, id)
Blank(all, tells) == DOMAIN tells = {} /\ \A id \in ModelsWithFactory : ValuesOf(all, id) = <<>>
Reads(all, event) ==
    event.kind = "model" => event.id \in ModelsWithFactory /\ event.values = ValuesOf(all, event.id)
Truth(host, h, n, all, tells, event) ==
    /\ Identified(host, n, all)
    /\ ~h => Blank(all, tells) /\ event.kind # "model"
    /\ n # 0 => AllTell(all, tells)
    /\ Reads(all, event)

VInv == Truth(device, handedOver, client.sunSpecId, models, told, heard)

LEMMA NotCommon == CommonModel \notin ModelsWithFactory
BY DEF CommonModel, ModelsWithFactory, Inverters, Mppt, WyeMeter

Onward(h, after) == h => after

(* A handler that parses nothing.                                            *)
LEMMA QuietTruth ==
    ASSUME NEW host, NEW h, NEW n, NEW all, NEW tells, NEW event,
           Truth(host, h, n, all, tells, event), NEW next,
           next = event \/ next.kind # "model", NEW after, Onward(h, after)
    PROVE  Truth(host, after, n, all, tells, next)
BY Zenon DEF Truth, Reads, Onward

LEMMA ParsedIs ==
    ASSUME NEW all, NEW id, NEW values, NEW after, after = ParseBlock(all, id, values)
    PROVE  /\ id = CommonModel =>
                 /\ ValuesOf(after, CommonModel) = CommonValues(ValuesOf(all, CommonModel), values)
                 /\ \A other : other # CommonModel => ValuesOf(after, other) = ValuesOf(all, other)
           /\ id # CommonModel /\ IsPublished(id, values) =>
                 /\ ValuesOf(after, id) = FactoryOf(all, id, values)
                 /\ after[id] = FactoryOf(all, id, values)
                 /\ \A other : other # id => ValuesOf(after, other) = ValuesOf(all, other)
           /\ id # CommonModel /\ ~IsPublished(id, values) => after = all
<1>1. ASSUME NEW map, NEW key, NEW value, NEW put, put = Put(map, key, value)
      PROVE  /\ ValuesOf(put, key) = value /\ put[key] = value
             /\ \A other : other # key => ValuesOf(put, other) = ValuesOf(map, other)
  BY <1>1 DEF Put, With, ValuesOf
<1>2. CASE id = CommonModel
  <2>1. after = Put(all, CommonModel, CommonValues(ValuesOf(all, CommonModel), values))
    BY <1>2, Zenon DEF ParseBlock, CommonModel
  <2> QED BY <1>1, <1>2, <2>1
<1>3. CASE id # CommonModel /\ IsPublished(id, values)
  <2>1. PICK first : first = Put(all, CommonModel, ValuesOf(all, CommonModel))
    OBVIOUS
  <2>2. after = Put(first, id, FactoryOf(all, id, values))
    BY <1>3, <2>1, Zenon DEF ParseBlock, CommonModel
  <2>3. /\ ValuesOf(after, id) = FactoryOf(all, id, values)
        /\ after[id] = FactoryOf(all, id, values)
        /\ \A other : other # id => ValuesOf(after, other) = ValuesOf(first, other)
    BY <1>1, <2>2
  <2>4. \A other : ValuesOf(first, other) = ValuesOf(all, other)
    BY <1>1, <2>1
  <2> QED BY <1>3, <2>3, <2>4
<1>4. CASE id # CommonModel /\ ~IsPublished(id, values)
  BY <1>4, Zenon DEF ParseBlock, CommonModel
<1> QED BY <1>2, <1>3, <1>4

(* The names in the common model, all of it or none.                         *)
LEMMA NamesAreRead ==
    ASSUME NEW old, NEW values \in Seq(Word), Len(values) \in CommonLengths,
           NEW names, HasNames(values, names),
           NEW new, new = CommonValues(old, values)
    PROVE  /\ "Manufacturer" \in DOMAIN new /\ new.Manufacturer = names.manufacturer
           /\ new.Product = names.product /\ new.Serial = names.serial
<1>1. Len(values) \in {65, 66}
  BY LengthsOfTheCode
<1>2. PICK a, b, c : /\ a = ReadString(values, 0, 16) /\ b = ReadString(values, 16, 16)
                     /\ c = ReadString(values, 48, 16)
  OBVIOUS
<1>3. PICK read : read = [Manufacturer |-> a, Product |-> b,
                          Options |-> ReadString(values, 32, 8),
                          Version |-> ReadString(values, 40, 8), Serial |-> c]
  OBVIOUS
<1>4. new = With(old, read)
  BY <1>1, <1>2, <1>3, Zenon DEF CommonValues
<1>5. /\ "Manufacturer" \in DOMAIN new /\ new.Manufacturer = a
      /\ new.Product = b /\ new.Serial = c
  <2>1. /\ DOMAIN read = {"Manufacturer", "Product", "Options", "Version", "Serial"}
        /\ read.Manufacturer = a /\ read.Product = b /\ read.Serial = c
    BY <1>3
  <2> HIDE <1>2, <1>3
  <2> QED BY <1>4, <2>1 DEF With
<1>6. /\ IsText(SubSeq(values, 1, 16), names.manufacturer)
      /\ IsText(SubSeq(values, 17, 32), names.product)
      /\ IsText(SubSeq(values, 49, 64), names.serial)
  BY Zenon DEF HasNames
<1>7. /\ SubSeq(values, 1, 16) \in Seq(Word) /\ SubSeq(values, 17, 32) \in Seq(Word)
      /\ SubSeq(values, 49, 64) \in Seq(Word)
  <2>1. Len(values) >= 64
    <3>1. CASE Len(values) = 65
      BY <3>1
    <3>2. CASE Len(values) = 66
      BY <3>2
    <3> QED BY <1>1, <3>1, <3>2, Zenon
  <2> HIDE <1>1
  <2>2. SubSeq(values, 1, 16) \in Seq(Word)
    BY <2>1
  <2>3. SubSeq(values, 17, 32) \in Seq(Word)
    BY <2>1
  <2>4. SubSeq(values, 49, 64) \in Seq(Word)
    BY <2>1
  <2> QED BY <2>2, <2>3, <2>4
<1>8. a = names.manufacturer
  <2>1. SubSeq(values, 0 + 1, 0 + 16) = SubSeq(values, 1, 16)
    OBVIOUS
  <2> QED BY <1>2, <1>6, <1>7, <2>1, NameIsRead
<1>9. b = names.product
  <2>1. SubSeq(values, 16 + 1, 16 + 16) = SubSeq(values, 17, 32)
    OBVIOUS
  <2> QED BY <1>2, <1>6, <1>7, <2>1, NameIsRead
<1>10. c = names.serial
  <2>1. SubSeq(values, 48 + 1, 48 + 16) = SubSeq(values, 49, 64)
    OBVIOUS
  <2> QED BY <1>2, <1>6, <1>7, <2>1, NameIsRead
<1> QED BY <1>5, <1>8, <1>9, <1>10

(* An answer that is a block is the common model, or a block of the table.   *)
LEMMA BlockIsAsked ==
    ASSUME NEW host \in Devices, IsStandard(host), NEW c, NEW h, NEW q \in Calls,
           Asks(host, c, h, q), NEW s, Answers(host, h, s, q), s.answer.exception = NoException,
           NEW values, values = s.answer.values, IsBlock(q.user, Len(values))
    PROVE  AsksCommon(host, c, h, q) \/ AsksBlock(host, h, q)
<1>1. /\ s.time \in DOMAIN host.at
      /\ IsThere(host.at[s.time].memory, q.address, q.length)
      /\ Len(values) \in 1 .. q.length
      /\ Len(values) = q.length \/ (Len(values) \in {2, 47} /\ Len(values) < q.length)
  BY AnsweredIs
<1>2. ~AsksHeader(c, h, q)
  BY Zenon DEF AsksHeader, IsBlock
<1>3. ~AsksEntry(host, h, q)
  <2>1. q.length = 2 => Len(values) = 2
    BY <1>1, FewOf
  <2> QED BY <2>1, Zenon DEF AsksEntry, IsBlock
<1>4. ~Nowhere(host, q.address, q.length)
  BY <1>1, Zenon DEF Nowhere
<1> QED BY <1>2, <1>3, <1>4, Zenon DEF Asks

Unpublished(event, next) == next = event \/ next.kind # "model"
UnitAfter(size, unit, n) == IF size \in CommonLengths THEN unit ELSE n
ToldAfter(tells, id, values, accepted) ==
    IF Publishes(id, values) /\ accepted # <<>> THEN Put(tells, id, accepted) ELSE tells
HeardAfter(event, next, id, values, after) ==
    IF Publishes(id, values) THEN next = Event("model", id, after[id])
    ELSE next = event \/ next.kind # "model"

LEMMA CommonTruth ==
    ASSUME NEW host \in Devices, IsStandard(host), NEW c, NEW h, NEW q \in Calls,
           AsksCommon(host, c, h, q), NEW s, Answers(host, h, s, q),
           s.answer.exception = NoException, NEW values, values = s.answer.values,
           Len(values) # 2, NEW unit, unit # 0,
           NEW all, NEW tells, NEW event, Truth(host, h, c.sunSpecId, all, tells, event),
           NEW n, n = UnitAfter(Len(values), unit, c.sunSpecId),
           NEW after, after = ParseBlock(all, CommonModel, values),
           NEW next, Unpublished(event, next), NEW handed, Onward(h, handed)
    PROVE  Truth(host, handed, n, after, tells, next)
<1>1. /\ ~h /\ c.sunSpecId = 0 /\ q.address = CommonAddress /\ q.length = CommonLengthOf(host)
      /\ s.time = 1
  BY Zenon DEF AsksCommon, Answers
<1>2. PICK old, new : /\ old = ValuesOf(all, CommonModel) /\ new = ValuesOf(after, CommonModel)
                      /\ new = CommonValues(old, values)
                      /\ \A other : other # CommonModel => ValuesOf(after, other) = ValuesOf(all, other)
  BY ParsedIs
<1>3. Blank(after, tells) /\ next.kind # "model"
  <2>1. Blank(all, tells) /\ event.kind # "model"
    BY <1>1, Zenon DEF Truth
  <2> QED BY <1>2, <2>1, NotCommon, Zenon DEF Blank, Unpublished
<1>4. /\ values \in Seq(Word) /\ Len(values) \in 1 .. q.length
      /\ Len(values) = q.length \/ (Len(values) \in {2, 47} /\ Len(values) < q.length)
      /\ values = RegistersAt(host.at[1].memory, CommonAddress, Len(values))
  BY <1>1, AnsweredIs
<1>5. CASE Len(values) \in CommonLengths
  <2>1. Len(values) = CommonLengthOf(host)
    <3>1. Len(values) # 47
      <4>1. 47 \notin {65, 66}
        OBVIOUS
      <4> QED BY <1>5, <4>1, LengthsOfTheCode, Zenon
    <3> QED BY <1>1, <1>4, <3>1
  <2>2. HasNames(values, host.names)
    <3>1. values = RegistersAt(host.at[1].memory, CommonAddress, CommonLengthOf(host))
      BY <1>4, <2>1
    <3> QED BY <3>1, Zenon DEF IsStandard, HasTable
  <2>3. /\ "Manufacturer" \in DOMAIN new /\ new.Manufacturer = host.names.manufacturer
        /\ new.Product = host.names.product /\ new.Serial = host.names.serial
    <3>1. PICK names : names = host.names
      OBVIOUS
    <3> HIDE <1>1, <2>1
    <3> QED BY <1>2, <1>4, <1>5, <2>2, <3>1, NamesAreRead
  <2>4. n # 0
    BY <1>5 DEF UnitAfter
  <2>5. Identified(host, n, after)
    BY <1>2, <2>3, <2>4, Zenon DEF Identified
  <2>6. AllTell(after, tells)
    BY <1>3, Zenon DEF AllTell, Tells, Blank
  <2> QED BY <1>3, <2>5, <2>6, Zenon DEF Truth, Reads
<1>6. CASE Len(values) \notin CommonLengths
  <2>1. n = 0
    BY <1>1, <1>6 DEF UnitAfter
  <2>2. new = old
    <3>1. Len(values) \notin {65, 66}
      BY <1>6, LengthsOfTheCode
    <3> QED BY <1>2, <3>1, Zenon DEF CommonValues
  <2>3. "Manufacturer" \notin DOMAIN old
    BY <1>1, <1>2, Zenon DEF Truth, Identified
  <2>4. Identified(host, n, after)
    BY <1>2, <2>1, <2>2, <2>3, Zenon DEF Identified
  <2> QED BY <1>3, <2>1, <2>4, Zenon DEF Truth, Reads
<1> QED BY <1>5, <1>6

(* What a factory makes of the block an identified device answered with.     *)
LEMMA BlockFits ==
    ASSUME NEW host \in Devices, IsStandard(host), NEW h, NEW q \in Calls,
           AsksBlock(host, h, q), NEW s, Answers(host, h, s, q),
           s.answer.exception = NoException, NEW values, values = s.answer.values,
           Len(values) # 2, q.user \in ModelsWithFactory,
           NEW n, n # 0, NEW all, Identified(host, n, all),
           NEW old, old = ValuesOf(all, q.user), DOMAIN old \subseteq KeysOfModel(q.user)
    PROVE  FactoryFits(q.user, AcceptedOf(host.at[s.time].blocks[q.user], q.user, Len(values)),
                       old, FactoryOf(all, q.user, values))
<1>1. PICK id, memory, block : /\ id = q.user /\ memory = host.at[s.time].memory
                               /\ block = host.at[s.time].blocks[q.user]
  OBVIOUS
<1>2. PICK whole : whole = RegistersAt(memory, block.address, block.length)
  OBVIOUS
<1>3. PICK elgris \in BOOLEAN : elgris <=> host.names.manufacturer = Elgris
  <2>1. (host.names.manufacturer = Elgris) \in BOOLEAN
    OBVIOUS
  <2> QED BY <2>1
<1>4. /\ s.time \in DOMAIN host.at /\ Len(values) \in 1 .. q.length
      /\ Len(values) = q.length \/ (Len(values) \in {2, 47} /\ Len(values) < q.length)
      /\ values = RegistersAt(memory, q.address, Len(values))
  BY <1>1, AnsweredIs
<1>5. /\ id \in DOMAIN Blocks(host) /\ q.address = Blocks(host)[id].address
      /\ q.length = ReadableLength(id, Blocks(host)[id].length)
  BY <1>1 DEF AsksBlock, Listed
<1>6. /\ block.address = Blocks(host)[id].address /\ block.length = Blocks(host)[id].length
      /\ block.address + block.length <= HeaderAddress + Len(memory)
      /\ IF host.names.manufacturer = Elgris THEN ElgrisStandsFor(id, whole, block.says)
         ELSE StandsFor(id, whole, block.says)
  BY <1>1, <1>2, <1>4, <1>5, Zenon DEF IsStandard, HasBlocks
<1>7. IF elgris THEN ElgrisStandsFor(id, whole, block.says) ELSE StandsFor(id, whole, block.says)
  BY <1>3, <1>6, Zenon
<1>8. PICK address, length : address = block.address /\ length = block.length
  OBVIOUS
<1>9. /\ address \in Word /\ length \in Nat /\ address >= HeaderAddress
      /\ address - HeaderAddress + length <= Len(memory)
      /\ memory \in Seq(Word)
  <2>1. memory \in Seq(Word)
    BY <1>1, <1>4, MemoryTyped
  <2>2. address \in Word /\ length \in Word /\ address - 2 >= HeaderAddress
    BY <1>5, <1>6, <1>8, BlockBounded
  <2>3. address + length <= HeaderAddress + Len(memory)
    BY <1>6, <1>8
  <2>4. HeaderAddress \in Nat /\ Len(memory) \in Nat
    BY <2>1, AddressAssumption
  <2> QED BY <2>1, <2>2, <2>3, <2>4 DEF Word
<1>10. PICK size : size = Len(values)
  OBVIOUS
<1>11. /\ size \in 0 .. length
       /\ size = ReadableLength(id, length) \/ size = 47
  <2>1. PICK l : l = ReadableLength(id, length)
    OBVIOUS
  <2>2. l <= length /\ l \in Nat
    BY <1>9, <2>1, Readable
  <2>3. q.length = l
    BY <1>5, <1>6, <1>8, <2>1
  <2>4. size \in 1 .. l /\ (size = l \/ size \in {2, 47}) /\ size # 2
    BY <1>4, <1>10, <2>3
  <2>5. size \in 0 .. length
    BY <1>9, <2>2, <2>4
  <2> QED BY <2>1, <2>4, <2>5
<1>12. /\ whole \in Seq(Word) /\ Len(whole) = length
       /\ values \in Seq(Word) /\ Len(values) = size /\ values = SubSeq(whole, 1, size)
       /\ \A i \in 0 .. size - 1 : At(values, i) = At(whole, i)
  <2>1. whole = RegistersAt(memory, address, length)
    BY <1>2, <1>8
  <2>2. values = RegistersAt(memory, address, size)
    BY <1>4, <1>5, <1>6, <1>8, <1>10
  <2>3. size \in 0 .. length
    BY <1>11
  <2> HIDE <1>1, <1>2, <1>4, <1>8, <1>10
  <2> QED BY <1>9, <2>1, <2>2, <2>3, PartOf
<1>13. IsElgris(all) <=> elgris
  BY <1>3, Zenon DEF Identified, IsElgris, CommonModel
<1>14. FactoryFits(id, AcceptedOf(block, id, size), old, FactoryOf(all, id, values))
  <2>1. block.length = Len(whole) /\ size \in 0 .. Len(whole)
    BY <1>8, <1>11, <1>12
  <2>2. size = ReadableLength(id, Len(whole)) \/ size = 47
    BY <1>11, <1>12
  <2>3. id \in ModelsWithFactory /\ old = ValuesOf(all, id) /\ DOMAIN old \subseteq KeysOfModel(id)
    BY <1>1
  <2> HIDE <1>1, <1>2, <1>3, <1>4, <1>8, <1>10
  <2> QED BY <1>7, <1>12, <1>13, <2>1, <2>2, <2>3, FactoryIs
<1> QED BY <1>1, <1>10, <1>14

OthersStay(all, after, id) == \A other : other # id => ValuesOf(after, other) = ValuesOf(all, other)
Records(tells, id, accepted, after) ==
    /\ accepted # <<>> => after = Put(tells, id, accepted)
    /\ accepted = <<>> => after = tells

LEMMA BlockTells ==
    ASSUME NEW all, NEW after, NEW tells, NEW told2, NEW id \in ModelsWithFactory, NEW accepted,
           FactoryFits(id, accepted, ValuesOf(all, id), ValuesOf(after, id)),
           OthersStay(all, after, id), Records(tells, id, accepted, told2), AllTell(all, tells)
    PROVE  AllTell(after, told2)
<1>1. CASE accepted = <<>>
  <2>1. told2 = tells /\ ValuesOf(after, id) = ValuesOf(all, id)
    BY <1>1, Zenon DEF FactoryFits, Records
  <2> QED BY <2>1, Zenon DEF Tells, AllTell, OthersStay
<1>2. CASE accepted # <<>>
  <2>1. told2 = Put(tells, id, accepted)
    BY <1>2, Zenon DEF Records
  <2>2. /\ DOMAIN told2 = DOMAIN tells \cup {id} /\ told2[id] = accepted
        /\ \A other \in DOMAIN tells \ {id} : told2[other] = tells[other]
    BY <2>1 DEF Put, With
  <2>3. Tells(after, told2, id)
    BY <1>2, <2>2, Zenon DEF FactoryFits, Tells
  <2>4. ASSUME NEW other \in ModelsWithFactory, other # id PROVE Tells(after, told2, other)
    <3>1. ValuesOf(after, other) = ValuesOf(all, other) /\ Tells(all, tells, other)
      BY <2>4, Zenon DEF OthersStay, AllTell
    <3>2. /\ other \in DOMAIN told2 <=> other \in DOMAIN tells
          /\ other \in DOMAIN tells => told2[other] = tells[other]
      BY <2>2, <2>4
    <3> QED BY <3>1, <3>2, Zenon DEF Tells
  <2> QED BY <2>3, <2>4, Zenon DEF AllTell
<1> QED BY <1>1, <1>2

LEMMA BlockTruth ==
    ASSUME NEW host \in Devices, IsStandard(host), NEW h, NEW q \in Calls,
           AsksBlock(host, h, q), NEW s, Answers(host, h, s, q),
           s.answer.exception = NoException, NEW values, values = s.answer.values,
           Len(values) # 2, NEW n, NEW all, NEW tells, NEW event, Truth(host, h, n, all, tells, event),
           NEW after, after = ParseBlock(all, q.user, values),
           NEW accepted,
           accepted = AcceptedOf(host.at[s.time].blocks[q.user], q.user, Len(values)),
           NEW told2, told2 = ToldAfter(tells, q.user, values, accepted),
           NEW next, HeardAfter(event, next, q.user, values, after),
           NEW handed, Onward(h, handed)
    PROVE  Truth(host, handed, n, after, told2, next)
<1>1. PICK id : id = q.user
  OBVIOUS
<1>2. h /\ id \in DOMAIN Blocks(host)
  BY <1>1, Zenon DEF AsksBlock, Listed
<1>3. id # CommonModel /\ id # ReadHeader
  BY <1>2, BlockBounded
<1>4. IsBlock(id, Len(values)) /\ (Publishes(id, values) <=> IsPublished(id, values))
  BY <1>3, Zenon DEF IsBlock, Publishes
<1>7. after = ParseBlock(all, id, values)
  BY <1>1
<1>8. /\ IsPublished(id, values) =>
            /\ ValuesOf(after, id) = FactoryOf(all, id, values)
            /\ after[id] = FactoryOf(all, id, values)
            /\ \A other : other # id => ValuesOf(after, other) = ValuesOf(all, other)
      /\ ~IsPublished(id, values) => after = all
  <2> HIDE <1>1
  <2> QED BY <1>3, <1>7, ParsedIs
<1>5. CASE ~Publishes(id, values)
  <2>1. after = all /\ told2 = tells /\ (next = event \/ next.kind # "model")
    BY <1>1, <1>4, <1>5, <1>8, Zenon DEF ToldAfter, HeardAfter
  <2>2. Truth(host, handed, n, all, tells, next)
    BY <2>1, QuietTruth, Zenon
  <2> QED BY <2>1, <2>2, Zenon
<1>6. CASE Publishes(id, values)
  <2>1. id \in ModelsWithFactory
    BY <1>4, <1>6, Zenon DEF IsPublished
  <2>2. /\ ValuesOf(after, id) = FactoryOf(all, id, values) /\ after[id] = FactoryOf(all, id, values)
        /\ \A other : other # id => ValuesOf(after, other) = ValuesOf(all, other)
    BY <1>4, <1>6, <1>8, Zenon
  <2>3. Reads(after, next)
    <3>1. next = Event("model", id, after[id])
      BY <1>1, <1>6, Zenon DEF HeardAfter
    <3>2. next.id = id /\ next.values = after[id]
      BY <3>1 DEF Event
    <3> QED BY <2>1, <2>2, <3>2 DEF Reads
  <2>4. Identified(host, n, after)
    <3>1. ValuesOf(after, CommonModel) = ValuesOf(all, CommonModel)
      BY <1>3, <2>2
    <3>2. Identified(host, n, all)
      BY Zenon DEF Truth
    <3> QED BY <3>1, <3>2, Zenon DEF Identified
  <2>5. ASSUME n # 0 PROVE AllTell(after, told2)
    <3>1. AllTell(all, tells)
      BY <2>5, Zenon DEF Truth
    <3>2. Identified(host, n, all)
      BY Zenon DEF Truth
    <3>3. PICK old : old = ValuesOf(all, id)
      OBVIOUS
    <3>4. DOMAIN old \subseteq KeysOfModel(id)
      <4>1. Tells(all, tells, id)
        BY <2>1, <3>1, Zenon DEF AllTell
      <4>2. CASE id \in DOMAIN tells
        BY <3>3, <4>1, <4>2, Zenon DEF Tells, IsReading
      <4>3. CASE id \notin DOMAIN tells
        <5>1. old = <<>>
          BY <3>3, <4>1, <4>3 DEF Tells
        <5>2. DOMAIN <<>> = {}
          OBVIOUS
        <5> QED BY <5>1, <5>2
      <4> QED BY <4>2, <4>3
    <3>5. FactoryFits(id, accepted, old, FactoryOf(all, id, values))
      BY <1>1, <2>1, <2>5, <3>2, <3>3, <3>4, BlockFits
    <3>6. FactoryFits(id, accepted, ValuesOf(all, id), ValuesOf(after, id))
      BY <2>2, <3>3, <3>5
    <3>7. Records(tells, id, accepted, told2) /\ OthersStay(all, after, id)
      BY <1>1, <1>6, <2>2, Zenon DEF Records, OthersStay, ToldAfter
    <3> HIDE <1>1
    <3> QED BY <2>1, <3>1, <3>6, <3>7, BlockTells
  <2> QED BY <1>2, <2>3, <2>4, <2>5, Zenon DEF Truth, Onward
<1> QED BY <1>1, <1>5, <1>6

-----------------------------------------------------------------------------
(* The steps, of a standard device.                                          *)

LEMMA ExceptTruth ==
    ASSUME VInv, device' = device, client'.sunSpecId = client.sunSpecId, handedOver' = handedOver,
           heard' = heard \/ heard'.kind \in {"close", "exception"},
           models' = models, told' = told
    PROVE  VInv'
<1>1. heard' = heard \/ heard'.kind # "model"
  <2>1. "close" # "model" /\ "exception" # "model"
    OBVIOUS
  <2> QED BY <2>1
<1>2. Truth(device, handedOver', client.sunSpecId, models, told, heard')
  <2>1. PICK after, next : after = handedOver' /\ next = heard'
    OBVIOUS
  <2>2. /\ Truth(device, handedOver, client.sunSpecId, models, told, heard)
        /\ next = heard \/ next.kind # "model"
        /\ Onward(handedOver, after)
    BY <1>1, <2>1, Zenon DEF VInv, Onward
  <2>3. Truth(device, after, client.sunSpecId, models, told, next)
    <3> HIDE <1>1, <2>1
    <3> QED BY <2>2, QuietTruth
  <2> QED BY <2>1, <2>3, Zenon
<1> QED BY <1>2, Zenon DEF VInv

LEMMA RespondTruth ==
    ASSUME VInv, device' = device, device \in Devices, IsStandard(device),
           NEW q \in Calls, NEW waiting, waiting.sunSpecId = client.sunSpecId,
           Asks(device, waiting, handedOver, q),
           Answers(device, handedOver, said, q), said.answer.exception = NoException,
           NEW values, values = said.answer.values,
           Onward(handedOver, handedOver'),
           client'.sunSpecId = IF q.user = CommonModel /\ Len(values) \in CommonLengths
                               THEN q.unit ELSE client.sunSpecId,
           models' = IF IsBlock(q.user, Len(values)) THEN ParseBlock(models, q.user, values)
                     ELSE models,
           IF Publishes(q.user, values)
           THEN heard' = Event("model", q.user, models'[q.user])
           ELSE heard' = heard \/ heard'.kind \in {"none", "close", "connect"},
           told' = IF Publishes(q.user, values) /\ Accepted(q.user, Len(values)) # <<>>
                   THEN Put(told, q.user, Accepted(q.user, Len(values))) ELSE told
    PROVE  VInv'
<1>1. Truth(device, handedOver, waiting.sunSpecId, models, told, heard)
  BY Zenon DEF VInv
<1>2. ASSUME ~Publishes(q.user, values) PROVE heard' = heard \/ heard'.kind # "model"
  <2>1. "close" # "model" /\ "connect" # "model" /\ "none" # "model"
    OBVIOUS
  <2>2. heard' = heard \/ heard'.kind \in {"none", "close", "connect"}
    BY <1>2, Zenon
  <2> QED BY <2>1, <2>2
<1>3. CommonModel # ReadHeader /\ 2 \notin CommonLengths
  BY Numbers, LengthAssumption
<1>4. CASE ~IsBlock(q.user, Len(values))
  <2>1. ~Publishes(q.user, values)
    BY <1>4, Zenon DEF Publishes
  <2>2. ~(q.user = CommonModel /\ Len(values) \in CommonLengths)
    BY <1>3, <1>4, Zenon DEF IsBlock
  <2>3. models' = models /\ told' = told /\ client'.sunSpecId = waiting.sunSpecId
    BY <1>4, <2>1, <2>2, Zenon
  <2>4. Truth(device, handedOver', waiting.sunSpecId, models, told, heard')
    BY <1>1, <1>2, <2>1, QuietTruth, Zenon
  <2> QED BY <2>3, <2>4, Zenon DEF VInv
<1>5. CASE IsBlock(q.user, Len(values)) /\ q.user = CommonModel
  <2>1. AsksCommon(device, waiting, handedOver, q)
    <3>1. ~AsksBlock(device, handedOver, q)
      BY <1>5, BlockBounded, Zenon DEF AsksBlock, Listed
    <3> QED BY <1>5, <3>1, BlockIsAsked, Zenon
  <2>2. ~Publishes(q.user, values)
    BY <1>5, Zenon DEF Publishes
  <2>3. models' = ParseBlock(models, CommonModel, values) /\ told' = told
    BY <1>5, <2>2, Zenon
  <2>4. client'.sunSpecId = IF Len(values) \in CommonLengths THEN q.unit ELSE waiting.sunSpecId
    BY <1>5, Zenon
  <2>5. q.unit # 0 /\ Len(values) # 2
    <3>1. q.unit \in Ids
      BY DEF Calls
    <3> QED BY <1>5, <3>1, IdsAreOctets, Zenon DEF IsBlock
  <2>6. heard' = heard \/ heard'.kind # "model"
    BY <1>2, <2>2
  <2>7. PICK n, after, next, handed, unit :
           /\ n = client'.sunSpecId /\ after = models' /\ next = heard' /\ handed = handedOver'
           /\ unit = q.unit
    OBVIOUS
  <2>8. /\ n = UnitAfter(Len(values), unit, waiting.sunSpecId)
        /\ after = ParseBlock(models, CommonModel, values) /\ unit # 0
        /\ Unpublished(heard, next) /\ Onward(handedOver, handed)
    BY <2>3, <2>4, <2>5, <2>6, <2>7, Zenon DEF UnitAfter, Unpublished
  <2>9. Truth(device, handed, n, after, told, next)
    <3> HIDE <1>2, <1>3, <1>5, <2>3, <2>4, <2>7
    <3> QED BY <1>1, <2>1, <2>5, <2>8, CommonTruth
  <2> QED BY <2>3, <2>7, <2>9, Zenon DEF VInv
<1>6. CASE IsBlock(q.user, Len(values)) /\ q.user # CommonModel
  <2>1. AsksBlock(device, handedOver, q)
    <3>1. ~AsksCommon(device, waiting, handedOver, q)
      BY <1>6, Zenon DEF AsksCommon
    <3> QED BY <1>6, <3>1, BlockIsAsked, Zenon
  <2>2. client'.sunSpecId = waiting.sunSpecId /\ Len(values) # 2
    BY <1>6, Zenon DEF IsBlock
  <2>3. PICK after, told2, next, handed, accepted :
           /\ after = models' /\ told2 = told' /\ next = heard' /\ handed = handedOver'
           /\ accepted = Accepted(q.user, Len(values))
    OBVIOUS
  <2>4. /\ after = ParseBlock(models, q.user, values)
        /\ accepted = AcceptedOf(device.at[said.time].blocks[q.user], q.user, Len(values))
        /\ told2 = ToldAfter(told, q.user, values, accepted)
        /\ HeardAfter(heard, next, q.user, values, after)
        /\ Onward(handedOver, handed)
    <3>1. after = ParseBlock(models, q.user, values)
      BY <1>6, <2>3, Zenon
    <3>2. accepted = AcceptedOf(device.at[said.time].blocks[q.user], q.user, Len(values))
      BY <2>3, Zenon DEF Accepted, AcceptedOf
    <3>3. told2 = ToldAfter(told, q.user, values, accepted)
      BY <2>3, Zenon DEF ToldAfter
    <3>4. HeardAfter(heard, next, q.user, values, after)
      BY <1>2, <2>3, Zenon DEF HeardAfter
    <3> QED BY <2>3, <3>1, <3>2, <3>3, <3>4, Zenon
  <2>5. Truth(device, handed, waiting.sunSpecId, after, told2, next)
    <3> HIDE <1>2, <1>3, <1>6, <2>3
    <3> QED BY <1>1, <2>1, <2>2, <2>4, BlockTruth
  <2> QED BY <2>2, <2>3, <2>5, Zenon DEF VInv
<1> QED BY <1>4, <1>5, <1>6

LEMMA HeardNothing ==
    ASSUME NEW answer, Heard(answer) = NoException
    PROVE  answer.exception = NoException
BY DEF Heard, NegativeAcknowledge, UnknownException, NoException

(* The client is given all of an answer.                                     *)
LEMMA DeliverTurns ==
    ASSUME FInv, PInv, VInv, IsStandard(device), device' = device,
           NEW q \in Calls, client.pending = <<q>>, request = <<>>, Said(said.answer),
           NEW message, message = [tid |-> tid, unit |-> q.unit, values |-> said.answer.values,
                                   exception |-> Heard(said.answer)],
           Deliver(message)
    PROVE  Directed(device, client', handedOver') /\ VInv'
<1>1. client \in Fields /\ client.unitId # 0 /\ device \in Devices /\ handedOver \in BOOLEAN
  BY DEF FInv, Waits, Types
<1>2. Tail(client.pending) = <<>> /\ Head(client.pending) = q
  OBVIOUS
<1>3. PICK waiting : waiting = [client EXCEPT !.pending = <<>>]
  OBVIOUS
<1>4. /\ waiting \in Fields /\ waiting.pending = <<>> /\ waiting.unitId # 0
      /\ waiting.sunSpecId = client.sunSpecId /\ SameTable(waiting, client)
  <2>1. <<>> \in Seq(Calls)
    OBVIOUS
  <2> HIDE <1>2
  <2> QED BY <1>1, <1>3, <2>1 DEF Fields, SameTable
<1>5. Directs(device, waiting) /\ Asks(device, waiting, handedOver, q)
  <2>1. Directs(device, client) /\ Asks(device, client, handedOver, q)
    BY Zenon DEF PInv, Directed
  <2> QED BY <1>4, <2>1, SameDirects, SameAsks, Zenon
<1>6. Answers(device, handedOver, said, q)
  BY Zenon DEF PInv
<1>7. PICK values : values = said.answer.values
  OBVIOUS
<1>8. /\ message.tid = tid /\ message.unit = q.unit /\ message.values = said.answer.values
      /\ message.exception = Heard(said.answer)
  OBVIOUS
<1>9. IF message.exception # NoException THEN Except(waiting)
      ELSE Respond(waiting, Abstract(message, q.user), message.values)
  <2>1. waiting = [client EXCEPT !.pending = Tail(client.pending)]
    BY <1>2, <1>3, Zenon
  <2> QED BY <1>2, <1>8, <2>1, Zenon DEF Deliver
<1>10. CASE message.exception # NoException
  <2>1. Except(waiting)
    BY <1>9, <1>10, Zenon
  <2>2. /\ Directed(device, client', handedOver')
        /\ client'.sunSpecId = client.sunSpecId /\ handedOver' = handedOver
        /\ heard' = heard \/ heard'.kind \in {"close", "exception"}
        /\ models' = models /\ told' = told
    BY <1>1, <1>4, <1>5, <2>1, ExceptTurns
  <2> QED BY <2>2, ExceptTruth
<1>11. CASE message.exception = NoException
  <2>1. PICK response : response = Abstract(message, q.user)
    OBVIOUS
  <2>2. Respond(waiting, response, values)
    BY <1>7, <1>8, <1>9, <1>11, <2>1, Zenon
  <2>3. said.answer.exception = NoException
    BY <1>8, <1>11, HeardNothing, Zenon
  <2>4. /\ Directed(device, client', handedOver')
        /\ handedOver => handedOver'
        /\ client'.sunSpecId = IF q.user = CommonModel /\ Len(values) \in CommonLengths
                               THEN q.unit ELSE client.sunSpecId
        /\ models' = IF IsBlock(q.user, Len(values)) THEN ParseBlock(models, q.user, values)
                     ELSE models
        /\ IF Publishes(q.user, values)
           THEN heard' = Event("model", q.user, models'[q.user]) /\ handedOver' = handedOver
           ELSE heard' = heard \/ heard'.kind \in {"none", "close", "connect"}
        /\ told' = IF Publishes(q.user, values) /\ Accepted(q.user, Len(values)) # <<>>
                   THEN Put(told, q.user, Accepted(q.user, Len(values))) ELSE told
    <3> HIDE <1>2, <1>3, <1>9
    <3> QED BY <1>1, <1>4, <1>5, <1>6, <1>7, <1>8, <2>1, <2>2, <2>3, RespondTurns
  <2>5. Onward(handedOver, handedOver')
    BY <2>4, Zenon DEF Onward
  <2>6. IF Publishes(q.user, values) THEN heard' = Event("model", q.user, models'[q.user])
        ELSE heard' = heard \/ heard'.kind \in {"none", "close", "connect"}
    BY <2>4, Zenon
  <2>7. VInv'
    BY <1>1, <1>4, <1>5, <1>6, <1>7, <2>3, <2>4, <2>5, <2>6, RespondTruth
  <2> QED BY <2>4, <2>7
<1> QED BY <1>10, <1>11

LEMMA CollectTurns ==
    ASSUME FInv, PInv, VInv, IsStandard(device), FInv', NEW n \in 1 .. Len(incoming), Collect(n)
    PROVE  PInv' /\ VInv'
<1>1. PICK q \in Calls :
         /\ client.pending = <<q>> /\ Answering(q)
         /\ \/ /\ incoming' = <<>> /\ readBuffer' = <<>>
               /\ \E message :
                     /\ message = [tid |-> tid, unit |-> q.unit, values |-> said.answer.values,
                                   exception |-> Heard(said.answer)]
                     /\ Deliver(message)
            \/ /\ incoming' \in Seq(Octet) /\ incoming' # <<>> /\ readBuffer' \in Seq(Octet)
               /\ readBuffer' \o incoming' = readBuffer \o incoming
               /\ UNCHANGED <<client, models, tid, request, handedOver, heard, awaiting,
                              measured, said, told, seen>>
  BY CollectCases
<1>2. device' = device
  BY DEF Collect
<1>3. request = <<>> /\ Said(said.answer)
  BY <1>1 DEF Answering
<1>4. CASE incoming' = <<>>
  <2>1. PICK message :
           /\ message = [tid |-> tid, unit |-> q.unit, values |-> said.answer.values,
                         exception |-> Heard(said.answer)]
           /\ Deliver(message)
    BY <1>1, <1>4, Zenon
  <2>2. Directed(device, client', handedOver') /\ VInv'
    BY <1>1, <1>2, <1>3, <2>1, DeliverTurns
  <2>3. \A p \in Calls : client'.pending = <<p>> => request' # <<>>
    BY <1>4, SentUnanswered
  <2> QED BY <1>2, <2>2, <2>3, Zenon DEF PInv
<1>5. CASE incoming' # <<>>
  <2>1. /\ client' = client /\ models' = models /\ request' = request
        /\ handedOver' = handedOver /\ heard' = heard /\ said' = said /\ told' = told
    BY <1>1, <1>5
  <2> QED BY <1>2, <2>1, Zenon DEF PInv, VInv
<1> QED BY <1>4, <1>5

LEMMA UserTurns ==
    ASSUME FInv, PInv, VInv, FInv', UserReadModel
    PROVE  PInv' /\ VInv'
<1>1. PICK id \in DOMAIN client.blockAddresses : client' = ReadModel(client, id)
  BY DEF UserReadModel
<1>2. /\ handedOver /\ client.pending = <<>> /\ device' = device /\ incoming' = incoming
      /\ handedOver' = handedOver /\ heard' = heard /\ models' = models /\ told' = told
  BY DEF UserReadModel, history
<1>3. /\ client \in Fields /\ device \in Devices /\ Idle
  BY <1>2 DEF FInv, Waits, Types
<1>4. Directs(device, client)
  BY Zenon DEF PInv, Directed
<1>5. Directed(device, client', handedOver) /\ client'.sunSpecId = client.sunSpecId
  <2>1. PICK d : d = ReadModel(client, id)
    OBVIOUS
  <2>2. handedOver => Directed(device, d, handedOver) /\ d.sunSpecId = client.sunSpecId
    <3> HIDE <1>1
    <3> QED BY <1>2, <1>3, <1>4, <2>1, ModelDirected
  <2> QED BY <1>1, <1>2, <2>1, <2>2, Zenon
<1>6. \A p \in Calls : client'.pending = <<p>> => request' # <<>>
  <2>1. incoming' = <<>>
    BY <1>2, <1>3 DEF Idle
  <2> QED BY <2>1, SentUnanswered
<1>7. PInv'
  BY <1>2, <1>5, <1>6, Zenon DEF PInv
<1>8. VInv'
  BY <1>2, <1>5, Zenon DEF VInv
<1> QED BY <1>7, <1>8

LEMMA NextTurns ==
    FInv /\ FInv' /\ IsStandard(device) /\ PInv /\ VInv /\ [Next]_vars => PInv' /\ VInv'
<1> SUFFICES ASSUME FInv, FInv', IsStandard(device), PInv, VInv, [Next]_vars
             PROVE  PInv' /\ VInv'
  OBVIOUS
<1>1. CASE Answer
  <2>1. PInv'
    BY <1>1, AnswerPInv
  <2>2. /\ client' = client /\ device' = device /\ handedOver' = handedOver
        /\ models' = models /\ told' = told /\ heard' = heard
    BY <1>1 DEF Answer, user
  <2>3. VInv'
    BY <2>2, Zenon DEF VInv
  <2> QED BY <2>1, <2>3
<1>2. CASE DataEvent
  <2>1. PICK n \in 1 .. Len(incoming) : Collect(n)
    BY <1>2 DEF DataEvent
  <2> QED BY <2>1, CollectTurns
<1>3. CASE UserReadModel
  BY <1>3, UserTurns
<1>4. CASE UNCHANGED vars
  BY <1>4, Zenon DEF vars, protocol, user, history, PInv, VInv
<1> QED BY <1>1, <1>2, <1>3, <1>4 DEF Next

LEMMA InitTurns == Init /\ IsStandard(device) => PInv /\ VInv
<1> SUFFICES ASSUME Init, IsStandard(device) PROVE PInv /\ VInv
  OBVIOUS
<1>1. /\ device \in Devices /\ client = ProbeNextUnitId(NewClient).client
      /\ handedOver = FALSE /\ models = <<>> /\ told = <<>> /\ heard.kind = "none"
  BY DEF Init, Nothing
<1>2. /\ NewClient \in Fields /\ NewClient.pending = <<>> /\ NewClient.sunSpecId = 0
      /\ Directs(device, NewClient)
  BY NewClientTyped DEF NewClient, Directs
<1>3. Directed(device, client, handedOver) /\ client.sunSpecId = 0
  <2>1. PICK r, h : r = ProbeNextUnitId(NewClient) /\ h = handedOver
    OBVIOUS
  <2>2. ~h
    BY <1>1, <2>1
  <2>3. Directed(device, r.client, h) /\ r.client.sunSpecId = 0
    <3>1. r = ProbeNextUnitId(NewClient)
      BY <2>1
    <3> HIDE <2>1
    <3> QED BY <1>1, <1>2, <2>2, <3>1, ProbeDirected
  <2> QED BY <1>1, <2>1, <2>3
<1>4. ASSUME NEW q \in Calls, client.pending = <<q>> PROVE request # <<>>
  <2>1. FInv
    BY InitFInv
  <2>2. incoming = <<>>
    BY DEF Init
  <2>3. Asked(q) /\ tid \in Word
    BY <1>4, <2>1, <2>2, Zenon DEF FInv, Answering, Types
  <2> QED BY <2>3, CallIsUnderstood, Zenon DEF Asked
<1>5. PInv
  BY <1>3, <1>4, Zenon DEF PInv
<1>6. VInv
  <2>1. \A id : ValuesOf(models, id) = <<>>
    BY <1>1 DEF ValuesOf
  <2>2. DOMAIN told = {} /\ DOMAIN <<>> = {}
    BY <1>1
  <2>3. Identified(device, 0, models)
    BY <2>1, <2>2, Zenon DEF Identified
  <2>4. Blank(models, told)
    BY <2>1, <2>2, Zenon DEF Blank
  <2>5. heard.kind # "model"
    BY <1>1
  <2> QED BY <1>3, <2>3, <2>4, <2>5, Zenon DEF VInv, Truth, Reads
<1> QED BY <1>5, <1>6

LEMMA VInvIdentity == VInv /\ IsStandard(device) => IdentityIsTrue
<1> SUFFICES ASSUME VInv, IsStandard(device) PROVE IdentityIsTrue
  OBVIOUS
<1>1. PICK common : common = ValuesOf(models, CommonModel)
  OBVIOUS
<1>2. SunSpecId(models) =
         IF "Manufacturer" \notin DOMAIN common THEN <<>>
         ELSE IdText(common.Manufacturer) \o <<Underscore>> \o IdText(common.Product)
              \o <<Underscore>> \o IdText(common.Serial)
  BY <1>1, Zenon DEF SunSpecId, CommonModel
<1>3. Identified(device, client.sunSpecId, models)
  BY Zenon DEF VInv, Truth
<1>4. CASE client.sunSpecId = 0
  BY <1>1, <1>2, <1>3, <1>4, Zenon DEF Identified, IdentityIsTrue
<1>5. CASE client.sunSpecId # 0
  <2>1. /\ "Manufacturer" \in DOMAIN common
        /\ common.Manufacturer = device.names.manufacturer
        /\ common.Product = device.names.product /\ common.Serial = device.names.serial
    BY <1>1, <1>3, <1>5, Zenon DEF Identified
  <2>2. device.id = IdentityOf(device.names)
    BY Zenon DEF IsStandard
  <2>3. SunSpecId(models) = device.id
    BY <1>2, <2>1, <2>2, Zenon DEF IdentityOf
  <2> QED BY <1>5, <2>3, Zenon DEF IdentityIsTrue
<1> QED BY <1>4, <1>5

LEMMA VInvPublished == VInv => PublishedIsLastAccepted
<1> SUFFICES ASSUME VInv, heard.kind = "model", client.sunSpecId # 0
             PROVE  IF heard.id \in DOMAIN told THEN IsReading(heard.values, told[heard.id])
                    ELSE heard.values = <<>>
  BY Zenon DEF PublishedIsLastAccepted
<1>1. heard.id \in ModelsWithFactory /\ heard.values = ValuesOf(models, heard.id)
  BY Zenon DEF VInv, Truth, Reads
<1>2. Tells(models, told, heard.id)
  BY <1>1, Zenon DEF VInv, Truth, AllTell
<1> QED BY <1>1, <1>2, Zenon DEF Tells

(* Every reachable state, of a standard device: what is asked leads to a     *)
(* block, an entry or nowhere, and the models hold what the device said.     *)
THEOREM ModelsHold ==
    ASSUME StandardDevices
    PROVE  Spec => [](PInv /\ VInv)
<1>1. Init => PInv /\ VInv
  <2>1. Init => device \in Devices
    BY DEF Init
  <2> QED BY <2>1, InitTurns DEF StandardDevices
<1>2. FInv /\ FInv' /\ PInv /\ VInv /\ [Next]_vars => PInv' /\ VInv'
  <2>1. FInv => device \in Devices
    BY DEF FInv, Types
  <2> QED BY <2>1, NextTurns DEF StandardDevices
<1> QED BY <1>1, <1>2, OneRequest, PTL DEF Spec

(* The identity of a client is that of the device's common model, for every  *)
(* standard device: whatever it is asked, wherever its answers are cut, and  *)
(* whichever of them are faults.                                             *)
THEOREM IdentityHolds ==
    ASSUME StandardDevices
    PROVE  Spec => []IdentityIsTrue
<1>1. FInv /\ VInv => IdentityIsTrue
  <2>1. FInv => device \in Devices
    BY DEF FInv, Types
  <2> QED BY <2>1, VInvIdentity DEF StandardDevices
<1>2. Spec => [](PInv /\ VInv)
  BY ModelsHold
<1> QED BY <1>1, <1>2, OneRequest, PTL

(* A published model of an identified standard device holds what the device   *)
(* measured when it last answered with a block its factory accepts.          *)
THEOREM PublishedHolds ==
    ASSUME StandardDevices
    PROVE  Spec => []PublishedIsLastAccepted
<1>1. Spec => [](PInv /\ VInv)
  BY ModelsHold
<1> QED BY <1>1, VInvPublished, PTL
=============================================================================
