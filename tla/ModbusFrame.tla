---------------------------- MODULE ModbusFrame -----------------------------
(***************************************************************************)
(* modbus::ModbusRequest and ModbusResponse: the frames of Modbus TCP, as    *)
(* sequences of octets.  A frame is a header of six octets, the last two of  *)
(* which count the octets behind it, a unit id, a function code and data.    *)
(***************************************************************************)
EXTENDS Integers, Sequences

Octet == {n \in Nat : n < 256}
Word == {n \in Nat : n < 65536}

HoldingRegisters == 3
FunctionCodes == {1, 2, 3, 4, 5, 6, 15, 16, 17, 22, 23}

(* Exception codes with a name; NoException is ModbusExceptionCode::Illegal. *)
NoException == 0
UnknownException == 255
ExceptionCodes == {0, 1, 2, 3, 4, 5, 6, 8, 10, 11, UnknownException}

High(word) == word \div 256
Low(word) == word % 256
WordAt(buffer, i) == 256 * buffer[i] + buffer[i + 1]

-----------------------------------------------------------------------------
(* ModbusRequest::toBuffer(), after ++transactionId.                         *)

(* Mutant of NextTransactionId: an id wider than uint16_t.                   *)
NextTransactionIdWide(tid) == tid + 1
NextTransactionId(tid) == (tid + 1) % 65536

RequestToBuffer(tid, unit, address, length) ==
    <<High(tid), Low(tid), 0, 0, 0, 6, unit, HoldingRegisters,
      High(address), Low(address), High(length), Low(length)>>

-----------------------------------------------------------------------------
(* ModbusResponse::fromBuffer().                                             *)

(* Mutant of Register: the octets as a little-endian machine has them.       *)
RegisterUnswapped(buffer, i) == 256 * buffer[9 + 2 * i] + buffer[8 + 2 * i]

Register(buffer, i) == WordAt(buffer, 8 + 2 * i)

Whole(buffer) == Len(buffer) >= 8 /\ Len(buffer) >= WordAt(buffer, 5) + 6

(* What a whole buffer says.  A function code that has no name, as one with  *)
(* its top bit set, announces an exception.                                  *)
FromBuffer(buffer) ==
    LET function == buffer[8]
        code == buffer[9]
    IN  [tid |-> WordAt(buffer, 1), unit |-> buffer[7],
         exception |-> IF function \in FunctionCodes THEN NoException
                       ELSE IF code \in ExceptionCodes THEN code ELSE UnknownException,
         values |-> IF function \in FunctionCodes
                    THEN [i \in 1 .. code \div 2 |-> Register(buffer, i)] ELSE <<>>]

-----------------------------------------------------------------------------
(* What a device answers: ModbusResponse::toBuffer() of the values it read,  *)
(* or ModbusUtil::createModbusExceptionBuffer().                             *)

Frame(tid, unit, body) ==
    <<High(tid), Low(tid), 0, 0, High(1 + Len(body)), Low(1 + Len(body)), unit>> \o body

RegisterOctets(values) ==
    [i \in 1 .. 2 * Len(values) |->
        IF i % 2 = 1 THEN High(values[(i + 1) \div 2]) ELSE Low(values[i \div 2])]

ResponseToBuffer(tid, unit, values) ==
    Frame(tid, unit, <<HoldingRegisters, 2 * Len(values)>> \o RegisterOctets(values))

ExceptionToBuffer(tid, unit, function, code) ==
    Frame(tid, unit, <<function + 128, code>>)
=============================================================================
