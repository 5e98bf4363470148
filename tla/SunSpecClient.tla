--------------------------- MODULE SunSpecClient ----------------------------
(***************************************************************************)
(* sunspec::SunSpecClient: the handlers that scan a Modbus host for a        *)
(* SunSpec unit, identify it and read its model directory.                  *)
(*                                                                           *)
(* A handler is an operator from the client's fields to its fields after     *)
(* the handler, with the event it publishes.  `pending` holds the            *)
(* readHoldingRegisters calls whose outcome is still to come, oldest first:  *)
(* what RequestReply promises of the ModbusClient underneath.                *)
(*                                                                           *)
(* Registers are abstracted to what the handlers tell apart: of an answer    *)
(* its size, whether it starts with "SunS", and the words a handler reads.   *)
(***************************************************************************)
EXTENDS Integers, Sequences

CONSTANTS
    UnitIds,         \* ids of nextUnitId(): 248 entries, of which 161 occurs twice
    HeaderAddress,   \* 40000
    ReadHeader,      \* OperationId::ReadHeader, 63000
    AddressMod,      \* an address is a uint16_t: 2^16
    CommonLengths,   \* lengths of the common model: 65 and 66
    MpptLimit        \* registers read of model 160: 48

CommonModel == 1
InverterMpptExtension == 160
EndOfTable == 65535

ASSUME UnitIdsAssumption ==
    /\ UnitIds \in Seq(1 .. 247)
    /\ UnitIds # <<>>
ASSUME AddressAssumption ==
    /\ HeaderAddress \in Nat /\ ReadHeader \in Nat /\ AddressMod \in Nat
    /\ HeaderAddress + 4 < ReadHeader /\ ReadHeader < AddressMod
    /\ AddressMod <= EndOfTable + 1
ASSUME LengthAssumption ==
    /\ CommonLengths \subseteq Nat /\ MpptLimit \in Nat
    /\ \A length \in CommonLengths : length > 2

NewClient ==
    [unitId |-> 0, unitIdx |-> 0, headerLength |-> 0,
     sunSpecId |-> 0,           \* the unit whose common model was parsed, 0: empty
     blockAddresses |-> <<>>,   \* model id -> <<address, length>>
     pending |-> <<>>]

(* A handler's result.                                                       *)
Quiet(client) == [client |-> client, event |-> "none"]
Publish(client, event) == [client |-> client, event |-> event]

-----------------------------------------------------------------------------
(* Requests: _modbusClient->readHoldingRegisters().                          *)

Read(client, unitId, address, length, userData) ==
    [client EXCEPT !.pending = Append(@, [unit |-> unitId, address |-> address,
                                          length |-> length, user |-> userData])]

(* Mutant of ReadModelEntry: an address wider than uint16_t.                 *)
ReadModelEntryWide(client, address) == Read(client, client.unitId, address, 2, address)

ReadModelEntry(client, address) ==
    Read(client, client.unitId, address % AddressMod, 2, address % AddressMod)

(* A block of length 2 would be taken for a table entry, and is not read.    *)
ReadBlock(client, modelId, address, length) ==
    IF length = 2 THEN client ELSE Read(client, client.unitId, address, length, modelId)

(* readModel() of a model that is in the directory.                          *)
ReadModel(client, modelId) ==
    ReadBlock(client, modelId, client.blockAddresses[modelId][1],
              client.blockAddresses[modelId][2])

(* Mutant of ProbeNextUnitId: _unitIdx is not advanced.                      *)
ProbeSameUnitId(client) ==
    Quiet(Read([client EXCEPT !.unitId = UnitIds[client.unitIdx + 1]],
               UnitIds[client.unitIdx + 1], HeaderAddress, 4, ReadHeader))

(* nextUnitId() and readHeader(): an exhausted scan publishes close_event.    *)
ProbeNextUnitId(client) ==
    IF client.unitIdx >= Len(UnitIds)
    THEN Publish(client, "close")
    ELSE LET id == UnitIds[client.unitIdx + 1]
         IN  Quiet(Read([client EXCEPT !.unitId = id, !.unitIdx = @ + 1],
                        id, HeaderAddress, 4, ReadHeader))

-----------------------------------------------------------------------------
(* Responses: [unit, user, size, suns, words], `words` the two a handler     *)
(* may read: id and length of a table entry; the header's model and length.  *)

ValidHeader(response) ==
    /\ response.suns
    /\ response.words[1] = CommonModel
    /\ response.words[2] \in CommonLengths

(* An answer too short to hold a header is dropped without a word.           *)
OnReadHeader(client, response) ==
    LET headed == [client EXCEPT !.headerLength = response.words[2]]
    IN  IF response.size < 4 THEN Quiet(client)
        ELSE IF ValidHeader(response)
        THEN Quiet(ReadBlock(headed, CommonModel, HeaderAddress + 4, response.words[2]))
        ELSE Publish(headed, "close")

(* addModelAddress(), and its mutants: every model is clamped; the place is  *)
(* that of the table entry.                                                  *)
ClampAll(modelId, length) == IF length > MpptLimit THEN MpptLimit ELSE length
ReadableLength(modelId, length) ==
    IF modelId = InverterMpptExtension /\ length > MpptLimit THEN MpptLimit ELSE length

AddEntryAddress(client, modelId, address, length) ==
    [client EXCEPT !.blockAddresses =
        [id \in DOMAIN @ \cup {modelId} |->
            IF id = modelId THEN <<address - 2, ReadableLength(modelId, length)>> ELSE @[id]]]

AddModelAddress(client, modelId, address, length) ==
    [client EXCEPT !.blockAddresses =
        [id \in DOMAIN @ \cup {modelId} |->
            IF id = modelId
            THEN <<address % AddressMod, ReadableLength(modelId, length)>> ELSE @[id]]]

OnReadModelEntry(client, response) ==
    LET id == response.words[1]
        length == response.words[2]
        start == response.user + 2
    IN  IF id = EndOfTable
        THEN Publish(client, "connect")
        ELSE Quiet(ReadModelEntry(AddModelAddress(client, id, start, length),
                                  start + length))

(* parseBlock() identifies the device by its common model, if it has the     *)
(* right size; the directory follows the common model either way.  What the  *)
(* registers of a block stand for is in SunSpecModels.                       *)
OnReadBlock(client, response) ==
    LET identified == IF response.size \in CommonLengths
                      THEN [client EXCEPT !.sunSpecId = response.unit]
                      ELSE client
    IN  IF response.user = CommonModel
        THEN Quiet(ReadModelEntry(identified, HeaderAddress + 4 + client.headerLength))
        ELSE Quiet(client)

(* Mutant of OnResponse: the size is looked at before the userData.          *)
OnResponseBySize(client, response) ==
    IF response.size = 2 THEN OnReadModelEntry(client, response)
    ELSE IF response.user = ReadHeader THEN OnReadHeader(client, response)
    ELSE OnReadBlock(client, response)

(* The dispatch of the ModbusResponse listener.                              *)
OnResponse(client, response) ==
    IF response.user = ReadHeader THEN OnReadHeader(client, response)
    ELSE IF response.size = 2 THEN OnReadModelEntry(client, response)
    ELSE OnReadBlock(client, response)
=============================================================================
