--------------------------- MODULE SunSpecReading ---------------------------
(***************************************************************************)
(* A SunSpec device read from end to end: a SunSpecClient finds and walks    *)
(* it, then its user reads models again and again and keeps the extremes of  *)
(* what its MPPs deliver.  Requests and answers are the frames on the wire,  *)
(* at their real addresses; the ModbusClient between is taken at its word    *)
(* (RequestReply): the request outstanding is answered once.                 *)
(***************************************************************************)
EXTENDS SunSpecDevice, MeasuredValue

CONSTANTS
    Devices,      \* what the host may be, see SunSpecDevice
    Cuts,         \* bound: a data_event holds all of an answer, or the first n
                  \*   octets of it, n in Cuts
    MaxReads,     \* bound: readModel() calls of the user
    MaxFaults     \* bound: kinds of answers that are not what they should be

ASSUME LengthsOfTheCode == CommonLengths = {65, 66} /\ MpptLimit = 48
ASSUME CutsAssumption == Cuts \subseteq Nat \ {0}
ASSUME ReadingBounds == MaxReads \in Nat /\ MaxFaults \in Nat

(* `tid` is the transaction id the ModbusClient is at when it is handed over.  *)
ASSUME DevicesAssumption ==
    \A host \in Devices :
        /\ host.tid \in Word /\ host.unit \in Octet /\ 1 \in DOMAIN host.at
        /\ \A time \in DOMAIN host.at : host.at[time].memory \in Seq(Word)

(* What IdentityIsTrue and PublishedIsLastAccepted need of every device.     *)
StandardDevices == \A host \in Devices : IsStandard(host)

VARIABLES
    device,       \* what the host is
    client,       \* the SunSpecClient's fields
    models,       \* its _models
    tid,          \* the ModbusClient's _request.transactionId
    request,      \* the frame the device has still to answer
    incoming,     \* what is left of its answer
    readBuffer,   \* _readBuffer
    handedOver,   \* the discovery published the client
    heard,        \* the last event of the client, or of its discovery
    awaiting,     \* the model the user reads and has heard nothing of, or 0
    reads,        \* readModel() calls
    measured,     \* the user's SunSpecBlock<MeasuredValue<double>> of each MPP
    said,         \* what the device is answering
    faults,       \* the kinds of answers that were not what they should be
    told,         \* model id -> what its last accepted answer stood for
    seen          \* of each MPP, key -> its readings so far

protocol == <<client, models, tid, request, incoming, readBuffer>>
user == <<handedOver, heard, awaiting, reads, measured>>
history == <<said, faults, told, seen>>
vars == <<device, protocol, user, history>>

Keys == {"current", "voltage", "power"}
Nothing == [kind |-> "none", id |-> 0, values |-> <<>>]
Event(kind, id, values) == [kind |-> kind, id |-> id, values |-> values]

TypeOK ==
    /\ client.pending \in Seq([unit : Octet, address : Word, length : Word, user : Word])
    /\ \A id \in DOMAIN client.blockAddresses : client.blockAddresses[id] \in Word \X Word
    /\ tid \in Word
    /\ request \in Seq(Octet) /\ incoming \in Seq(Octet) /\ readBuffer \in Seq(Octet)
    /\ handedOver \in BOOLEAN
    /\ heard.kind \in {"none", "connect", "close", "exception", "model"}
    /\ awaiting \in Word /\ reads \in 0 .. MaxReads

-----------------------------------------------------------------------------
(* The device.                                                               *)

UnitOf(frame) == frame[7]
AddressOf(frame) == WordAt(frame, 9)
LengthOf(frame) == WordAt(frame, 11)

(* The registers a frame asks for; <<>> if they are not all there.           *)
RegistersRead(frame, memory) ==
    IF IsThere(memory, AddressOf(frame), LengthOf(frame))
    THEN RegistersAt(memory, AddressOf(frame), LengthOf(frame)) ELSE <<>>

IllegalDataAddress == 2
NegativeAcknowledge == 7     \* a code ModbusExceptionCode has no name for
TargetFailedToRespond == 11

Says(values, exception, fault) ==
    [values |-> values, exception |-> exception, fault |-> fault]

Silence == [answer |-> Says(<<>>, NoException, "none"), time |-> 1]

Regular(frame, values) ==
    IF UnitOf(frame) # device.unit THEN Says(<<>>, TargetFailedToRespond, "none")
    ELSE IF values = <<>> THEN Says(<<>>, IllegalDataAddress, "none")
    ELSE Says(values, NoException, "none")

(* A device that is busy, or returns fewer registers than it was asked for.  *)
Faulty(values) ==
    {Says(<<>>, NegativeAcknowledge, "busy")}
    \cup {Says(SubSeq(values, 1, n), NoException, IF n = 2 THEN "two" ELSE "short") :
              n \in {2, 47} \cap 1 .. Len(values) - 1}

ToFrame(frame, answer) ==
    IF answer.exception = NoException
    THEN ResponseToBuffer(WordAt(frame, 1), UnitOf(frame), answer.values)
    ELSE ExceptionToBuffer(WordAt(frame, 1), UnitOf(frame), frame[8], answer.exception)

(* What it measures changes once it is handed over.                          *)
Answer ==
    /\ request # <<>>
    /\ \E time \in IF handedOver THEN DOMAIN device.at ELSE {1} :
       \E values \in {RegistersRead(request, device.at[time].memory)} :
       \E answer \in {Regular(request, values)}
                     \cup IF Cardinality(faults) < MaxFaults THEN Faulty(values) ELSE {} :
          /\ said' = [answer |-> answer, time |-> time]
          /\ incoming' = ToFrame(request, answer)
          /\ faults' = faults \cup ({answer.fault} \ {"none"})
    /\ request' = <<>>
    /\ UNCHANGED <<device, client, models, tid, readBuffer, user, told, seen>>

-----------------------------------------------------------------------------
(* The client.                                                               *)

(* The call of readHoldingRegisters() a handler has made, if it made one.    *)
Sent(after) ==
    IF after.pending = <<>> THEN UNCHANGED <<tid, request>>
    ELSE LET call == Head(after.pending)
         IN  /\ tid' = NextTransactionId(tid)
             /\ request' = RequestToBuffer(tid', call.unit, call.address, call.length)

Init ==
    /\ device \in Devices /\ client = ProbeNextUnitId(NewClient).client
    /\ models = <<>> /\ incoming = <<>> /\ readBuffer = <<>>
    /\ tid = NextTransactionId(device.tid)
    /\ LET call == Head(client.pending)
       IN  request = RequestToBuffer(tid, call.unit, call.address, call.length)
    /\ handedOver = FALSE /\ heard = Nothing /\ awaiting = 0 /\ reads = 0
    /\ measured = <<>> /\ seen = <<>> /\ told = <<>> /\ faults = {}
    /\ said = Silence

(* What SunSpecClient looks at in a response.                                *)
Abstract(message, userData) ==
    LET values == message.values
        size == Len(values)
    IN  [unit |-> message.unit, user |-> userData, size |-> size,
         suns |-> size >= 4 /\ SubSeq(values, 1, 2) = SunS,
         words |-> CASE size = 2 -> values
                     [] size >= 4 -> SubSeq(values, 3, 4)
                     [] OTHER -> <<0, 0>>]

Hears(event, id, values) ==
    /\ heard' = Event(event, id, values)
    /\ handedOver' = (handedOver \/ event = "connect")
    /\ awaiting' = IF event \in {"model", "exception"} THEN 0 ELSE awaiting

(* The user adds the readings of model 160 to what it has of each MPP.       *)
Added(dc) ==
    /\ measured' = [mpp \in DOMAIN measured \cup DOMAIN dc |->
          IF mpp \notin DOMAIN dc THEN measured[mpp]
          ELSE AssignBlock(IF mpp \in DOMAIN measured THEN measured[mpp] ELSE <<>>,
                           Converted(dc[mpp]))]
    /\ seen' = [mpp \in DOMAIN seen \cup DOMAIN dc |->
          IF mpp \notin DOMAIN dc THEN seen[mpp]
          ELSE [key \in Keys |-> (IF mpp \in DOMAIN seen THEN seen[mpp][key] ELSE <<>>)
                                 \o <<dc[mpp][key]>>]]

(* What the block the device just answered stands for: of model 160 the MPPs *)
(* that are there in full, of another model all or nothing.                  *)
Accepted(id, size) ==
    LET block == device.at[said.time].blocks[id]
    IN  IF block.says = <<>> THEN <<>>
        ELSE IF id = Mppt /\ size >= 8 THEN [dc |-> SubSeq(block.says.dc, 1, (size - 8) \div 20)]
        ELSE IF size = block.length THEN block.says ELSE <<>>

(* The ModbusException listener: of the discovery until it hands over.       *)
Except(waiting) ==
    LET scans == ~handedOver /\ client.sunSpecId = 0
        result == IF scans THEN ProbeNextUnitId(waiting) ELSE Publish(waiting, "exception")
    IN  /\ client' = result.client
        /\ Sent(client')
        /\ IF result.event = "none" THEN UNCHANGED <<heard, handedOver, awaiting>>
           ELSE Hears(result.event, 0, <<>>)
        /\ UNCHANGED <<models, measured, seen, told>>

(* The ModbusResponse listener, with parseBlock() of what is a block.        *)
Respond(waiting, response, values) ==
    LET result == OnResponse(waiting, response)
        id == response.user
        isBlock == id # ReadHeader /\ response.size # 2
        publishes == isBlock /\ id # 1 /\ IsPublished(id, values)
    IN  /\ client' = result.client
        /\ Sent(client')
        /\ models' = IF isBlock THEN ParseBlock(models, id, values) ELSE models
        /\ IF publishes THEN Hears("model", id, models'[id])
           ELSE IF result.event # "none" THEN Hears(result.event, 0, <<>>)
           ELSE UNCHANGED <<heard, handedOver, awaiting>>
        /\ told' = IF publishes /\ Accepted(id, response.size) # <<>>
                   THEN Put(told, id, Accepted(id, response.size)) ELSE told
        /\ IF publishes /\ id = Mppt /\ "dc" \in DOMAIN models'[id]
           THEN Added(models'[id].dc) ELSE UNCHANGED <<measured, seen>>

(* userData is looked up under the transaction id of the message.            *)
Deliver(message) ==
    LET waiting == [client EXCEPT !.pending = Tail(@)]
        userData == IF message.tid = tid THEN Head(client.pending).user ELSE 0
    IN  IF message.exception # NoException THEN Except(waiting)
        ELSE Respond(waiting, Abstract(message, userData), message.values)

Collect(n) ==
    /\ incoming' = SubSeq(incoming, n + 1, Len(incoming))
    /\ \E collected \in {readBuffer \o SubSeq(incoming, 1, n)} :
          \/ /\ Whole(collected)
             /\ readBuffer' = <<>> /\ said' = Silence
             /\ \E message \in {FromBuffer(collected)} : Deliver(message)
          \/ /\ ~Whole(collected)
             /\ readBuffer' = collected
             /\ UNCHANGED <<client, models, tid, request, handedOver, heard, awaiting,
                            measured, said, told, seen>>
    /\ UNCHANGED <<device, reads, faults>>

DataEvent ==
    \E n \in ({Len(incoming)} \cup Cuts) \cap 1 .. Len(incoming) : Collect(n)

-----------------------------------------------------------------------------
(* The user, with one request at a time.                                     *)

UserReadModel ==
    /\ handedOver /\ client.pending = <<>> /\ reads < MaxReads
    /\ \E id \in DOMAIN client.blockAddresses :
          /\ client' = ReadModel(client, id)
          /\ awaiting' = id
    /\ Sent(client')
    /\ reads' = reads + 1
    /\ UNCHANGED <<device, models, incoming, readBuffer, handedOver, heard, measured, history>>

Next == Answer \/ DataEvent \/ UserReadModel

(* The device answers, and what it sends arrives, in however many events.     *)
Spec == Init /\ [][Next]_vars /\ WF_vars(Answer) /\ WF_vars(DataEvent)

-----------------------------------------------------------------------------
(* Properties.                                                               *)

(* The device reads in a frame what the client asked for; and wherever its    *)
(* answer is cut, the client understands nothing before the last octet and   *)
(* then what the device said, a code without a name as Unknown.              *)
FramesAreTrue ==
    /\ request # <<>> =>
          LET call == Head(client.pending)
          IN  <<WordAt(request, 1), UnitOf(request), AddressOf(request), LengthOf(request)>>
                = <<tid, call.unit, call.address, call.length>>
    /\ incoming # <<>> /\ readBuffer = <<>> =>
          /\ \A n \in 1 .. Len(incoming) - 1 : ~Whole(SubSeq(incoming, 1, n))
          /\ FromBuffer(incoming) =
                [tid |-> tid, unit |-> Head(client.pending).unit, values |-> said.answer.values,
                 exception |-> IF said.answer.exception = NegativeAcknowledge
                               THEN UnknownException ELSE said.answer.exception]

(* The identity is made of the names in the device's common model, and of     *)
(* nothing before the common model is read in full.                          *)
IdentityIsTrue ==
    SunSpecId(models) = IF client.sunSpecId = 0 THEN <<>> ELSE device.id

(* Values of a model against what the device measured: a power truncated to   *)
(* watts, an energy rounded to hundreds of watt hours, all else as it is.    *)
IsTruncated(watts, hundredths) ==
    \/ hundredths >= 0 /\ hundredths - 100 * watts \in 0 .. 99
    \/ hundredths < 0 /\ 100 * watts - hundredths \in 0 .. 99
IsRounded(energy, wattHours) ==
    energy % 100 = 0 /\ energy - 50 <= wattHours /\ wattHours <= energy + 50
IsReading(values, says) ==
    /\ DOMAIN values = DOMAIN says
    /\ \A key \in DOMAIN says :
          CASE key = "totalActiveAcPower" -> IsTruncated(values[key], says[key])
            [] key \in {"totalExportedActiveEnergy", "totalImportedActiveEnergy"} ->
                  IsRounded(values[key], says[key])
            [] OTHER -> values[key] = says[key]

(* A published model of an identified device holds what the device measured   *)
(* when it answered with a block the model's factory accepts.  A block it     *)
(* rejects, too short or of another length than the model's, is published all *)
(* the same: as the values of the last block accepted, or without values.     *)
(* A device whose common model was rejected is handed over like any other,    *)
(* but is not known as an Elgris meter and not read as one.                   *)
PublishedIsLastAccepted ==
    heard.kind = "model" /\ client.sunSpecId # 0 =>
        IF heard.id \in DOMAIN told THEN IsReading(heard.values, told[heard.id])
        ELSE heard.values = <<>>

(* The extremes kept of each MPP are those of all its readings, the first and *)
(* those read in between included.                                           *)
Extremes ==
    \A mpp \in DOMAIN measured : \A key \in Keys :
        /\ measured[mpp][key].min = Min(Range(seen[mpp][key]))
        /\ measured[mpp][key].max = Max(Range(seen[mpp][key]))

(* A measured value is dirty exactly when its last reading lies outside of    *)
(* all readings before it.                                                   *)
DirtyIsChange ==
    \A mpp \in DOMAIN measured : \A key \in Keys :
        LET readings == seen[mpp][key]
            before == Range(Front(readings))
        IN  measured[mpp][key].dirty <=>
                \/ \A value \in before : value < Last(readings)
                \/ \A value \in before : value > Last(readings)

(* The user hears of every read of a model that has a factory: a model or an  *)
(* exception.  An answer cut to two registers is taken for an entry of the    *)
(* table and may end in silence; a model without a factory, or of two         *)
(* registers, always does.                                                   *)
ReadIsHeard ==
    \A id \in ModelsWithFactory :
        awaiting = id ~> awaiting # id \/ "two" \in faults
=============================================================================
