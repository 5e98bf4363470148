--------------------------- MODULE SunSpecModels ----------------------------
(***************************************************************************)
(* sunspec::ModelFactory and the factories of the models: how the registers  *)
(* of a block become the values of a SunSpecModel.                           *)
(*                                                                           *)
(* `models` is the map of a SunSpecClient, model id -> (DataPoint -> value). *)
(* A double is the number of its hundredths, a string the sequence of its    *)
(* octets.  Bound: values and results within int32_t.                        *)
(***************************************************************************)
EXTENDS ModbusFrame, SequencesExt

At(buffer, i) == buffer[i + 1]
Int16(word) == IF word < 32768 THEN word ELSE word - 65536
Negated(word) == Int16((65536 - word) % 65536)
Signed(buffer, i) == Int16(At(buffer, i))
Long(high, low) == 65536 * high + low

(* value * pow(10.0, factor), to its hundredths towards zero, and its         *)
(* conversion to int32_t.                                                    *)
Hundredths(value, factor) == value \div 10 ^ (-2 - factor)
Scaled(value, factor) ==
    CASE factor >= -2 -> value * 10 ^ (factor + 2)
      [] factor \in -11 .. -3 -> IF value < 0 THEN -Hundredths(-value, factor)
                                 ELSE Hundredths(value, factor)
      [] OTHER -> 0
Truncated(hundredths) ==
    IF hundredths < 0 THEN -((-hundredths) \div 100) ELSE hundredths \div 100
RoundedToHundreds(value) == 100 * ((value + 50) \div 100)

(* A map after assignments to some of its keys, and to one of them.          *)
With(values, assigned) ==
    [key \in DOMAIN values \cup DOMAIN assigned |->
        IF key \in DOMAIN assigned THEN assigned[key] ELSE values[key]]
Put(map, key, value) == With(map, [k \in {key} |-> value])

-----------------------------------------------------------------------------
(* SunSpecCommonModelFactory.  readString() takes the octets of n registers  *)
(* up to the first 0.                                                        *)

(* Mutant of ReadString: the padding is read too.                            *)
ReadStringPadded(buffer, first, n) == RegisterOctets(SubSeq(buffer, first + 1, first + n))

ReadString(buffer, first, n) ==
    LET octets == RegisterOctets(SubSeq(buffer, first + 1, first + n))
        end == SelectInSeq(octets, LAMBDA octet : octet = 0)
    IN  IF end = 0 THEN octets ELSE SubSeq(octets, 1, end - 1)

CommonValues(values, buffer) ==
    IF Len(buffer) \notin {65, 66} THEN values
    ELSE With(values,
         [Manufacturer |-> ReadString(buffer, 0, 16), Product |-> ReadString(buffer, 16, 16),
          Options |-> ReadString(buffer, 32, 8), Version |-> ReadString(buffer, 40, 8),
          Serial |-> ReadString(buffer, 48, 16)])

-----------------------------------------------------------------------------
(* The factories of the other models.  A block of another size leaves the    *)
(* values alone.                                                             *)

NotNegative(value) == IF value < 0 THEN 0 ELSE value

InverterValues(values, buffer) ==
    IF Len(buffer) # 50 THEN values
    ELSE With(values,
         [totalActiveAcPower |->
              Truncated(Scaled(NotNegative(Signed(buffer, 12)), Signed(buffer, 13))),
          totalExportedActiveEnergy |->
              RoundedToHundreds(Truncated(Scaled(Long(At(buffer, 22), At(buffer, 23)),
                                                 Signed(buffer, 24)))),
          operatingStatus |-> At(buffer, 36),
          events |-> At(buffer, 38)])

DcValue(word, factor) == Scaled(IF word = 65535 THEN 0 ELSE word, factor)

(* One block for each MPP of which all 20 registers are there.               *)
MpptValues(values, buffer) ==
    IF Len(buffer) < 8 THEN values
    ELSE With(values,
         [dc |-> [mpp \in 1 .. (Len(buffer) - 8) \div 20 |->
                     LET first == 8 + 20 * (mpp - 1)
                     IN  [current |-> DcValue(At(buffer, first + 9), Signed(buffer, 0)),
                          voltage |-> DcValue(At(buffer, first + 10), Signed(buffer, 1)),
                          power |-> DcValue(At(buffer, first + 11), Signed(buffer, 2))]]])

MeterValues(values, buffer) ==
    IF Len(buffer) # 105 THEN values
    ELSE With(values,
         [totalActiveAcPower |-> Truncated(Scaled(Signed(buffer, 16), Signed(buffer, 20))),
          totalExportedActiveEnergy |-> RoundedToHundreds(Long(At(buffer, 36), At(buffer, 37))),
          totalImportedActiveEnergy |-> RoundedToHundreds(Long(At(buffer, 44), At(buffer, 45)))])

(* An Elgris meter: the scale factor negated, the low words first.           *)
ElgrisValues(values, buffer) ==
    IF Len(buffer) # 105 THEN values
    ELSE With(values,
         [totalActiveAcPower |-> Truncated(Scaled(Signed(buffer, 16), Negated(At(buffer, 20)))),
          totalExportedActiveEnergy |-> RoundedToHundreds(Long(At(buffer, 37), At(buffer, 36))),
          totalImportedActiveEnergy |-> RoundedToHundreds(Long(At(buffer, 45), At(buffer, 44)))])

-----------------------------------------------------------------------------
(* ModelFactory::updateFromBuffer() and SunSpecClient::parseBlock().         *)

Inverters == {101, 103}
Mppt == 160
WyeMeter == 203
ModelsWithFactory == Inverters \cup {Mppt, WyeMeter}

Elgris == <<101, 108, 103, 114, 105, 115>>

ValuesOf(models, id) == IF id \in DOMAIN models THEN models[id] ELSE <<>>

IsElgris(models) ==
    LET common == ValuesOf(models, 1)
    IN  "Manufacturer" \in DOMAIN common /\ common.Manufacturer = Elgris

(* s_factories; and as a mutant of FactoryOf, which looks at no manufacturer. *)
FactoryOfModel(models, id, buffer) ==
    CASE id \in Inverters -> InverterValues(ValuesOf(models, id), buffer)
      [] id = Mppt        -> MpptValues(ValuesOf(models, id), buffer)
      [] id = WyeMeter    -> MeterValues(ValuesOf(models, id), buffer)

FactoryOf(models, id, buffer) ==
    IF IsElgris(models) THEN ElgrisValues(ValuesOf(models, id), buffer)
    ELSE FactoryOfModel(models, id, buffer)

(* The model is published whenever it has a factory, also one that rejects   *)
(* the block.                                                                *)
IsPublishedIfAccepted(id, buffer) ==     \* mutant of IsPublished: one that rejects it says so
    \/ id \in Inverters /\ Len(buffer) = 50
    \/ id = Mppt /\ Len(buffer) >= 8
    \/ id = WyeMeter /\ Len(buffer) = 105
IsPublished(id, buffer) == buffer # <<>> /\ id \in ModelsWithFactory

ParseBlock(models, id, buffer) ==
    IF id = 1 THEN Put(models, 1, CommonValues(ValuesOf(models, 1), buffer))
    ELSE IF IsPublished(id, buffer)
    THEN Put(Put(models, 1, ValuesOf(models, 1)), id, FactoryOf(models, id, buffer))
    ELSE models

-----------------------------------------------------------------------------
(* SunSpecClient::toString() and sunSpecId(): lower case, everything but     *)
(* letters and digits an underscore.                                         *)

Underscore == 95
IdOctet(octet) ==
    CASE octet \in 65 .. 90 -> octet + 32
      [] octet \in (97 .. 122) \cup (48 .. 57) -> octet
      [] OTHER -> Underscore
IdText(string) == [i \in DOMAIN string |-> IdOctet(string[i])]

SunSpecId(models) ==
    LET common == ValuesOf(models, 1)
    IN  IF "Manufacturer" \notin DOMAIN common THEN <<>>
        ELSE IdText(common.Manufacturer) \o <<Underscore>> \o IdText(common.Product)
             \o <<Underscore>> \o IdText(common.Serial)
=============================================================================
