--------------------------- MODULE SunSpecDevice ----------------------------
(***************************************************************************)
(* A SunSpec device, written from the standard: where its memory has what,   *)
(* and what the registers of a block stand for.  It is external to the code, *)
(* and what SunSpecClient and the factories are held against.                *)
(*                                                                           *)
(* A device is a record: the unit id, the names in its common model and the  *)
(* identity they make, and at[time]: its memory from HeaderAddress on, and   *)
(* model id -> the address of the block behind its table entry, its length   *)
(* and what its registers stand for (<<>>: nothing, a model the library does *)
(* not know or a block of another length than the model's).                  *)
(***************************************************************************)
EXTENDS SunSpecClient, SunSpecModels

SunS == <<21365, 28243>>

(* n registers of a memory; a request for what is not all there, or for more *)
(* than a frame holds, is refused.                                           *)
RegistersAt(memory, address, n) ==
    SubSeq(memory, address - HeaderAddress + 1, address - HeaderAddress + n)
IsThere(memory, address, n) ==
    /\ address >= HeaderAddress /\ address - HeaderAddress + n <= Len(memory)
    /\ n <= 125

-----------------------------------------------------------------------------
(* What a number in a register and a scale factor stand for, counted in the   *)
(* given decimal digits: what is finer is cut off.  The standard's factors    *)
(* are -10 .. 10; with 10, nothing but 0 would be within int32_t, in which    *)
(* the library computes (see SunSpecModels).                                 *)

IsInt32(number) == number \in -2147483647 .. 2147483647

IsScaled(number, factor, digits, value) ==
    LET one == 10 ^ (-factor - digits) IN
    /\ factor \in -10 .. 9 /\ value \in Int /\ IsInt32(value)
    /\ factor + digits >= 0 => value = number * 10 ^ (factor + digits)
    /\ factor + digits < 0 =>
          IF number >= 0 THEN value * one <= number /\ number < (value + 1) * one
          ELSE (-value) * one <= -number /\ -number < (1 - value) * one

MeterKeys ==
    {"totalActiveAcPower", "totalExportedActiveEnergy", "totalImportedActiveEnergy"}
InverterKeys == {"totalActiveAcPower", "totalExportedActiveEnergy", "operatingStatus", "events"}
KeysOfModel(id) ==
    CASE id \in Inverters -> InverterKeys [] id = Mppt -> {"dc"} [] id = WyeMeter -> MeterKeys

(* Models 101 and 103: an inverter that draws power delivers none.           *)
InverterSays(registers, says) ==
    /\ DOMAIN says = InverterKeys
    /\ IF Signed(registers, 12) < 0 THEN says.totalActiveAcPower = 0
       ELSE IsScaled(Signed(registers, 12), Signed(registers, 13), 2, says.totalActiveAcPower)
    /\ IsScaled(Long(At(registers, 22), At(registers, 23)), Signed(registers, 24), 0,
                says.totalExportedActiveEnergy)
    /\ IsInt32(Long(At(registers, 22), At(registers, 23)))
    /\ says.operatingStatus = At(registers, 36) /\ says.events = At(registers, 38)

(* Model 160: a value that is not measured counts as none.                   *)
DcSays(word, factor, value) == IsScaled(IF word = 65535 THEN 0 ELSE word, factor, 2, value)
MpptSays(registers, says) ==
    /\ DOMAIN says = {"dc"} /\ Len(says.dc) = (Len(registers) - 8) \div 20
    /\ says.dc \in Seq([current : Int, voltage : Int, power : Int])
    /\ \A mpp \in DOMAIN says.dc :
          LET first == 8 + 20 * (mpp - 1) IN
          /\ DcSays(At(registers, first + 9), Signed(registers, 0), says.dc[mpp].current)
          /\ DcSays(At(registers, first + 10), Signed(registers, 1), says.dc[mpp].voltage)
          /\ DcSays(At(registers, first + 11), Signed(registers, 2), says.dc[mpp].power)

(* Model 203, of a meter whose energies are not scaled; and that of an Elgris *)
(* meter, with its factor negated and the low words of its energies first.   *)
MeterSays(registers, says) ==
    /\ DOMAIN says = MeterKeys /\ At(registers, 52) = 0
    /\ IsScaled(Signed(registers, 16), Signed(registers, 20), 2, says.totalActiveAcPower)
    /\ says.totalExportedActiveEnergy = Long(At(registers, 36), At(registers, 37))
    /\ says.totalImportedActiveEnergy = Long(At(registers, 44), At(registers, 45))
    /\ IsInt32(says.totalExportedActiveEnergy) /\ IsInt32(says.totalImportedActiveEnergy)
ElgrisSays(registers, says) ==
    /\ DOMAIN says = MeterKeys /\ At(registers, 52) = 0
    /\ IsScaled(Signed(registers, 16), -Signed(registers, 20), 2, says.totalActiveAcPower)
    /\ says.totalExportedActiveEnergy = Long(At(registers, 37), At(registers, 36))
    /\ says.totalImportedActiveEnergy = Long(At(registers, 45), At(registers, 44))
    /\ IsInt32(says.totalExportedActiveEnergy) /\ IsInt32(says.totalImportedActiveEnergy)

(* A block of any length but the model's stands for nothing; an Elgris meter  *)
(* is a meter and nothing else.                                              *)
StandsFor(id, registers, says) ==
    CASE id \in Inverters /\ Len(registers) = 50  -> InverterSays(registers, says)
      [] id = Mppt /\ Len(registers) >= 8         -> MpptSays(registers, says)
      [] id = WyeMeter /\ Len(registers) = 105    -> MeterSays(registers, says)
      [] OTHER -> says = <<>>
ElgrisStandsFor(id, registers, says) ==
    CASE id = WyeMeter /\ Len(registers) = 105 -> ElgrisSays(registers, says)
      [] OTHER -> says = <<>> /\ (id \in ModelsWithFactory => Len(registers) # 105)

-----------------------------------------------------------------------------
(* Names and identity.                                                       *)

(* A name is octets without a zero, filled up with zeros.                    *)
IsText(registers, name) ==
    /\ name \in Seq(1 .. 255) /\ Len(name) <= 2 * Len(registers)
    /\ \A i \in 1 .. 2 * Len(registers) :
          RegisterOctets(registers)[i] = IF i <= Len(name) THEN name[i] ELSE 0

HasNames(common, names) ==
    /\ IsText(SubSeq(common, 1, 16), names.manufacturer)
    /\ IsText(SubSeq(common, 17, 32), names.product)
    /\ IsText(SubSeq(common, 49, 64), names.serial)

IdentityOf(names) ==
    IdText(names.manufacturer) \o <<Underscore>> \o IdText(names.product)
    \o <<Underscore>> \o IdText(names.serial)

-----------------------------------------------------------------------------
(* The table, which does not change.                                         *)

CommonAddress == HeaderAddress + 4
CommonLengthOf(host) == host.at[1].memory[4]
EndAddress(host) == HeaderAddress + Len(host.at[1].memory) - 2
Blocks(host) == host.at[1].blocks
Entries(host) == {EndAddress(host)} \cup {Blocks(host)[id].address - 2 : id \in DOMAIN Blocks(host)}

HasTable(host) ==
    LET memory == host.at[1].memory IN
    /\ Len(memory) >= 4 /\ HeaderAddress + Len(memory) <= ReadHeader
    /\ memory[3] = CommonModel /\ memory[4] \in CommonLengths
    /\ IsThere(memory, CommonAddress, CommonLengthOf(host))
    /\ HasNames(RegistersAt(memory, CommonAddress, CommonLengthOf(host)), host.names)
    /\ CommonAddress + CommonLengthOf(host) \in Entries(host)
    /\ EndAddress(host) >= HeaderAddress
    /\ RegistersAt(memory, EndAddress(host), 1) = <<EndOfTable>>
    /\ \A id \in DOMAIN Blocks(host) :
          LET block == Blocks(host)[id] IN
          /\ id \notin {CommonModel, ReadHeader, EndOfTable}
          /\ block.address \in Word /\ block.address - 2 >= HeaderAddress
          /\ block.length \in Word
          /\ block.address + block.length \in Entries(host)
          /\ RegistersAt(memory, block.address - 2, 2) = <<id, block.length>>

(* At any time, the registers of a block are what it stands for.             *)
HasBlocks(host, elgris) ==
    \A time \in DOMAIN host.at : \A id \in DOMAIN Blocks(host) :
        LET block == host.at[time].blocks[id]
            registers == RegistersAt(host.at[time].memory, block.address, block.length) IN
        /\ id \in DOMAIN host.at[time].blocks
        /\ block.address = Blocks(host)[id].address /\ block.length = Blocks(host)[id].length
        /\ block.address + block.length <= HeaderAddress + Len(host.at[time].memory)
        /\ IF elgris THEN ElgrisStandsFor(id, registers, block.says)
           ELSE StandsFor(id, registers, block.says)

(* The client takes an answer of two registers, which the common model or a  *)
(* block was cut to, for an entry of the table.  It leads to no model that    *)
(* has a factory, and to nowhere in the memory.                              *)
LeadsNowhere(host, user, id, length) ==
    /\ id \notin ModelsWithFactory \cup {CommonModel, ReadHeader}
    /\ id # EndOfTable => \A time \in DOMAIN host.at :
          /\ ~IsThere(host.at[time].memory, (user + 2) % AddressMod, length)
          /\ ~IsThere(host.at[time].memory, (user + 2 + length) % AddressMod, 2)
CutsLeadNowhere(host) ==
    \A time \in DOMAIN host.at :
        LET memory == host.at[time].memory
            cut(address) == RegistersAt(memory, address, 2) IN
        /\ LeadsNowhere(host, CommonModel, cut(CommonAddress)[1], cut(CommonAddress)[2])
        /\ \A id \in DOMAIN Blocks(host) :
              LET address == Blocks(host)[id].address IN
              Blocks(host)[id].length > 2 => LeadsNowhere(host, id, cut(address)[1], cut(address)[2])

IsStandard(host) ==
    /\ HasTable(host) /\ HasBlocks(host, host.names.manufacturer = Elgris)
    /\ host.id = IdentityOf(host.names)
    /\ CutsLeadNowhere(host)
=============================================================================
