------------------------- MODULE MCSunSpecReading ---------------------------
(***************************************************************************)
(* Instances of SunSpecReading: the standard's layout of the models, written *)
(* from what they stand for (powers in hundredths, energies in watt hours).  *)
(***************************************************************************)
EXTENDS SunSpecReading

MCUnitIds == <<1, 126>>
MCCommonLengths == {65, 66}
MCCuts == {8}

(* n registers, of which some are not 0; an int16_t as a register.           *)
Registers(n, set) == [i \in 1 .. n |-> IF i - 1 \in DOMAIN set THEN set[i - 1] ELSE 0]
AsWord(n) == (n + 65536) % 65536
Raw(hundredths, factor) ==
    AsWord(IF factor < -2 THEN hundredths * 10 ^ (-2 - factor)
           ELSE hundredths \div (10 ^ (factor + 2)))

(* Registers of a name, two octets each.                                     *)
Name(name) ==
    [i \in 1 .. (Len(name) + 1) \div 2 |->
        256 * name[2 * i - 1] + IF 2 * i <= Len(name) THEN name[2 * i] ELSE 0]
Common(length, manufacturer, product, serial) ==
    LET padded(name) == [i \in 1 .. 16 |-> IF i <= Len(name) THEN name[i] ELSE 0]
    IN  padded(Name(manufacturer)) \o padded(Name(product)) \o Registers(16, <<>>)
        \o padded(Name(serial)) \o Registers(length - 64, <<>>)

Inverter(id, power, factor, energy, status) ==
    [id |-> id,
     registers |-> Registers(50,
        12 :> Raw(power, factor) @@ 13 :> AsWord(factor)
        @@ 22 :> energy \div 65536 @@ 23 :> energy % 65536 @@ 36 :> status @@ 38 :> 128),
     says |-> [totalActiveAcPower |-> IF power < 0 THEN 0 ELSE power,
               totalExportedActiveEnergy |-> energy, operatingStatus |-> status, events |-> 128]]

Measured(power, exported, imported) ==
    [totalActiveAcPower |-> power, totalExportedActiveEnergy |-> exported,
     totalImportedActiveEnergy |-> imported]
Meter(power, factor, exported, imported) ==
    [id |-> 203, says |-> Measured(power, exported, imported),
     registers |-> Registers(105,
        16 :> Raw(power, factor) @@ 20 :> AsWord(factor)
        @@ 36 :> exported \div 65536 @@ 37 :> exported % 65536
        @@ 44 :> imported \div 65536 @@ 45 :> imported % 65536)]
ElgrisMeter(power, factor, exported, imported) ==
    [id |-> 203, says |-> Measured(power, exported, imported),
     registers |-> Registers(105,
        16 :> Raw(power, factor) @@ 20 :> AsWord(-factor)
        @@ 37 :> exported \div 65536 @@ 36 :> exported % 65536
        @@ 45 :> imported \div 65536 @@ 44 :> imported % 65536)]

(* Model 160 with 3 MPPs, of which the client reads two; a power of -1 is     *)
(* one that is not measured, and counts as 0.                                *)
MpptOf(powers) ==
    [id |-> 160,
     registers |-> Registers(68,
        0 :> AsWord(-2) @@ 1 :> AsWord(-1) @@ 2 :> 0
        @@ [r \in {8 + 20 * i + 9 : i \in 0 .. 2} |-> 12]
        @@ [r \in {8 + 20 * i + 10 : i \in 0 .. 2} |-> 4005]
        @@ [r \in {8 + 20 * i + 11 : i \in 0 .. 2} |-> AsWord(powers[(r - 19) \div 20 + 1])]),
     says |-> [dc |-> [i \in 1 .. 3 |->
        [current |-> 12, voltage |-> 40050,
         power |-> IF powers[i] = -1 THEN 0 ELSE 100 * powers[i]]]]]

Other(id, length) == [id |-> id, registers |-> Registers(length, <<>>), says |-> <<>>]

ElgrisName == <<101, 108, 103, 114, 105, 115>>
SMA == <<83, 77, 65>>
STP8 == <<83, 84, 80, 46, 56>>      \* "STP.8"
Serial == <<51, 48, 48>>
Named(manufacturer, product) ==
    [manufacturer |-> manufacturer, product |-> product, serial |-> Serial]

(* The memory of a device at one time, and what is in it.                    *)
Table(blocks) ==
    FlattenSeq([i \in DOMAIN blocks |->
        <<blocks[i].id, Len(blocks[i].registers)>> \o blocks[i].registers])
InMemory(common, blocks) ==
    [memory |->
        SunS \o <<1, Len(common)>> \o common \o Table(blocks) \o <<EndOfTable, 0>>,
     blocks |->
        [id \in {block.id : block \in Range(blocks)} |->
            LET i == CHOOSE j \in DOMAIN blocks : blocks[j].id = id
            IN  [length |-> Len(blocks[i].registers), says |-> blocks[i].says,
                 address |-> HeaderAddress + 4 + Len(common)
                             + Len(Table(SubSeq(blocks, 1, i - 1))) + 2]]]

SMAInverter == Common(66, SMA, STP8, Serial)
ElgrisHost == Common(65, ElgrisName, STP8, Serial)
SMAMeter == Common(65, SMA, <<>>, Serial)

MCDevices ==
    {[tid |-> 65530, unit |-> 126, names |-> Named(SMA, STP8),
      id |-> <<115, 109, 97, 95, 115, 116, 112, 95, 56, 95, 51, 48, 48>>,
      at |-> <<
         InMemory(SMAInverter, <<Inverter(103, 815000, 0, 12345678, 4),
                                    MpptOf(<<400, 300, 0>>)>>),
         InMemory(SMAInverter, <<Inverter(103, -3276800, 0, 12345650, 2),
                                    MpptOf(<<100, -1, 0>>)>>),
         InMemory(SMAInverter, <<Inverter(103, 1990, -3, 0, 7),
                                    MpptOf(<<200, 700, 9>>)>>)>>],
     [tid |-> 0, unit |-> 1, names |-> Named(ElgrisName, STP8),
      id |-> <<101, 108, 103, 114, 105, 115, 95, 115, 116, 112, 95, 56, 95, 51, 48, 48>>,
      at |-> <<
         InMemory(ElgrisHost, <<ElgrisMeter(-123000, 1, 70000, 149), Other(101, 50), Other(120, 26)>>),
         InMemory(ElgrisHost, <<ElgrisMeter(5550, -1, 150, 20000000), Other(101, 50), Other(120, 26)>>)>>],
     [tid |-> 250, unit |-> 1, names |-> Named(SMA, <<>>),
      id |-> <<115, 109, 97, 95, 95, 51, 48, 48>>,
      at |-> <<
         InMemory(SMAMeter, <<Meter(-150, -2, 70000, 49), Other(103, 60), Other(64001, 2)>>),
         InMemory(SMAMeter, <<Meter(250000, 2, 0, 20000000), Other(103, 60),
                                 Other(64001, 2)>>)>>]}

(* What the theorems on identity and values assume of a device.              *)
ASSUME DevicesAreStandard == StandardDevices
=============================================================================
