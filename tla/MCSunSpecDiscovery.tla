------------------------ MODULE MCSunSpecDiscovery --------------------------
(***************************************************************************)
(* Instances of SunSpecDiscovery with scaled-down addresses: the header at   *)
(* 40, its userData 100, addresses modulo 128, common models of 5 and 6      *)
(* registers, 6 registers of model 160.  Unit 2 is listed twice, as 161 is.  *)
(***************************************************************************)
EXTENDS SunSpecDiscovery

MCUnitIds == <<1, 2, 2>>
MCCommonLengths == {5, 6}

SunSpecUnit(common, entries) ==
    [most |-> 125, suns |-> TRUE, common |-> common, entries |-> entries,
     beyond |-> "exception"]

Absent == [SunSpecUnit(5, <<>>) EXCEPT !.most = 0]
Foreign == [SunSpecUnit(5, <<>>) EXCEPT !.suns = FALSE]
ShortHeader == [SunSpecUnit(5, <<>>) EXCEPT !.most = 2]
Inverter == SunSpecUnit(5, 49 :> <<103, 8>> @@ 59 :> <<160, 9>> @@ 70 :> <<EndOfTable, 0>>)
Meter == SunSpecUnit(6, 50 :> <<203, 2>> @@ 54 :> <<203, 4>> @@ 60 :> <<1, 6>>
                          @@ 68 :> <<EndOfTable, 0>>)
BrokenTable == SunSpecUnit(6, 50 :> <<103, 4>>)
(* Units that return their header, but not all of their common model.        *)
Truncating == [Inverter EXCEPT !.most = 4]
TruncatingBroken == [BrokenTable EXCEPT !.most = 4]
(* One that returns as many registers of it as a shorter common model has.   *)
Clipping == [Meter EXCEPT !.most = 5]
(* No end marker: one table walks into the address that equals ReadHeader,   *)
(* the other wraps around the address space and never ends.                  *)
EndlessEven == [SunSpecUnit(6, <<>>) EXCEPT !.beyond = "zeros"]
EndlessOdd == [SunSpecUnit(5, <<>>) EXCEPT !.beyond = "zeros"]
(* A table with an end, of a unit that answers any address.                  *)
Padded == [Inverter EXCEPT !.beyond = "zeros"]

Units == {Absent, Foreign, ShortHeader, Inverter, Meter, BrokenTable,
          Truncating, TruncatingBroken, EndlessEven, EndlessOdd, Padded, Clipping}

MCDevices == [{1, 2} -> Units]

(* What the theorems on the directory assume of a device.                    *)
ASSUME TablesAreChained == ChainedTables
=============================================================================
