----------------------- MODULE SunSpecDiscoveryProofs -----------------------
(***************************************************************************)
(* Proofs about SunSpecDiscovery, for any devices, ids and lengths: a scan   *)
(* waits for one answer at a time, stalls at two places only, and gives a    *)
(* client the identity of the unit it talks to; and, for devices whose       *)
(* tables are chains, what the user is handed is true of the unit, and so    *)
(* stays its directory.                                                      *)
(*                                                                           *)
(* A scanning client has asked for one of three things: a header, a common   *)
(* model, or a table entry, the last two of a unit that returns at least the *)
(* four registers of a header.  So an entry is never answered by less than   *)
(* its two registers, nor a common model by what looks like an entry.        *)
(*                                                                           *)
(* A client has no directory before it is identified (if no unit truncates   *)
(* its common model), and once it is, an exception does not move it to       *)
(* another unit: so the directory of a walk is what the table of one unit    *)
(* lists below the address the walk has come to.                             *)
(***************************************************************************)
EXTENDS SunSpecDiscovery, TLAPS

Ids == {UnitIds[i] : i \in DOMAIN UnitIds}
Requests == [unit : Ids, address : Address, length : Nat, user : Register]
Responses == [unit : Ids, user : Register, size : Nat, suns : BOOLEAN,
              words : Register \X Register]
Directory == UNION {[S -> Address \X Nat] : S \in SUBSET Register}
Fields == [unitId : Ids \cup {0}, unitIdx : 0 .. Len(UnitIds), headerLength : Nat,
           sunSpecId : Ids \cup {0}, blockAddresses : Directory, pending : Seq(Requests)]
Answers == [kind : {"none", "response", "exception"}, user : Register, size : Nat]
Owners == {"none", "discovery", "user", "dropped"}

(* All requests of a client are to its unit, and so is its identity.         *)
Good(c) ==
    /\ c \in Fields
    /\ \A i \in 1 .. Len(c.pending) : c.pending[i].unit = c.unitId
    /\ c.sunSpecId \in {0, c.unitId}

(* What a scan asks for.                                                     *)
Scans(q, units) ==
    \/ q.length = 4 /\ q.user = ReadHeader
    \/ q.length > 2 /\ q.user = CommonModel /\ units[q.unit].most >= 4
    \/ q.length = 2 /\ units[q.unit].most >= 4

HasStalled(c, a) ==
    \/ a.kind = "exception" /\ c.sunSpecId # 0
    \/ a.kind = "response" /\ a.user = ReadHeader /\ a.size < 4

HostGood(o, c, a, units) ==
    /\ Good(c) /\ Len(c.pending) <= 1
    /\ o \in {"discovery", "user"} => c.unitId # 0
    /\ o = "discovery" =>
          \/ \E q \in Requests : c.pending = <<q>> /\ Scans(q, units)
          \/ c.pending = <<>> /\ HasStalled(c, a)

Types ==
    /\ device \in [Hosts -> Devices] /\ owner \in [Hosts -> Owners]
    /\ client \in [Hosts -> Fields] /\ answered \in [Hosts -> Answers]
    /\ busy \in [Hosts -> 0 .. MaxBusy] /\ reads \in [Hosts -> 0 .. MaxReads]

IInv ==
    /\ Types
    /\ \A h \in Hosts : HostGood(owner[h], client[h], answered[h], device[h])

-----------------------------------------------------------------------------
(* Numbers.                                                                  *)

LEMMA Numbers ==
    /\ AddressMod \in Nat /\ AddressMod > 0 /\ EndOfTable \in Nat /\ 0 \in Register
    /\ HeaderAddress \in Address /\ HeaderAddress + 4 \in Address
    /\ ReadHeader \in Register /\ CommonModel \in Register /\ CommonModel # ReadHeader
    /\ Address \subseteq Register
BY AddressAssumption DEF Address, Register, EndOfTable, CommonModel

LEMMA Wrapped == ASSUME NEW n \in Nat PROVE n % AddressMod \in Address
BY AddressAssumption DEF Address

LEMMA IdsNotZero == Ids \subseteq 1 .. 247 /\ 0 \notin Ids
<1>1. Ids \subseteq 1 .. 247
  <2>0. PICK n \in Nat : n = 247
    OBVIOUS
  <2>1. UnitIds \in Seq(1 .. n)
    BY <2>0, UnitIdsAssumption, Zenon
  <2>2. \A i \in DOMAIN UnitIds : UnitIds[i] \in 1 .. n
    BY <2>1
  <2>3. \A i \in DOMAIN UnitIds : UnitIds[i] \in 1 .. 247
    BY <2>0, <2>2, Zenon
  <2> QED BY <2>3, Zenon DEF Ids
<1> QED BY <1>1

LEMMA EntryAdded ==
    ASSUME NEW d \in Directory, NEW id \in Register, NEW place \in Address \X Nat
    PROVE  [i \in DOMAIN d \cup {id} |-> IF i = id THEN place ELSE d[i]] \in Directory
<1>1. PICK S \in SUBSET Register : d \in [S -> Address \X Nat]
  BY DEF Directory
<1>2. [i \in DOMAIN d \cup {id} |-> IF i = id THEN place ELSE d[i]]
         \in [S \cup {id} -> Address \X Nat]
  BY <1>1
<1> QED BY <1>2 DEF Directory

-----------------------------------------------------------------------------
(* Requests.                                                                 *)

LEMMA ShortLen ==
    ASSUME NEW p, p = <<>> \/ \E q \in Requests : p = <<q>> PROVE Len(p) <= 1
<1>1. CASE p = <<>>
  BY <1>1
<1>2. ASSUME NEW q \in Requests, p = <<q>> PROVE Len(p) <= 1
  <2>1. Len(<<q>>) = 1
    OBVIOUS
  <2>2. Len(p) = 1
    BY <1>2, <2>1, Zenon
  <2> QED BY <2>2
<1> QED BY <1>1, <1>2

LEMMA ReadKeeps ==
    ASSUME NEW c, Good(c), c.unitId # 0,
           NEW address \in Address, NEW length \in Nat, NEW user \in Register
    PROVE  LET d == Read(c, c.unitId, address, length, user)
           IN  /\ Good(d) /\ d.unitId = c.unitId /\ d.sunSpecId = c.sunSpecId
               /\ c.pending = <<>> =>
                     /\ d.pending = <<[unit |-> c.unitId, address |-> address,
                                       length |-> length, user |-> user]>>
                     /\ Len(d.pending) <= 1
<1> DEFINE q == [unit |-> c.unitId, address |-> address, length |-> length, user |-> user]
           d == Read(c, c.unitId, address, length, user)
<1>1. /\ c \in Fields /\ c.pending \in Seq(Requests) /\ c.unitId \in Ids
      /\ \A i \in 1 .. Len(c.pending) : c.pending[i].unit = c.unitId
      /\ c.sunSpecId \in {0, c.unitId}
  BY DEF Good, Fields
<1>2. q \in Requests /\ q.unit = c.unitId
  BY <1>1 DEF Requests
<1>3. /\ d = [c EXCEPT !.pending = Append(c.pending, q)]
      /\ d \in Fields /\ d.pending = Append(c.pending, q)
      /\ d.unitId = c.unitId /\ d.sunSpecId = c.sunSpecId
  <2>1. Append(c.pending, q) \in Seq(Requests)
    BY <1>1, <1>2
  <2>2. d = [c EXCEPT !.pending = Append(c.pending, q)]
    BY Zenon DEF Read
  <2> QED BY <1>1, <2>1, <2>2 DEF Fields
<1>4. \A i \in 1 .. Len(d.pending) : d.pending[i].unit = d.unitId
  <2> HIDE DEF q
  <2> QED BY <1>1, <1>2, <1>3
<1>5. c.pending = <<>> => d.pending = <<q>> /\ Len(d.pending) <= 1
  <2> HIDE DEF q
  <2>1. c.pending = <<>> => d.pending = <<q>>
    BY <1>2, <1>3
  <2>2. PICK p : p = d.pending
    OBVIOUS
  <2>3. c.pending = <<>> => Len(p) <= 1
    BY <1>2, <2>1, <2>2, ShortLen
  <2> QED BY <2>1, <2>2, <2>3
<1> QED BY <1>1, <1>3, <1>4, <1>5 DEF Good

(* nextUnitId(), by a client that waits for nothing and has no identity.     *)
LEMMA ProbeKeeps ==
    ASSUME NEW c, Good(c), c.pending = <<>>, c.sunSpecId = 0, NEW units
    PROVE  LET r == ProbeNextUnitId(c)
           IN  /\ Good(r.client)
               /\ \/ r.event = "close" /\ r.client = c
                  \/ /\ r.event = "none" /\ r.client.unitId # 0
                     /\ \E q \in Requests : r.client.pending = <<q>> /\ Scans(q, units)
<1> DEFINE r == ProbeNextUnitId(c)
<1>1. /\ c \in Fields /\ c.unitIdx \in 0 .. Len(UnitIds) /\ Len(UnitIds) \in Nat
  BY UnitIdsAssumption DEF Good, Fields
<1>2. CASE c.unitIdx >= Len(UnitIds)
  BY <1>2 DEF ProbeNextUnitId, Publish
<1>3. CASE ~(c.unitIdx >= Len(UnitIds))
  <2> DEFINE id == UnitIds[c.unitIdx + 1]
             moved == [c EXCEPT !.unitId = id, !.unitIdx = @ + 1]
  <2>1. c.unitIdx + 1 \in DOMAIN UnitIds /\ c.unitIdx + 1 \in 0 .. Len(UnitIds)
    BY <1>1, <1>3, UnitIdsAssumption
  <2>2. id \in Ids /\ id # 0
    BY <2>1, IdsNotZero DEF Ids
  <2>3. /\ moved \in Fields /\ moved.unitId = id /\ moved.pending = <<>> /\ moved.sunSpecId = 0
    <3> HIDE DEF id
    <3> QED BY <1>1, <2>1, <2>2 DEF Fields
  <2>4. Good(moved)
    <3> HIDE DEF moved
    <3> QED BY <2>3 DEF Good
  <2> DEFINE d == Read(moved, moved.unitId, HeaderAddress, 4, ReadHeader)
             q == [unit |-> id, address |-> HeaderAddress, length |-> 4, user |-> ReadHeader]
  <2>5. Good(d) /\ d.unitId = id /\ d.pending = <<q>>
    <3>0. HeaderAddress \in Address /\ ReadHeader \in Register /\ 4 \in Nat
      BY Numbers
    <3>1. PICK m : m = moved
      OBVIOUS
    <3>2. PICK e : e = Read(m, m.unitId, HeaderAddress, 4, ReadHeader)
      OBVIOUS
    <3>3. Good(m) /\ m.unitId # 0 /\ m.pending = <<>> /\ m.unitId = id
      <4> HIDE DEF moved, id
      <4> QED BY <2>2, <2>3, <2>4, <3>1, Zenon
    <3>4. /\ Good(e) /\ e.unitId = m.unitId
          /\ e.pending = <<[unit |-> m.unitId, address |-> HeaderAddress,
                            length |-> 4, user |-> ReadHeader]>>
      <4> HIDE DEF id
      <4> QED BY <3>0, <3>2, <3>3, ReadKeeps
    <3>5. d = e
      BY <3>1, <3>2, Zenon
    <3> HIDE DEF d, moved, id
    <3> QED BY <3>3, <3>4, <3>5, Zenon
  <2>6. q \in Requests /\ Scans(q, units)
    <3> HIDE DEF id
    <3> QED BY <2>2, Numbers DEF Requests, Scans
  <2>7. r = [client |-> d, event |-> "none"]
    <3>1. r = [client |-> Read(moved, id, HeaderAddress, 4, ReadHeader), event |-> "none"]
      BY <1>3, Zenon DEF ProbeNextUnitId, Quiet
    <3> HIDE DEF moved, id, r
    <3> QED BY <3>1, <2>3, Zenon
  <2> HIDE DEF d, q, id
  <2> QED BY <2>2, <2>5, <2>6, <2>7
<1> QED BY <1>2, <1>3

-----------------------------------------------------------------------------
(* The handlers of a response, by a client that no longer waits for it.      *)

LEMMA ReadModelEntryKeeps ==
    ASSUME NEW c, Good(c), c.unitId # 0, NEW address \in Nat, NEW units,
           units[c.unitId].most >= 4
    PROVE  LET d == ReadModelEntry(c, address)
           IN  /\ Good(d) /\ d.unitId = c.unitId
               /\ c.pending = <<>> =>
                     \E q \in Requests : d.pending = <<q>> /\ Scans(q, units)
<1> DEFINE at == address % AddressMod
           d == ReadModelEntry(c, address)
           q == [unit |-> c.unitId, address |-> at, length |-> 2, user |-> at]
<1>1. at \in Address /\ at \in Register
  BY Wrapped, Numbers
<1>2. d = Read(c, c.unitId, at, 2, at)
  BY Zenon DEF ReadModelEntry
<1>3. Good(d) /\ d.unitId = c.unitId /\ (c.pending = <<>> => d.pending = <<q>>)
  <2> HIDE DEF at, d
  <2> QED BY <1>1, <1>2, ReadKeeps
<1>4. q \in Requests /\ Scans(q, units)
  <2>1. c.unitId \in Ids
    BY DEF Good, Fields
  <2> HIDE DEF at
  <2> QED BY <1>1, <2>1 DEF Requests, Scans
<1> HIDE DEF q
<1> QED BY <1>3, <1>4, Zenon

(* The same without a look at the device, for a client that was handed over. *)
LEMMA ReadModelEntryGood ==
    ASSUME NEW c, Good(c), c.unitId # 0, NEW address \in Nat
    PROVE  LET d == ReadModelEntry(c, address)
           IN  Good(d) /\ d.unitId = c.unitId /\ (c.pending = <<>> => Len(d.pending) <= 1)
<1>1. PICK at \in Address : at = address % AddressMod /\ at \in Register
  BY Wrapped, Numbers
<1>2. PICK d : d = Read(c, c.unitId, at, 2, at)
  OBVIOUS
<1>3. Good(d) /\ d.unitId = c.unitId /\ (c.pending = <<>> => Len(d.pending) <= 1)
  <2>1. PICK two \in Nat : two = 2
    OBVIOUS
  <2>2. d = Read(c, c.unitId, at, two, at)
    BY <1>2, <2>1
  <2>3. Good(d) /\ d.unitId = c.unitId
    BY <1>1, <2>2, ReadKeeps
  <2>4. ASSUME c.pending = <<>> PROVE Len(d.pending) <= 1
    BY <1>1, <2>2, <2>4, ReadKeeps
  <2> QED BY <2>3, <2>4
<1>4. ReadModelEntry(c, address) = d
  BY <1>1, <1>2, Zenon DEF ReadModelEntry
<1> QED BY <1>3, <1>4

LEMMA ReadBlockGood ==
    ASSUME NEW c, Good(c), c.unitId # 0,
           NEW id \in Register, NEW address \in Address, NEW length \in Nat
    PROVE  LET d == ReadBlock(c, id, address, length)
           IN  Good(d) /\ d.unitId = c.unitId /\ (c.pending = <<>> => Len(d.pending) <= 1)
<1>1. PICK d : d = Read(c, c.unitId, address, length, id)
  OBVIOUS
<1>2. Good(d) /\ d.unitId = c.unitId /\ (c.pending = <<>> => Len(d.pending) <= 1)
  BY <1>1, ReadKeeps
<1>3. ReadBlock(c, id, address, length) \in {c, d}
  BY <1>1, Zenon DEF ReadBlock
<1>4. c.pending = <<>> => Len(c.pending) <= 1
  OBVIOUS
<1>5. PICK e : e = ReadBlock(c, id, address, length)
  OBVIOUS
<1>6. e = c \/ e = d
  BY <1>3, <1>5
<1>7. Good(e) /\ e.unitId = c.unitId /\ (c.pending = <<>> => Len(e.pending) <= 1)
  BY <1>2, <1>4, <1>6
<1> QED BY <1>5, <1>7

LEMMA AddModelAddressGood ==
    ASSUME NEW c, Good(c), NEW id \in Register, NEW address \in Nat, NEW length \in Nat
    PROVE  LET d == AddModelAddress(c, id, address, length)
           IN  /\ Good(d) /\ d.unitId = c.unitId /\ d.pending = c.pending
               /\ d.sunSpecId = c.sunSpecId
<1> DEFINE place == <<address % AddressMod, ReadableLength(id, length)>>
           blocks == [i \in DOMAIN c.blockAddresses \cup {id} |->
                         IF i = id THEN place ELSE c.blockAddresses[i]]
           d == AddModelAddress(c, id, address, length)
<1>1. c \in Fields /\ c.blockAddresses \in Directory
  BY DEF Good, Fields
<1>2. place \in Address \X Nat
  <2>1. address % AddressMod \in Address
    BY Wrapped
  <2>2. ReadableLength(id, length) \in Nat
    BY LengthAssumption DEF ReadableLength
  <2> QED BY <2>1, <2>2
<1>3. blocks \in Directory
  <2> HIDE DEF place
  <2> QED BY <1>1, <1>2, EntryAdded
<1>4. d = [c EXCEPT !.blockAddresses = blocks]
  BY Zenon DEF AddModelAddress
<1>5. /\ d \in Fields /\ d.unitId = c.unitId /\ d.pending = c.pending
      /\ d.sunSpecId = c.sunSpecId
  <2> HIDE DEF blocks, d
  <2> QED BY <1>1, <1>3, <1>4 DEF Fields
<1>6. Good(d)
  <2> HIDE DEF d
  <2> QED BY <1>5, Zenon DEF Good
<1> QED BY <1>5, <1>6, Zenon

LEMMA HeadedGood ==
    ASSUME NEW c, Good(c), NEW n \in Nat
    PROVE  LET d == [c EXCEPT !.headerLength = n]
           IN  Good(d) /\ d.unitId = c.unitId /\ d.pending = c.pending
BY DEF Good, Fields

LEMMA IdentifiedGood ==
    ASSUME NEW c, Good(c)
    PROVE  LET d == [c EXCEPT !.sunSpecId = c.unitId]
           IN  /\ Good(d) /\ d.unitId = c.unitId /\ d.pending = c.pending
               /\ d.headerLength = c.headerLength
BY DEF Good, Fields

Entries(c, response) ==
    AddModelAddress(c, response.words[1], response.user + 2, response.words[2])

LEMMA EntriesGood ==
    ASSUME NEW c, Good(c), NEW response \in Responses
    PROVE  /\ Good(Entries(c, response)) /\ Entries(c, response).unitId = c.unitId
           /\ Entries(c, response).pending = c.pending
<1>1. PICK start \in Nat : start = response.user + 2
  BY DEF Responses, Register
<1>2. PICK id \in Register, length \in Register :
         id = response.words[1] /\ length = response.words[2]
  BY DEF Responses
<1>3. length \in Nat
  BY DEF Register
<1>4. Entries(c, response) = AddModelAddress(c, id, start, length)
  BY <1>1, <1>2, Zenon DEF Entries
<1>5. PICK d : d = AddModelAddress(c, id, start, length)
  OBVIOUS
<1>6. Good(d) /\ d.unitId = c.unitId /\ d.pending = c.pending
  BY <1>3, <1>5, AddModelAddressGood
<1> QED BY <1>4, <1>5, <1>6, Zenon

LEMMA ResponseGood ==
    ASSUME NEW c, Good(c), c.unitId # 0, NEW response \in Responses, response.unit = c.unitId
    PROVE  LET r == OnResponse(c, response)
           IN  /\ Good(r.client) /\ r.client.unitId = c.unitId
               /\ r.event \in {"none", "close", "connect"}
               /\ c.pending = <<>> => Len(r.client.pending) <= 1
<1> DEFINE r == OnResponse(c, response)
<1>1. /\ response.user \in Nat /\ response.size \in Nat
      /\ response.words[1] \in Register /\ response.words[2] \in Register
      /\ response.words[2] \in Nat
  BY DEF Responses, Register
<1>2. CASE response.user = ReadHeader
  <2> DEFINE headed == [c EXCEPT !.headerLength = response.words[2]]
             read == ReadBlock(headed, CommonModel, HeaderAddress + 4, response.words[2])
  <2>1. Good(headed) /\ headed.unitId = c.unitId /\ headed.pending = c.pending
    BY <1>1, HeadedGood
  <2>2. Good(read) /\ read.unitId = c.unitId /\ (c.pending = <<>> => Len(read.pending) <= 1)
    <3> HIDE DEF headed
    <3> QED BY <1>1, <2>1, ReadBlockGood, Numbers
  <2>3. \/ r = [client |-> c, event |-> "none"]
        \/ r = [client |-> read, event |-> "none"]
        \/ r = [client |-> headed, event |-> "close"]
    BY <1>2, Zenon DEF OnResponse, OnReadHeader, Quiet, Publish
  <2> HIDE DEF headed, read
  <2> QED BY <2>1, <2>2, <2>3
<1>3. CASE response.user # ReadHeader /\ response.size = 2
  <2> DEFINE added == Entries(c, response)
             at == response.user + 2 + response.words[2]
             read == ReadModelEntry(added, at)
  <2>1. /\ Good(added) /\ added.unitId = c.unitId /\ at \in Nat
        /\ added.pending = c.pending
    BY <1>1, EntriesGood
  <2>2. Good(read) /\ read.unitId = c.unitId /\ (c.pending = <<>> => Len(read.pending) <= 1)
    <3> HIDE DEF added, at
    <3> QED BY <2>1, ReadModelEntryGood
  <2>3. \/ r = [client |-> c, event |-> "connect"]
        \/ r = [client |-> read, event |-> "none"]
    BY <1>3, Zenon DEF OnResponse, OnReadModelEntry, Quiet, Publish, Entries
  <2> HIDE DEF read
  <2> QED BY <2>2, <2>3
<1>4. CASE response.user # ReadHeader /\ response.size # 2
  <2> DEFINE identified == [c EXCEPT !.sunSpecId = response.unit]
             at == HeaderAddress + 4 + c.headerLength
  <2>1. PICK d : d = IF response.size \in CommonLengths THEN identified ELSE c
    OBVIOUS
  <2>2. Good(d) /\ d.unitId = c.unitId /\ d.pending = c.pending
    BY <2>1, IdentifiedGood
  <2>3. at \in Nat
    BY AddressAssumption DEF Good, Fields
  <2>4. PICK read : read = ReadModelEntry(d, at)
    OBVIOUS
  <2>5. Good(read) /\ read.unitId = c.unitId /\ (c.pending = <<>> => Len(read.pending) <= 1)
    <3> HIDE DEF at
    <3> QED BY <2>2, <2>3, <2>4, ReadModelEntryGood
  <2>6. \/ r = [client |-> read, event |-> "none"]
        \/ r = [client |-> c, event |-> "none"]
    BY <1>4, <2>1, <2>4, Zenon DEF OnResponse, OnReadBlock, Quiet
  <2> QED BY <2>5, <2>6
<1> QED BY <1>2, <1>3, <1>4

(* A response to what a scan asked for: the scan asks for the next thing,    *)
(* ends, or drops a header that is too short.                                *)
LEMMA ScanGoesOn ==
    ASSUME NEW c, Good(c), c.unitId # 0, c.pending = <<>>,
           NEW units, NEW q \in Requests, q.unit = c.unitId, Scans(q, units),
           units[c.unitId].most \in Nat,
           NEW response \in Responses, response.unit = c.unitId, response.user = q.user,
           response.size = IF q.length > units[c.unitId].most
                           THEN units[c.unitId].most ELSE q.length,
           OnResponse(c, response).event = "none"
    PROVE  LET d == OnResponse(c, response).client
           IN  \/ \E p \in Requests : d.pending = <<p>> /\ Scans(p, units)
               \/ d.pending = <<>> /\ response.user = ReadHeader /\ response.size < 4
<1> DEFINE r == OnResponse(c, response)
<1>1. /\ response.user \in Nat /\ response.size \in Nat
      /\ response.words[1] \in Register /\ response.words[2] \in Register
      /\ response.words[2] \in Nat
  BY DEF Responses, Register
<1>2. PICK most \in Nat : most = units[c.unitId].most
  OBVIOUS
<1>3. q.length \in Nat
  BY DEF Requests
<1>4. CASE response.user = ReadHeader
  <2> DEFINE headed == [c EXCEPT !.headerLength = response.words[2]]
  <2>1. CASE response.size < 4
    BY <1>4, <2>1 DEF OnResponse, OnReadHeader, Quiet
  <2>2. CASE response.size >= 4
    <3>0. ~(response.size < 4)
      BY <1>1, <2>2
    <3>1. ValidHeader(response)
      BY <1>4, <3>0, Zenon DEF OnResponse, OnReadHeader, Publish
    <3>2. response.words[2] > 2
      BY <3>1, LengthAssumption DEF ValidHeader
    <3>3. PICK h : h = headed
      OBVIOUS
    <3>4. Good(h) /\ h.unitId = c.unitId /\ h.pending = <<>> /\ h.unitId # 0
      BY <1>1, <3>3, HeadedGood
    <3>5. r.client = Read(h, h.unitId, HeaderAddress + 4, response.words[2], CommonModel)
      <4>1. response.words[2] # 2
        BY <1>1, <3>2
      <4> QED BY <1>4, <3>0, <3>1, <3>3, <4>1 DEF OnResponse, OnReadHeader, Quiet, ReadBlock
    <3>6. PICK p : p = [unit |-> h.unitId, address |-> HeaderAddress + 4,
                        length |-> response.words[2], user |-> CommonModel]
      OBVIOUS
    <3>7. r.client.pending = <<p>>
      <4>1. PICK address \in Address : address = HeaderAddress + 4
        BY Numbers
      <4>2. PICK length \in Nat : length = response.words[2]
        BY <1>1
      <4>3. PICK d : d = Read(h, h.unitId, address, length, CommonModel)
        OBVIOUS
      <4>4. CommonModel \in Register
        BY Numbers
      <4>5. d.pending = <<[unit |-> h.unitId, address |-> address,
                           length |-> length, user |-> CommonModel]>>
        BY <3>4, <4>3, <4>4, ReadKeeps
      <4> QED BY <3>5, <3>6, <4>1, <4>2, <4>3, <4>5, Zenon
    <3>8. p \in Requests /\ p.length > 2 /\ p.user = CommonModel /\ p.unit = c.unitId
      <4>1. h.unitId \in Ids
        BY <3>4 DEF Good, Fields
      <4> QED BY <1>1, <3>2, <3>4, <3>6, <4>1, Numbers DEF Requests
    <3>9. most >= 4
      BY <1>1, <1>2, <1>3, <2>2
    <3> QED BY <1>2, <3>7, <3>8, <3>9 DEF Scans
  <2> QED BY <1>1, <2>1, <2>2
<1>5. CASE response.user # ReadHeader
  <2>1. most >= 4 /\ (q.length = 2 \/ (q.length > 2 /\ q.user = CommonModel))
    BY <1>2, <1>5 DEF Scans
  <2>2. CASE q.length = 2
    <3>1. response.size = 2
      BY <1>2, <2>1, <2>2
    <3>2. response.words[1] # EndOfTable
      BY <1>5, <3>1, Zenon DEF OnResponse, OnReadModelEntry, Publish
    <3>3. PICK added : added = Entries(c, response)
      OBVIOUS
    <3>4. PICK at : at = response.user + 2 + response.words[2]
      OBVIOUS
    <3>5. /\ Good(added) /\ added.unitId = c.unitId /\ added.pending = <<>>
          /\ at \in Nat
      BY <1>1, <3>3, <3>4, EntriesGood
    <3>6. r.client = ReadModelEntry(added, at)
      BY <1>5, <3>1, <3>2, <3>3, <3>4 DEF OnResponse, OnReadModelEntry, Quiet, Entries
    <3>7. PICK d : d = ReadModelEntry(added, at)
      OBVIOUS
    <3>8. \E p \in Requests : d.pending = <<p>> /\ Scans(p, units)
      BY <1>2, <2>1, <3>5, <3>7, ReadModelEntryKeeps
    <3> QED BY <3>6, <3>7, <3>8, Zenon
  <2>3. CASE q.length > 2 /\ q.user = CommonModel
    <3>1. response.size # 2
      BY <1>2, <1>3, <2>1, <2>3
    <3>2. PICK d : d = IF response.size \in CommonLengths
                       THEN [c EXCEPT !.sunSpecId = response.unit] ELSE c
      OBVIOUS
    <3>3. Good(d) /\ d.unitId = c.unitId /\ d.pending = <<>>
      BY <3>2, IdentifiedGood
    <3>4. PICK at : at = HeaderAddress + 4 + c.headerLength
      OBVIOUS
    <3>5. at \in Nat
      BY <3>4, AddressAssumption DEF Good, Fields
    <3>6. PICK e : e = ReadModelEntry(d, at)
      OBVIOUS
    <3>7. r.client = e
      BY <1>5, <2>3, <3>1, <3>2, <3>4, <3>6 DEF OnResponse, OnReadBlock, Quiet
    <3>8. \E p \in Requests : e.pending = <<p>> /\ Scans(p, units)
      BY <1>2, <2>1, <3>3, <3>5, <3>6, ReadModelEntryKeeps
    <3> QED BY <3>7, <3>8, Zenon
  <2> QED BY <2>1, <2>2, <2>3
<1> QED BY <1>4, <1>5

-----------------------------------------------------------------------------
(* A step changes what is known of one host.                                 *)

LEMMA OneHost ==
    ASSUME IInv, NEW h \in Hosts, NEW o \in Owners, NEW c, NEW a \in Answers,
           HostGood(o, c, a, device[h]),
           device' = device, owner' = [owner EXCEPT ![h] = o],
           client' = [client EXCEPT ![h] = c], answered' = [answered EXCEPT ![h] = a],
           busy' \in [Hosts -> 0 .. MaxBusy], reads' \in [Hosts -> 0 .. MaxReads]
    PROVE  IInv'
<1>1. c \in Fields
  BY DEF HostGood, Good
<1>2. Types'
  BY <1>1, Zenon DEF IInv, Types
<1>3. ASSUME NEW k \in Hosts
      PROVE  HostGood(owner'[k], client'[k], answered'[k], device'[k])
  <2>1. /\ owner \in [Hosts -> Owners] /\ client \in [Hosts -> Fields]
        /\ answered \in [Hosts -> Answers]
    BY DEF IInv, Types
  <2>2. CASE k = h
    BY <2>1, <2>2, Zenon
  <2>3. CASE k # h
    <3>1. owner'[k] = owner[k] /\ client'[k] = client[k] /\ answered'[k] = answered[k]
      BY <2>1, <2>3, Zenon
    <3> QED BY <3>1, Zenon DEF IInv
  <2> QED BY <2>2, <2>3
<1> QED BY <1>2, <1>3, Zenon DEF IInv

LEMMA DestroyedGood ==
    ASSUME NEW c, Good(c) PROVE Good(Destroyed(c)) /\ Destroyed(c).pending = <<>>
<1>1. <<>> \in Seq(Requests)
  OBVIOUS
<1>2. PICK d : d = Destroyed(c)
  OBVIOUS
<1>3. d \in Fields /\ d.pending = <<>> /\ d.unitId = c.unitId /\ d.sunSpecId = c.sunSpecId
  BY <1>1, <1>2 DEF Good, Fields, Destroyed
<1>4. Good(d)
  BY <1>3 DEF Good
<1> QED BY <1>2, <1>3, <1>4, Zenon

LEMMA HandledKeeps ==
    ASSUME IInv, NEW h \in Hosts, owner[h] \in {"discovery", "user"},
           NEW result, Handled(h, result),
           Good(result.client), result.client.unitId # 0, Len(result.client.pending) <= 1,
           result.event \in {"none", "close", "connect", "error"},
           NEW a \in Answers, answered' = [answered EXCEPT ![h] = a],
           owner[h] = "discovery" /\ result.event = "none" =>
              \/ \E q \in Requests : result.client.pending = <<q>> /\ Scans(q, device[h])
              \/ result.client.pending = <<>> /\ HasStalled(result.client, a),
           device' = device,
           busy' \in [Hosts -> 0 .. MaxBusy], reads' \in [Hosts -> 0 .. MaxReads]
    PROVE  IInv'
<1>1. PICK o : o = IF owner[h] = "discovery" THEN OwnerAfter(result.event) ELSE owner[h]
  OBVIOUS
<1>2. PICK c : c = IF o = "dropped" THEN Destroyed(result.client) ELSE result.client
  OBVIOUS
<1>3. owner' = [owner EXCEPT ![h] = o] /\ client' = [client EXCEPT ![h] = c]
  BY <1>1, <1>2, Zenon DEF Handled
<1>4. o \in Owners
  BY <1>1 DEF OwnerAfter, Owners
<1>5. CASE o = "dropped"
  <2>1. HostGood(o, c, a, device[h])
    BY <1>2, <1>5, DestroyedGood DEF HostGood
  <2> QED BY <1>3, <1>4, <2>1, OneHost
<1>6. CASE o # "dropped"
  <2>1. c = result.client
    BY <1>2, <1>6
  <2>2. o = "discovery" => owner[h] = "discovery" /\ result.event = "none"
    BY <1>1 DEF OwnerAfter
  <2>3. HostGood(o, c, a, device[h])
    BY <2>1, <2>2, Zenon DEF HostGood
  <2> QED BY <1>3, <1>4, <2>3, OneHost
<1> QED BY <1>5, <1>6

(* The request that is answered, and the client that does not wait for it.   *)
LEMMA Asked ==
    ASSUME IInv, NEW h \in Hosts, Active(h)
    PROVE  /\ Request(h) \in Requests /\ Request(h).unit = client[h].unitId
           /\ Good(Asking(h)) /\ Asking(h).unitId = client[h].unitId
           /\ Asking(h).sunSpecId = client[h].sunSpecId /\ client[h].unitId # 0
           /\ Asking(h).pending = <<>>
           /\ owner[h] = "discovery" => Scans(Request(h), device[h])
<1>1. PICK c : c = client[h]
  OBVIOUS
<1>2. HostGood(owner[h], c, answered[h], device[h])
  BY <1>1, Zenon DEF IInv
<1>3. /\ c \in Fields /\ c.pending \in Seq(Requests) /\ c.pending # <<>>
      /\ \A i \in 1 .. Len(c.pending) : c.pending[i].unit = c.unitId
      /\ c.sunSpecId \in {0, c.unitId} /\ c.unitId # 0 /\ Len(c.pending) <= 1
  BY <1>1, <1>2 DEF HostGood, Good, Fields, Active
<1>4. PICK q : q = Head(c.pending)
  OBVIOUS
<1>5. q = c.pending[1] /\ 1 \in 1 .. Len(c.pending)
  BY <1>3, <1>4
<1>6. q \in Requests /\ q.unit = c.unitId
  BY <1>3, <1>5
<1>7. PICK d : d = [c EXCEPT !.pending = Tail(c.pending)]
  OBVIOUS
<1>8. Tail(c.pending) \in Seq(Requests)
  BY <1>3
<1>9. /\ d \in Fields /\ d.pending = Tail(c.pending) /\ d.unitId = c.unitId
      /\ d.sunSpecId = c.sunSpecId
  BY <1>3, <1>7, <1>8 DEF Fields
<1>10. \A i \in 1 .. Len(d.pending) : d.pending[i].unit = d.unitId
  BY <1>3, <1>9
<1>11. Good(d)
  BY <1>3, <1>9, <1>10 DEF Good
<1>14. d.pending = <<>>
  BY <1>3, <1>9
<1>12. owner[h] = "discovery" => Scans(q, device[h])
  <2> SUFFICES ASSUME owner[h] = "discovery" PROVE Scans(q, device[h])
    OBVIOUS
  <2>1. PICK p \in Requests : c.pending = <<p>> /\ Scans(p, device[h])
    BY <1>2, <1>3, Zenon DEF HostGood
  <2>2. p = q
    BY <1>4, <2>1
  <2> QED BY <2>1, <2>2
<1>13. Request(h) = q /\ Asking(h) = d
  BY <1>1, <1>4, <1>7, Zenon DEF Request, Asking
<1> QED BY <1>1, <1>3, <1>6, <1>9, <1>11, <1>12, <1>13, <1>14, Zenon

LEMMA ResponseTyped ==
    ASSUME NEW unit, IsUnit(unit), NEW q \in Requests
    PROVE  /\ Response(unit, q) \in Responses
           /\ Response(unit, q).unit = q.unit /\ Response(unit, q).user = q.user
           /\ Response(unit, q).size = IF q.length > unit.most THEN unit.most ELSE q.length
<1>1. /\ q.unit \in Ids /\ q.user \in Register /\ q.length \in Nat
      /\ unit.most \in Nat /\ unit.common \in Register
      /\ \A a \in DOMAIN unit.entries : unit.entries[a] \in Register \X Register
  BY DEF Requests, IsUnit
<1>2. PICK words : words = Words(unit, q)
  OBVIOUS
<1>3. words \in Register \X Register
  BY <1>1, <1>2, Numbers DEF Words
<1>4. PICK size : size = IF q.length > unit.most THEN unit.most ELSE q.length
  OBVIOUS
<1>5. size \in Nat
  BY <1>1, <1>4
<1>6. PICK suns \in BOOLEAN : suns = (unit.suns /\ q.address = HeaderAddress)
  BY Zenon
<1>7. Response(unit, q) = [unit |-> q.unit, user |-> q.user, size |-> size,
                           suns |-> suns, words |-> words]
  BY <1>2, <1>4, <1>6, Zenon DEF Response
<1> QED BY <1>1, <1>3, <1>4, <1>5, <1>7 DEF Responses

LEMMA RespondKeeps == ASSUME IInv, NEW h \in Hosts, Respond(h) PROVE IInv'
<1>1. PICK q : q = Request(h)
  OBVIOUS
<1>2. PICK c : c = Asking(h)
  OBVIOUS
<1>3. Active(h)
  BY DEF Respond
<1>4. /\ q \in Requests /\ q.unit = c.unitId /\ Good(c) /\ c.unitId # 0
      /\ c.pending = <<>> /\ (owner[h] = "discovery" => Scans(q, device[h]))
  BY <1>1, <1>2, <1>3, Asked, Zenon
<1>5. device \in [Hosts -> Devices] /\ device[h] \in Devices
  BY DEF IInv, Types
<1>6. PICK unit : unit = device[h][q.unit]
  OBVIOUS
<1>7. IsUnit(unit)
  <2>1. q.unit \in Ids
    BY <1>4 DEF Requests
  <2> QED BY <1>5, <1>6, <2>1, DevicesAssumption, Zenon DEF Ids
<1>8. PICK response : response = Response(unit, q)
  OBVIOUS
<1>9. /\ response \in Responses /\ response.unit = c.unitId /\ response.user = q.user
      /\ response.size = IF q.length > unit.most THEN unit.most ELSE q.length
  BY <1>4, <1>7, <1>8, ResponseTyped, Zenon
<1>10. PICK result : result = OnResponse(c, response)
  OBVIOUS
<1>11. /\ Good(result.client) /\ result.client.unitId = c.unitId
       /\ result.event \in {"none", "close", "connect"}
       /\ Len(result.client.pending) <= 1
  BY <1>4, <1>9, <1>10, ResponseGood
<1>12. PICK a : a = [kind |-> "response", user |-> q.user, size |-> response.size]
  OBVIOUS
<1>13. a \in Answers
  BY <1>4, <1>9, <1>12 DEF Answers, Requests, Responses
<1>14. Handled(h, result)
  BY <1>1, <1>2, <1>6, <1>8, <1>10, Zenon DEF Respond
<1>15. answered' = [answered EXCEPT ![h] = a]
  BY <1>1, <1>2, <1>6, <1>8, <1>12, Zenon DEF Respond, Answer
<1>16. device' = device /\ busy' = busy /\ reads' = reads
  BY DEF Respond
<1>17. owner[h] = "discovery" /\ result.event = "none" =>
          \/ \E p \in Requests : result.client.pending = <<p>> /\ Scans(p, device[h])
          \/ result.client.pending = <<>> /\ HasStalled(result.client, a)
  <2> SUFFICES ASSUME owner[h] = "discovery", result.event = "none"
               PROVE  \/ \E p \in Requests : result.client.pending = <<p>> /\ Scans(p, device[h])
                      \/ result.client.pending = <<>> /\ HasStalled(result.client, a)
    OBVIOUS
  <2>1. PICK units : units = device[h]
    OBVIOUS
  <2>2. unit = units[c.unitId] /\ unit.most \in Nat
    BY <1>4, <1>6, <1>7, <2>1 DEF IsUnit
  <2>3. \/ \E p \in Requests : result.client.pending = <<p>> /\ Scans(p, units)
        \/ result.client.pending = <<>> /\ response.user = ReadHeader /\ response.size < 4
    BY <1>4, <1>9, <1>10, <2>1, <2>2, ScanGoesOn
  <2>4. response.user = ReadHeader /\ response.size < 4 => HasStalled(result.client, a)
    BY <1>9, <1>12 DEF HasStalled
  <2> QED BY <2>1, <2>3, <2>4
<1>18. busy' \in [Hosts -> 0 .. MaxBusy] /\ reads' \in [Hosts -> 0 .. MaxReads]
  BY <1>16 DEF IInv, Types
<1>19. owner[h] \in {"discovery", "user"} /\ result.client.unitId # 0
  BY <1>3, <1>4, <1>11 DEF Active
<1> QED BY <1>11, <1>13, <1>14, <1>15, <1>16, <1>17, <1>18, <1>19, HandledKeeps

LEMMA ExceptKeeps == ASSUME IInv, NEW h \in Hosts, Except(h) PROVE IInv'
<1>1. PICK q : q = Request(h)
  OBVIOUS
<1>2. PICK c : c = Asking(h)
  OBVIOUS
<1>3. Active(h)
  BY DEF Except
<1>4. q \in Requests /\ Good(c) /\ c.unitId # 0 /\ c.pending = <<>>
  BY <1>1, <1>2, <1>3, Asked, Zenon
<1>5. PICK result : result = OnException(c, owner[h])
  OBVIOUS
<1>6. PICK a : a = [kind |-> "exception", user |-> q.user, size |-> 0]
  OBVIOUS
<1>7. a \in Answers
  BY <1>4, <1>6 DEF Answers, Requests
<1>8. Handled(h, result) /\ device' = device /\ reads' = reads
  BY <1>2, <1>5, Zenon DEF Except
<1>9. answered' = [answered EXCEPT ![h] = a]
  BY <1>1, <1>6, Zenon DEF Except, Answer
<1>10. busy' \in [Hosts -> 0 .. MaxBusy] /\ reads' \in [Hosts -> 0 .. MaxReads]
  <2>1. busy \in [Hosts -> 0 .. MaxBusy] /\ reads \in [Hosts -> 0 .. MaxReads]
    BY DEF IInv, Types
  <2>2. \/ busy' = busy
        \/ busy[h] < MaxBusy /\ busy' = [busy EXCEPT ![h] = @ + 1]
    BY Zenon DEF Except
  <2> QED BY <1>8, <2>1, <2>2, BoundsAssumption
<1>11. owner[h] \in {"discovery", "user"}
  BY <1>3 DEF Active
<1>12. CASE owner[h] = "discovery" /\ c.sunSpecId = 0
  <2>1. result = ProbeNextUnitId(c)
    BY <1>5, <1>12 DEF OnException
  <2>2. PICK units : units = device[h]
    OBVIOUS
  <2>3. /\ Good(result.client)
        /\ \/ result.event = "close" /\ result.client = c
           \/ /\ result.event = "none" /\ result.client.unitId # 0
              /\ \E p \in Requests : result.client.pending = <<p>> /\ Scans(p, units)
    BY <1>4, <1>12, <2>1, ProbeKeeps
  <2>6. Len(result.client.pending) <= 1
    <3>1. PICK p : p = result.client.pending
      OBVIOUS
    <3>2. p = <<>> \/ \E q0 \in Requests : p = <<q0>>
      BY <1>4, <2>3, <3>1, Zenon
    <3> QED BY <3>1, <3>2, ShortLen
  <2>4. result.client.unitId # 0 /\ result.event \in {"none", "close", "connect", "error"}
    BY <1>4, <2>3
  <2>5. owner[h] = "discovery" /\ result.event = "none" =>
           \/ \E p \in Requests : result.client.pending = <<p>> /\ Scans(p, device[h])
           \/ result.client.pending = <<>> /\ HasStalled(result.client, a)
    BY <2>2, <2>3
  <2> QED BY <1>7, <1>8, <1>9, <1>10, <1>11, <2>3, <2>4, <2>5, <2>6, HandledKeeps
<1>13. CASE ~(owner[h] = "discovery" /\ c.sunSpecId = 0)
  <2>1. result = [client |-> c, event |-> "none"]
    BY <1>5, <1>13 DEF OnException, Quiet
  <2>2. result.client = c /\ result.event = "none"
    BY <2>1
  <2>3. owner[h] = "discovery" => HasStalled(c, a)
    BY <1>4, <1>6, <1>13 DEF HasStalled
  <2>4. /\ Good(result.client) /\ result.client.unitId # 0
        /\ Len(result.client.pending) <= 1
        /\ result.event \in {"none", "close", "connect", "error"}
    BY <1>4, <2>2
  <2>5. owner[h] = "discovery" /\ result.event = "none" =>
           \/ \E p \in Requests : result.client.pending = <<p>> /\ Scans(p, device[h])
           \/ result.client.pending = <<>> /\ HasStalled(result.client, a)
    BY <1>4, <2>2, <2>3
  <2> QED BY <1>7, <1>8, <1>9, <1>10, <1>11, <2>4, <2>5, HandledKeeps
<1> QED BY <1>12, <1>13

LEMMA NewClientGood == Good(NewClient) /\ NewClient.pending = <<>> /\ NewClient.sunSpecId = 0
<1>1. <<>> \in Seq(Requests) /\ Len(<<>>) = 0
  OBVIOUS
<1>2. <<>> \in Directory
  <2>1. <<>> \in [{} -> Address \X Nat]
    OBVIOUS
  <2> QED BY <2>1 DEF Directory
<1>3. 0 \in 0 .. Len(UnitIds) /\ 0 \in Nat
  BY UnitIdsAssumption
<1>4. NewClient \in Fields
  BY <1>1, <1>2, <1>3 DEF NewClient, Fields
<1> QED BY <1>1, <1>4 DEF NewClient, Good

LEMMA DiscoverKeeps == ASSUME IInv, NEW h \in Hosts, Discover(h) PROVE IInv'
<1>1. PICK r : r = ProbeNextUnitId(NewClient)
  OBVIOUS
<1>2. PICK units : units = device[h]
  OBVIOUS
<1>3. PICK fresh : fresh = NewClient
  OBVIOUS
<1>4. /\ Good(r.client)
      /\ \/ r.event = "close" /\ r.client = fresh
         \/ /\ r.event = "none" /\ r.client.unitId # 0
            /\ \E q \in Requests : r.client.pending = <<q>> /\ Scans(q, units)
  BY <1>1, <1>3, NewClientGood, ProbeKeeps
<1>5. r.event # "close"
  <2>1. NewClient.unitIdx = 0 /\ ~(0 >= Len(UnitIds))
    BY UnitIdsAssumption DEF NewClient
  <2>2. r.event = "none"
    BY <1>1, <2>1 DEF ProbeNextUnitId, Quiet
  <2> QED BY <2>2
<1>6. PICK a : a = answered[h]
  OBVIOUS
<1>14. Len(r.client.pending) <= 1
  <2>1. PICK p : p = r.client.pending
    OBVIOUS
  <2>2. \E q \in Requests : p = <<q>>
    BY <1>4, <1>5, <2>1, Zenon
  <2> QED BY <2>1, <2>2, ShortLen
<1>7. HostGood("discovery", r.client, a, device[h])
  BY <1>2, <1>4, <1>5, <1>14 DEF HostGood
<1>8. answered \in [Hosts -> Answers] /\ busy \in [Hosts -> 0 .. MaxBusy]
      /\ reads \in [Hosts -> 0 .. MaxReads]
  BY DEF IInv, Types
<1>9. /\ device' = device /\ owner' = [owner EXCEPT ![h] = "discovery"]
      /\ client' = [client EXCEPT ![h] = r.client] /\ answered' = answered
      /\ busy' = busy /\ reads' = reads
  BY <1>1, Zenon DEF Discover, Started
<1>10. a \in Answers /\ answered' = [answered EXCEPT ![h] = a]
  BY <1>6, <1>8, <1>9
<1>11. "discovery" \in Owners
  BY DEF Owners
<1>12. busy' \in [Hosts -> 0 .. MaxBusy] /\ reads' \in [Hosts -> 0 .. MaxReads]
  BY <1>8, <1>9
<1>13. PICK c : c = r.client
  OBVIOUS
<1> QED BY <1>7, <1>9, <1>10, <1>11, <1>12, <1>13, OneHost

LEMMA ConnectionLostKeeps == ASSUME IInv, NEW h \in Hosts, ConnectionLost(h) PROVE IInv'
<1>1. PICK event \in {"close", "error"} :
         Handled(h, Publish([client[h] EXCEPT !.pending = <<>>], event))
  BY Zenon DEF ConnectionLost
<1>2. PICK c : c = client[h]
  OBVIOUS
<1>3. owner[h] \in {"discovery", "user"}
  BY DEF ConnectionLost
<1>4. Good(c) /\ c.unitId # 0
  BY <1>2, <1>3 DEF IInv, HostGood
<1>5. PICK result : result = [client |-> Destroyed(c), event |-> event]
  OBVIOUS
<1>6. Handled(h, result)
  BY <1>1, <1>2, <1>5, Zenon DEF Publish, Destroyed
<1>7. /\ Good(result.client) /\ result.client.unitId # 0 /\ Len(result.client.pending) <= 1
      /\ result.event \in {"close", "error"}
  <2>1. Good(Destroyed(c)) /\ Destroyed(c).pending = <<>>
    BY <1>4, DestroyedGood
  <2>2. Destroyed(c).unitId = c.unitId
    BY <1>4 DEF Destroyed, Good, Fields
  <2>3. result.client = Destroyed(c) /\ result.event = event
    BY <1>5
  <2> QED BY <1>4, <2>1, <2>2, <2>3
<1>8. answered \in [Hosts -> Answers] /\ busy \in [Hosts -> 0 .. MaxBusy]
      /\ reads \in [Hosts -> 0 .. MaxReads]
  BY DEF IInv, Types
<1>9. device' = device /\ answered' = answered /\ busy' = busy /\ reads' = reads
  BY DEF ConnectionLost
<1>10. PICK a : a = answered[h]
  OBVIOUS
<1>11. a \in Answers /\ answered' = [answered EXCEPT ![h] = a]
  BY <1>8, <1>9, <1>10
<1>12. busy' \in [Hosts -> 0 .. MaxBusy] /\ reads' \in [Hosts -> 0 .. MaxReads]
  BY <1>8, <1>9
<1>13. result.event \in {"none", "close", "connect", "error"} /\ result.event # "none"
  BY <1>7
<1> QED BY <1>3, <1>6, <1>7, <1>9, <1>11, <1>12, <1>13, HandledKeeps

(* The user's calls, of which no answer is handled.                          *)
LEMMA UserKeeps ==
    ASSUME IInv, NEW h \in Hosts, NEW o \in {"user", "dropped"}, NEW c, Good(c),
           o = "user" => c.unitId # 0, Len(c.pending) <= 1,
           owner' = [owner EXCEPT ![h] = o], client' = [client EXCEPT ![h] = c],
           device' = device, answered' = answered, busy' = busy,
           reads' \in [Hosts -> 0 .. MaxReads]
    PROVE  IInv'
<1>1. PICK a : a = answered[h]
  OBVIOUS
<1>2. answered \in [Hosts -> Answers] /\ busy \in [Hosts -> 0 .. MaxBusy]
  BY DEF IInv, Types
<1>3. a \in Answers /\ answered' = [answered EXCEPT ![h] = a]
  BY <1>1, <1>2
<1>4. HostGood(o, c, a, device[h]) /\ o \in Owners
  BY DEF HostGood, Owners
<1>5. busy' \in [Hosts -> 0 .. MaxBusy]
  BY <1>2
<1> QED BY <1>3, <1>4, <1>5, OneHost

LEMMA UserReadModelKeeps == ASSUME IInv, NEW h \in Hosts, UserReadModel(h) PROVE IInv'
<1>1. PICK id \in DOMAIN client[h].blockAddresses :
         client' = [client EXCEPT ![h] = ReadModel(client[h], id)]
  BY Zenon DEF UserReadModel
<1>2. PICK c : c = client[h]
  OBVIOUS
<1>3. owner[h] = "user" /\ Good(c) /\ c.unitId # 0 /\ c.pending = <<>>
  BY <1>2 DEF UserReadModel, IInv, HostGood
<1>4. PICK place : place = c.blockAddresses[id]
  OBVIOUS
<1>5. id \in Register /\ place \in Address \X Nat
  <2>1. c.blockAddresses \in Directory
    BY <1>3 DEF Good, Fields
  <2>2. PICK S \in SUBSET Register : c.blockAddresses \in [S -> Address \X Nat]
    BY <2>1 DEF Directory
  <2> QED BY <1>1, <1>2, <1>4, <2>2
<1>6. PICK address \in Address, length \in Nat : address = place[1] /\ length = place[2]
  BY <1>5
<1>7. PICK d : d = ReadBlock(c, id, address, length)
  OBVIOUS
<1>8. Good(d) /\ d.unitId = c.unitId /\ Len(d.pending) <= 1
  BY <1>3, <1>5, <1>6, <1>7, ReadBlockGood
<1>9. client' = [client EXCEPT ![h] = d]
  BY <1>1, <1>2, <1>4, <1>6, <1>7, Zenon DEF ReadModel
<1>10. owner' = [owner EXCEPT ![h] = "user"]
  <2>1. owner \in [Hosts -> Owners] /\ owner' = owner
    BY DEF UserReadModel, IInv, Types
  <2> QED BY <1>3, <2>1
<1>11. reads' \in [Hosts -> 0 .. MaxReads]
  <2>1. reads \in [Hosts -> 0 .. MaxReads] /\ reads[h] < MaxReads
        /\ reads' = [reads EXCEPT ![h] = @ + 1]
    BY DEF UserReadModel, IInv, Types
  <2> QED BY <2>1, BoundsAssumption
<1>12. device' = device /\ answered' = answered /\ busy' = busy
  BY DEF UserReadModel
<1>13. PICK o : o = "user"
  OBVIOUS
<1> QED BY <1>3, <1>8, <1>9, <1>10, <1>11, <1>12, <1>13, UserKeeps

LEMMA UserDropKeeps == ASSUME IInv, NEW h \in Hosts, UserDrop(h) PROVE IInv'
<1>1. PICK c : c = client[h]
  OBVIOUS
<1>2. Good(c)
  BY <1>1 DEF IInv, HostGood
<1>3. PICK d : d = Destroyed(c)
  OBVIOUS
<1>4. Good(d) /\ Len(d.pending) <= 1
  BY <1>2, <1>3, DestroyedGood
<1>5. /\ client' = [client EXCEPT ![h] = d] /\ owner' = [owner EXCEPT ![h] = "dropped"]
      /\ device' = device /\ answered' = answered /\ busy' = busy /\ reads' = reads
  BY <1>1, <1>3, Zenon DEF UserDrop
<1>6. reads' \in [Hosts -> 0 .. MaxReads]
  BY <1>5 DEF IInv, Types
<1>7. PICK o : o = "dropped"
  OBVIOUS
<1> QED BY <1>4, <1>5, <1>6, <1>7, UserKeeps

LEMMA StepKeeps == IInv /\ [Next]_vars => IInv'
<1> SUFFICES ASSUME IInv, [Next]_vars PROVE IInv'
  OBVIOUS
<1>1. CASE Next
  BY <1>1, DiscoverKeeps, RespondKeeps, ExceptKeeps, ConnectionLostKeeps, UserReadModelKeeps,
     UserDropKeeps DEF Next
<1>2. CASE UNCHANGED vars
  BY <1>2, Zenon DEF vars, IInv, Types
<1> QED BY <1>1, <1>2

LEMMA InitHolds == Init => IInv
<1> SUFFICES ASSUME Init PROVE IInv
  OBVIOUS
<1>1. NewClient \in Fields
  BY NewClientGood DEF Good
<1>2. NoAnswer \in Answers
  BY Numbers DEF NoAnswer, Answers
<1>3. 0 \in 0 .. MaxBusy /\ 0 \in 0 .. MaxReads /\ "none" \in Owners
  BY BoundsAssumption DEF Owners
<1>4. Types
  BY <1>1, <1>2, <1>3, Zenon DEF Init, Types
<1>5. ASSUME NEW h \in Hosts PROVE HostGood(owner[h], client[h], answered[h], device[h])
  <2>1. owner[h] = "none" /\ client[h] = NewClient
    BY Zenon DEF Init
  <2> QED BY <2>1, NewClientGood DEF HostGood
<1> QED BY <1>4, <1>5, Zenon DEF IInv

LEMMA Inductive == Spec => []IInv
BY InitHolds, StepKeeps, PTL DEF Spec

-----------------------------------------------------------------------------
(* A sequence of members of a set is one of a larger set.                    *)
LEMMA SeqOfMore ==
  ASSUME NEW S, NEW T, S \subseteq T, NEW s \in Seq(S)
  PROVE  s \in Seq(T)
<1>1. \A i \in 1 .. Len(s) : s[i] \in T
  OBVIOUS
<1> QED BY <1>1

-----------------------------------------------------------------------------
(* The theorems.                                                             *)

(* The fields of every client keep their types, addresses their 16 bits.     *)
THEOREM ScanTypeCorrect == Spec => []TypeOK
<1>1. IInv => TypeOK
  <2> SUFFICES ASSUME IInv PROVE TypeOK
    OBVIOUS
  <2>1. Types
    BY DEF IInv
  <2>2. ASSUME NEW h \in Hosts
        PROVE  /\ client[h].unitId \in 0 .. 247
               /\ client[h].unitIdx \in 0 .. Len(UnitIds)
               /\ client[h].headerLength \in Nat /\ client[h].sunSpecId \in 0 .. 247
               /\ \A id \in DOMAIN client[h].blockAddresses :
                     client[h].blockAddresses[id] \in Address \X Nat
               /\ client[h].pending \in Seq([unit : 1 .. 247, address : Address,
                                             length : Nat, user : Register])
               /\ answered[h].kind \in {"none", "response", "exception"}
    <3>1. PICK c \in Fields : c = client[h]
      BY <2>1 DEF Types
    <3>2. PICK n \in Nat : n = 247
      OBVIOUS
    <3>3. Ids \subseteq 1 .. n
      BY <3>2, IdsNotZero, Zenon
    <3>4. c.unitId \in 0 .. n /\ c.sunSpecId \in 0 .. n
      <4>1. c.unitId \in Ids \cup {0} /\ c.sunSpecId \in Ids \cup {0}
        BY DEF Fields
      <4>2. \A id \in Ids : id \in 0 .. n
        BY <3>3
      <4> QED BY <4>1, <4>2
    <3>5. c.pending \in Seq([unit : 1 .. n, address : Address, length : Nat, user : Register])
      <4>1. c.pending \in Seq(Requests)
        BY DEF Fields
      <4>2. Requests \subseteq [unit : 1 .. n, address : Address, length : Nat, user : Register]
        BY <3>3 DEF Requests
      <4>3. PICK s \in Seq(Requests) : s = c.pending
        BY <4>1
      <4>4. PICK T : T = [unit : 1 .. n, address : Address, length : Nat, user : Register]
        OBVIOUS
      <4>5. s \in Seq(T)
        BY <4>2, <4>4, SeqOfMore
      <4> QED BY <4>3, <4>4, <4>5, Zenon
    <3>6. \A id \in DOMAIN c.blockAddresses : c.blockAddresses[id] \in Address \X Nat
      <4>1. PICK S \in SUBSET Register : c.blockAddresses \in [S -> Address \X Nat]
        BY DEF Fields, Directory
      <4> QED BY <4>1
    <3>7. c.unitIdx \in 0 .. Len(UnitIds) /\ c.headerLength \in Nat
      BY DEF Fields
    <3>8. answered[h].kind \in {"none", "response", "exception"}
      BY <2>1 DEF Types, Answers
    <3> QED BY <3>1, <3>2, <3>4, <3>5, <3>6, <3>7, <3>8, Zenon
  <2> QED BY <2>1, <2>2, Zenon DEF Types, TypeOK, Owners
<1> QED BY <1>1, Inductive, PTL

(* A client waits for one answer at a time, while it scans and in the hands  *)
(* of a user that asks for one thing at a time.                              *)
THEOREM OneOutstandingCorrect == Spec => []OneOutstanding
<1>1. IInv => OneOutstanding
  BY DEF IInv, HostGood, OneOutstanding
<1> QED BY <1>1, Inductive, PTL

(* The early returns after which nothing is asked any more are two.          *)
THEOREM StallsCorrect == Spec => []StallsExplained
<1>1. IInv => StallsExplained
  <2> SUFFICES ASSUME IInv, NEW h \in Hosts, Stalled(h)
               PROVE  \/ answered[h].kind = "exception" /\ client[h].sunSpecId # 0
                      \/ answered[h].kind = "response" /\ answered[h].user = ReadHeader
                            /\ answered[h].size < 4
    BY DEF StallsExplained
  <2>1. owner[h] = "discovery" /\ client[h].pending = <<>>
    BY DEF Stalled
  <2>2. \A q \in Requests : client[h].pending # <<q>>
    BY <2>1
  <2> QED BY <2>1, <2>2 DEF IInv, HostGood, HasStalled
<1> QED BY <1>1, Inductive, PTL

(* The identity of a client is that of the unit it talks to.                 *)
THEOREM IdentityCorrect == Spec => []IdentityOfUnit
<1>1. IInv => IdentityOfUnit
  BY DEF IInv, HostGood, Good, IdentityOfUnit
<1> QED BY <1>1, Inductive, PTL

-----------------------------------------------------------------------------
(* The directory.                                                            *)

Identifiable(unit) == unit.most >= 4 /\ unit.suns /\ unit.common \in CommonLengths
Identity(c, unit) == IF Truncates(unit) THEN 0 ELSE c.unitId

(* Where a walk along the table of a unit may read.                          *)
OnTable(unit, p) == p = TableStart(unit) \/ \E a \in Table(unit) : p = Behind(unit, a)

(* The last entry of a model below p.                                        *)
LastBelow(unit, id, p, a) ==
    /\ a \in EntriesOf(unit, id) /\ a < p
    /\ \A b \in EntriesOf(unit, id) : b < p => b <= a

(* A walk has come to p, if it ever comes to an end.                         *)
WalkedTo(unit, blocks, p) ==
    HasEnd(unit) =>
        /\ OnTable(unit, p)
        /\ DOMAIN blocks = {unit.entries[a][1] : a \in {b \in Table(unit) : b < p}}
        /\ \A id \in DOMAIN blocks : \E a \in DOMAIN unit.entries :
              LastBelow(unit, id, p, a) /\ blocks[id] = Place(unit, a)

Unidentified(c, units) == c.sunSpecId = 0 /\ (Whole(units) => DOMAIN c.blockAddresses = {})

(* What a scan waits for, and what it knows then.                            *)
AsksHeader(c, q, units) ==
    q.length = 4 /\ q.user = ReadHeader /\ Unidentified(c, units)
AsksCommon(c, q, units) ==
    /\ q.length > 2 /\ q.user = CommonModel /\ Identifiable(units[c.unitId])
    /\ q.length = units[c.unitId].common /\ c.headerLength = q.length
    /\ Unidentified(c, units)
AsksEntry(c, q, units) ==
    /\ q.length = 2 /\ q.user = q.address /\ Identifiable(units[c.unitId])
    /\ c.headerLength = units[c.unitId].common /\ c.sunSpecId = Identity(c, units[c.unitId])
    /\ Whole(units) => WalkedTo(units[c.unitId], c.blockAddresses, q.address)
Asks(c, q, units) ==
    AsksHeader(c, q, units) \/ AsksCommon(c, q, units) \/ AsksEntry(c, q, units)

(* A client the user holds knows the models of its unit, and reads table     *)
(* entries of it only.                                                       *)
Listed(blocks, unit) ==
    /\ DOMAIN blocks = ModelIds(unit)
    /\ \A id \in DOMAIN blocks : \E a \in EntriesOf(unit, id) : blocks[id] = Place(unit, a)
Owned(c, unit) ==
    /\ Identifiable(unit) /\ HasEnd(unit) /\ c.headerLength = unit.common
    /\ Listed(c.blockAddresses, unit)
    /\ \A i \in 1 .. Len(c.pending) : c.pending[i].length = 2 =>
          c.pending[i].user = c.pending[i].address /\ OnTable(unit, c.pending[i].address)

Walks(o, c, units) ==
    /\ o = "discovery" => \A q \in Requests : c.pending = <<q>> => Asks(c, q, units)
    /\ o = "user" /\ Whole(units) => Owned(c, units[c.unitId])

DInv == \A h \in Hosts : Walks(owner[h], client[h], device[h])

-----------------------------------------------------------------------------
(* Tables.                                                                   *)

(* Numbers of a table.                                                       *)
LEMMA TableTyped ==
    ASSUME NEW unit, IsUnit(unit), NEW a \in DOMAIN unit.entries
    PROVE  /\ a \in Nat /\ a < AddressMod /\ AddressMod \in Nat
           /\ unit.entries[a][1] \in Nat /\ unit.entries[a][2] \in Nat
           /\ Behind(unit, a) \in Nat /\ Behind(unit, a) > a
<1>1. a \in Address /\ unit.entries[a] \in Register \X Register
  BY DEF IsUnit
<1>2. PICK length \in Register : length = unit.entries[a][2]
  BY <1>1
<1>3. length \in Nat /\ a \in Nat
  BY <1>1 DEF Register, Address
<1> QED BY <1>1, <1>2, <1>3, AddressAssumption DEF Address, Register, Behind

LEMMA StartTyped ==
    ASSUME NEW unit, IsUnit(unit) PROVE TableStart(unit) \in Nat
BY AddressAssumption DEF IsUnit, Register, TableStart

(* addModelAddress() of an entry: the place of the model it announces.       *)
LEMMA PlaceOfEntry ==
    ASSUME NEW unit, IsUnit(unit), Chained(unit), NEW a \in Table(unit)
    PROVE  <<(a + 2) % AddressMod,
             ReadableLength(unit.entries[a][1], unit.entries[a][2])>> = Place(unit, a)
<1>1. a \in DOMAIN unit.entries
  BY DEF Table
<1>2. PICK length \in Nat : length = unit.entries[a][2]
  BY <1>1, TableTyped
<1>3. a \in Nat /\ AddressMod \in Nat /\ a + 2 + length < AddressMod
  BY <1>1, <1>2, TableTyped DEF Chained, Behind
<1>4. (a + 2) % AddressMod = a + 2
  BY <1>3
<1>5. ReadableLength(unit.entries[a][1], length) =
         IF unit.entries[a][1] = InverterMpptExtension
         THEN Smaller(length, MpptLimit) ELSE length
  BY LengthAssumption DEF ReadableLength, Smaller
<1> QED BY <1>2, <1>4, <1>5, Zenon DEF Place

(* Every place a walk reads is one of the address space.                     *)
LEMMA OnTableTyped ==
    ASSUME NEW unit, IsUnit(unit), Chained(unit), HasEnd(unit), NEW p, OnTable(unit, p)
    PROVE  p \in Nat /\ p < AddressMod /\ TableStart(unit) <= p /\ p % AddressMod = p
<1>1. TableStart(unit) \in Nat /\ AddressMod \in Nat
  BY StartTyped, AddressAssumption
<1>2. PICK e \in DOMAIN unit.entries : unit.entries[e][1] = EndOfTable
  BY DEF HasEnd
<1>3. e \in Nat /\ e < AddressMod /\ TableStart(unit) <= e
  BY <1>2, TableTyped DEF Chained
<1>4. CASE p = TableStart(unit)
  BY <1>1, <1>3, <1>4
<1>5. ASSUME NEW a \in Table(unit), p = Behind(unit, a)
      PROVE  p \in Nat /\ p < AddressMod /\ TableStart(unit) <= p
  <2>1. a \in DOMAIN unit.entries
    BY DEF Table
  <2>2. a \in Nat /\ Behind(unit, a) \in Nat /\ Behind(unit, a) > a
    BY <2>1, TableTyped
  <2>3. TableStart(unit) <= a /\ Behind(unit, a) < AddressMod
    BY <2>1 DEF Chained
  <2> QED BY <1>1, <1>5, <2>2, <2>3
<1>6. p \in Nat /\ p < AddressMod /\ TableStart(unit) <= p
  BY <1>1, <1>3, <1>4, <1>5 DEF OnTable
<1> QED BY <1>1, <1>6

(* What a unit with an end marker answers on its table is an entry.          *)
LEMMA AnsweredIsEntry ==
    ASSUME NEW unit, IsUnit(unit), Chained(unit), HasEnd(unit),
           NEW q, q.length = 2, OnTable(unit, q.address), ~Excepts(unit, q)
    PROVE  q.address \in DOMAIN unit.entries
<1>1. CASE unit.beyond = "exception"
  BY <1>1 DEF Excepts, IsTableRead
<1>2. CASE unit.beyond = "zeros"
  BY <1>2 DEF Chained, OnTable
<1> QED BY <1>1, <1>2 DEF IsUnit

LEMMA WalkStarts ==
    ASSUME NEW unit, IsUnit(unit), Chained(unit), NEW blocks, DOMAIN blocks = {}
    PROVE  WalkedTo(unit, blocks, TableStart(unit))
<1>1. ASSUME NEW a \in Table(unit), a < TableStart(unit) PROVE FALSE
  <2>1. a \in DOMAIN unit.entries /\ TableStart(unit) \in Nat
    BY StartTyped DEF Table
  <2>2. a \in Nat /\ TableStart(unit) <= a
    BY <2>1, TableTyped DEF Chained
  <2> QED BY <1>1, <2>1, <2>2
<1>2. DOMAIN blocks = {unit.entries[a][1] : a \in {b \in Table(unit) : b < TableStart(unit)}}
  BY <1>1
<1> QED BY <1>2, Zenon DEF WalkedTo, OnTable

(* No entry lies between an entry and what is behind it.                     *)
LEMMA BelowBehind ==
    ASSUME NEW unit, IsUnit(unit), Chained(unit), NEW p \in Table(unit), NEW a \in Table(unit)
    PROVE  a < Behind(unit, p) <=> a < p \/ a = p
<1>1. a \in DOMAIN unit.entries /\ p \in DOMAIN unit.entries
  BY DEF Table
<1>2. a \in Nat /\ p \in Nat /\ Behind(unit, p) \in Nat /\ Behind(unit, p) > p
  BY <1>1, TableTyped
<1>3. a > p => a >= Behind(unit, p)
  BY <1>1 DEF Chained
<1> QED BY <1>2, <1>3

(* A walk that finds an entry at p, and puts its model in the directory.     *)
LEMMA WalkGoesOn ==
    ASSUME NEW unit, IsUnit(unit), Chained(unit), NEW blocks, NEW more, NEW p \in Table(unit),
           WalkedTo(unit, blocks, p),
           DOMAIN more = DOMAIN blocks \cup {unit.entries[p][1]},
           \A id \in DOMAIN more : more[id] = IF id = unit.entries[p][1] THEN Place(unit, p)
                                              ELSE blocks[id]
    PROVE  WalkedTo(unit, more, Behind(unit, p))
<1> SUFFICES ASSUME HasEnd(unit)
             PROVE  /\ DOMAIN more = {unit.entries[a][1] : a \in {b \in Table(unit) :
                                                                     b < Behind(unit, p)}}
                    /\ \A id \in DOMAIN more : \E a \in DOMAIN unit.entries :
                          LastBelow(unit, id, Behind(unit, p), a) /\ more[id] = Place(unit, a)
  BY DEF WalkedTo, OnTable
<1>1. /\ DOMAIN blocks = {unit.entries[a][1] : a \in {b \in Table(unit) : b < p}}
      /\ \A id \in DOMAIN blocks : \E a \in DOMAIN unit.entries :
            LastBelow(unit, id, p, a) /\ blocks[id] = Place(unit, a)
  BY DEF WalkedTo
<1>2. {b \in Table(unit) : b < Behind(unit, p)} = {b \in Table(unit) : b < p} \cup {p}
  BY BelowBehind
<1>3. DOMAIN more = {unit.entries[a][1] : a \in {b \in Table(unit) : b < Behind(unit, p)}}
  BY <1>1, <1>2
<1>4. p \in DOMAIN unit.entries /\ p \in Nat
  BY TableTyped DEF Table
<1>5. ASSUME NEW id \in DOMAIN more
      PROVE  \E a \in DOMAIN unit.entries :
                LastBelow(unit, id, Behind(unit, p), a) /\ more[id] = Place(unit, a)
  <2>1. \A b \in EntriesOf(unit, id) : b \in Table(unit) /\ b \in Nat
    BY TableTyped DEF EntriesOf, Table
  <2>2. \A b \in EntriesOf(unit, id) : b < Behind(unit, p) <=> b < p \/ b = p
    BY <2>1, BelowBehind
  <2>3. CASE id = unit.entries[p][1]
    <3>1. p \in EntriesOf(unit, id) /\ more[id] = Place(unit, p)
      BY <2>3 DEF EntriesOf
    <3>2. LastBelow(unit, id, Behind(unit, p), p)
      BY <1>4, <2>1, <2>2, <3>1 DEF LastBelow
    <3> QED BY <1>4, <3>1, <3>2
  <2>4. CASE id # unit.entries[p][1]
    <3>1. id \in DOMAIN blocks /\ more[id] = blocks[id]
      BY <2>4
    <3>2. PICK a \in DOMAIN unit.entries :
             LastBelow(unit, id, p, a) /\ blocks[id] = Place(unit, a)
      BY <1>1, <3>1
    <3>3. p \notin EntriesOf(unit, id)
      BY <2>4 DEF EntriesOf
    <3>4. LastBelow(unit, id, Behind(unit, p), a)
      BY <2>2, <3>2, <3>3 DEF LastBelow
    <3> QED BY <3>1, <3>2, <3>4
  <2> QED BY <2>3, <2>4
<1> QED BY <1>3, <1>5

(* A walk that finds the end marker knows every model of the unit, each by   *)
(* its last entry.                                                           *)
LEMMA WalkEnds ==
    ASSUME NEW unit, IsUnit(unit), Chained(unit), NEW blocks \in Directory,
           NEW p \in DOMAIN unit.entries, unit.entries[p][1] = EndOfTable,
           WalkedTo(unit, blocks, p)
    PROVE  /\ blocks = [id \in ModelIds(unit) |-> Place(unit, Max(EntriesOf(unit, id)))]
           /\ Listed(blocks, unit)
<1>1. /\ DOMAIN blocks = {unit.entries[a][1] : a \in {b \in Table(unit) : b < p}}
      /\ \A id \in DOMAIN blocks : \E a \in DOMAIN unit.entries :
            LastBelow(unit, id, p, a) /\ blocks[id] = Place(unit, a)
  BY DEF WalkedTo, HasEnd
<1>2. \A b \in Table(unit) : b < p
  <2> SUFFICES ASSUME NEW b \in Table(unit) PROVE b < p
    OBVIOUS
  <2>1. b \in DOMAIN unit.entries /\ b # p /\ p \notin Table(unit)
    BY DEF Table
  <2>2. b \in Nat /\ p \in Nat /\ b <= p
    BY <2>1, TableTyped DEF Chained
  <2> QED BY <2>1, <2>2
<1>3. DOMAIN blocks = ModelIds(unit)
  <2>1. {b \in Table(unit) : b < p} = Table(unit)
    BY <1>2
  <2> QED BY <1>1, <2>1, Zenon DEF ModelIds
<1>4. ASSUME NEW id \in ModelIds(unit)
      PROVE  /\ \E a \in EntriesOf(unit, id) : blocks[id] = Place(unit, a)
             /\ blocks[id] = Place(unit, Max(EntriesOf(unit, id)))
  <2>1. PICK a \in DOMAIN unit.entries : LastBelow(unit, id, p, a) /\ blocks[id] = Place(unit, a)
    BY <1>1, <1>3
  <2>2. \A b \in EntriesOf(unit, id) : b \in Nat /\ b < p
    BY <1>2, TableTyped DEF EntriesOf, Table
  <2>3. a \in EntriesOf(unit, id) /\ \A b \in EntriesOf(unit, id) : a >= b
    BY <2>1, <2>2 DEF LastBelow
  <2>4. PICK m : m = Max(EntriesOf(unit, id))
    OBVIOUS
  <2>5. m \in EntriesOf(unit, id) /\ \A b \in EntriesOf(unit, id) : m >= b
    BY <2>3, <2>4 DEF Max
  <2>6. m = a
    BY <2>2, <2>3, <2>5
  <2> QED BY <2>1, <2>3, <2>4, <2>6
<1>5. blocks = [id \in DOMAIN blocks |-> blocks[id]]
  BY DEF Directory
<1> QED BY <1>3, <1>4, <1>5 DEF Listed

-----------------------------------------------------------------------------
(* What the requests and the directory entries of a client leave alone.      *)

LEMMA ReadFields ==
    ASSUME NEW c \in Fields, NEW u, NEW address, NEW length, NEW user,
           NEW d, d = Read(c, u, address, length, user)
    PROVE  /\ d.unitId = c.unitId /\ d.headerLength = c.headerLength
           /\ d.sunSpecId = c.sunSpecId /\ d.blockAddresses = c.blockAddresses
           /\ d.pending = Append(c.pending, [unit |-> u, address |-> address,
                                             length |-> length, user |-> user])
<1>1. PICK q : q = [unit |-> u, address |-> address, length |-> length, user |-> user]
  OBVIOUS
<1>2. d = [c EXCEPT !.pending = Append(c.pending, q)]
  BY <1>1, Zenon DEF Read
<1>3. /\ d.unitId = c.unitId /\ d.headerLength = c.headerLength /\ d.sunSpecId = c.sunSpecId
      /\ d.blockAddresses = c.blockAddresses /\ d.pending = Append(c.pending, q)
  BY <1>2 DEF Fields
<1> QED BY <1>1, <1>3, Zenon

LEMMA AddedFields ==
    ASSUME NEW c \in Fields, NEW id, NEW address, NEW length,
           NEW d, d = AddModelAddress(c, id, address, length)
    PROVE  /\ d.unitId = c.unitId /\ d.headerLength = c.headerLength
           /\ d.sunSpecId = c.sunSpecId /\ d.pending = c.pending
           /\ DOMAIN d.blockAddresses = DOMAIN c.blockAddresses \cup {id}
           /\ \A i \in DOMAIN d.blockAddresses : d.blockAddresses[i] =
                 IF i = id THEN <<address % AddressMod, ReadableLength(id, length)>>
                           ELSE c.blockAddresses[i]
<1>1. PICK place : place = <<address % AddressMod, ReadableLength(id, length)>>
  OBVIOUS
<1>2. PICK blocks : blocks = [i \in DOMAIN c.blockAddresses \cup {id} |->
                                IF i = id THEN place ELSE c.blockAddresses[i]]
  OBVIOUS
<1>3. d = [c EXCEPT !.blockAddresses = blocks]
  BY <1>1, <1>2, Zenon DEF AddModelAddress
<1>4. /\ d.unitId = c.unitId /\ d.headerLength = c.headerLength /\ d.sunSpecId = c.sunSpecId
      /\ d.pending = c.pending /\ d.blockAddresses = blocks
  BY <1>3 DEF Fields
<1>5. /\ DOMAIN blocks = DOMAIN c.blockAddresses \cup {id}
      /\ \A i \in DOMAIN blocks : blocks[i] = IF i = id THEN place ELSE c.blockAddresses[i]
  BY <1>2
<1> QED BY <1>1, <1>4, <1>5, Zenon

(* What a unit answers, field by field.                                      *)
LEMMA ResponseFields ==
    ASSUME NEW unit, NEW q, NEW response, response = Response(unit, q)
    PROVE  /\ response.unit = q.unit /\ response.user = q.user
           /\ response.size = IF q.length > unit.most THEN unit.most ELSE q.length
           /\ response.suns = (unit.suns /\ q.address = HeaderAddress)
           /\ response.words = Words(unit, q)
BY DEF Response

(* One request to the unit of a client that waited for none.                 *)
LEMMA ReadAlone ==
    ASSUME NEW c \in Fields, c.pending = <<>>, NEW u, NEW address, NEW length, NEW user,
           NEW d, d = Read(c, u, address, length, user), NEW p, d.pending = <<p>>
    PROVE  p = [unit |-> u, address |-> address, length |-> length, user |-> user]
<1>1. PICK q : q = [unit |-> u, address |-> address, length |-> length, user |-> user]
  OBVIOUS
<1>2. d.pending = Append(c.pending, q)
  BY <1>1, ReadFields
<1>3. Append(<<>>, q) = <<q>>
  OBVIOUS
<1>4. <<p>> = <<q>>
  BY <1>2, <1>3, Zenon
<1>5. p = q
  BY <1>4
<1> QED BY <1>1, <1>5

LEMMA NotAlone == ASSUME NEW p PROVE <<p>> # <<>>
OBVIOUS

-----------------------------------------------------------------------------
(* Answers to a scan.                                                        *)

LEMMA HeaderAnswered ==
    ASSUME NEW c, Good(c), c.pending = <<>>,
           NEW units, NEW unit, unit = units[c.unitId], IsUnit(unit),
           NEW q \in Requests, AsksHeader(c, q, units),
           NEW response, response = Response(unit, q),
           NEW r, r = OnResponse(c, response)
    PROVE  /\ r.event # "connect"
           /\ r.event = "none" =>
                 \A p \in Requests : r.client.pending = <<p>> => Asks(r.client, p, units)
<1>1. q.length = 4 /\ q.user = ReadHeader /\ Unidentified(c, units)
  BY DEF AsksHeader
<1>2. /\ response.user = ReadHeader
      /\ response.size = IF 4 > unit.most THEN unit.most ELSE 4
      /\ response.suns => unit.suns
      /\ response.words = <<CommonModel, unit.common>>
  <2>1. /\ response.user = q.user
        /\ response.size = IF q.length > unit.most THEN unit.most ELSE q.length
        /\ response.suns = (unit.suns /\ q.address = HeaderAddress)
        /\ response.words = Words(unit, q)
    BY ResponseFields
  <2>2. Words(unit, q) = <<CommonModel, unit.common>>
    BY <1>1 DEF Words, IsTableRead
  <2> QED BY <1>1, <2>1, <2>2, Zenon
<1>3. unit.most \in Nat /\ unit.common \in Nat
  BY DEF IsUnit, Register
<1>4. r = OnReadHeader(c, response)
  BY <1>2, Zenon DEF OnResponse
<1>5. CASE response.size < 4
  <2>1. r = [client |-> c, event |-> "none"]
    BY <1>4, <1>5, Zenon DEF OnReadHeader, Quiet
  <2>2. r.event = "none" /\ r.client.pending = <<>>
    BY <2>1
  <2> QED BY <2>2, NotAlone
<1>6. CASE ~(response.size < 4) /\ ~ValidHeader(response)
  <2>1. r.event = "close"
    BY <1>4, <1>6 DEF OnReadHeader, Publish
  <2> QED BY <2>1
<1>7. CASE ~(response.size < 4) /\ ValidHeader(response)
  <2>1. unit.most >= 4 /\ unit.suns /\ unit.common \in CommonLengths
    BY <1>2, <1>3, <1>7 DEF ValidHeader
  <2>2. unit.common > 2 /\ unit.common # 2
    BY <1>3, <2>1, LengthAssumption
  <2>3. PICK d : d = [c EXCEPT !.headerLength = unit.common]
    OBVIOUS
  <2>4. /\ d \in Fields /\ d.pending = <<>> /\ d.unitId = c.unitId /\ d.sunSpecId = c.sunSpecId
        /\ d.headerLength = unit.common /\ d.blockAddresses = c.blockAddresses
    BY <1>3, <2>3 DEF Good, Fields
  <2>5. PICK address : address = HeaderAddress + 4
    OBVIOUS
  <2> PICK u : u = d.unitId
    OBVIOUS
  <2> PICK length : length = unit.common
    OBVIOUS
  <2>6. PICK e : e = Read(d, u, address, length, CommonModel)
    OBVIOUS
  <2>7. r = [client |-> e, event |-> "none"]
    <3>1. response.words[2] = unit.common
      BY <1>2
    <3>2. r = Quiet(ReadBlock(d, CommonModel, address, unit.common))
      BY <1>4, <1>7, <2>3, <2>5, <3>1, Zenon DEF OnReadHeader
    <3>3. d.unitId = u /\ unit.common = length /\ length # 2
      BY <2>2
    <3> QED BY <2>6, <3>2, <3>3, Zenon DEF ReadBlock, Quiet
  <2>8. /\ e.unitId = c.unitId /\ e.sunSpecId = c.sunSpecId
        /\ e.headerLength = unit.common /\ e.blockAddresses = c.blockAddresses
    <3>1. /\ e.unitId = d.unitId /\ e.sunSpecId = d.sunSpecId
          /\ e.headerLength = d.headerLength /\ e.blockAddresses = d.blockAddresses
      BY <2>4, <2>6 DEF Read, Fields
    <3> QED BY <2>4, <3>1, Zenon
  <2>9. ASSUME NEW p \in Requests, e.pending = <<p>> PROVE AsksCommon(e, p, units)
    <3>1. p = [unit |-> u, address |-> address, length |-> length, user |-> CommonModel]
      BY <2>4, <2>6, <2>9, ReadAlone
    <3>2. p.length = unit.common /\ p.user = CommonModel
      BY <3>1
    <3>3. Unidentified(e, units)
      BY <1>1, <2>8, Zenon DEF Unidentified
    <3>4. Identifiable(units[e.unitId]) /\ units[e.unitId].common = unit.common
      BY <2>1, <2>8 DEF Identifiable
    <3> QED BY <2>2, <2>8, <3>2, <3>3, <3>4 DEF AsksCommon
  <2> QED BY <2>7, <2>9 DEF Asks
<1> QED BY <1>5, <1>6, <1>7

(* readModelEntry() of a client that has what its walk has found.            *)
LEMMA EntryAsked ==
    ASSUME NEW c \in Fields, c.pending = <<>>,
           NEW units, NEW unit, unit = units[c.unitId], IsUnit(unit), Chained(unit),
           Identifiable(unit), c.headerLength = unit.common, c.sunSpecId = Identity(c, unit),
           NEW at \in Nat, Whole(units) => WalkedTo(unit, c.blockAddresses, at),
           NEW d, d = ReadModelEntry(c, at), NEW p \in Requests, d.pending = <<p>>
    PROVE  AsksEntry(d, p, units)
<1>1. PICK address : address = at % AddressMod
  OBVIOUS
<1> PICK u : u = c.unitId
  OBVIOUS
<1>2. d = Read(c, u, address, 2, address)
  BY <1>1, Zenon DEF ReadModelEntry
<1>3. /\ d.unitId = c.unitId /\ d.sunSpecId = c.sunSpecId
      /\ d.headerLength = c.headerLength /\ d.blockAddresses = c.blockAddresses
  BY <1>2 DEF Read, Fields
<1>4. p = [unit |-> u, address |-> address, length |-> 2, user |-> address]
  BY <1>2, ReadAlone
<1>5. p.length = 2 /\ p.user = p.address /\ p.address = address
  BY <1>4
<1>6. Whole(units) => WalkedTo(unit, d.blockAddresses, p.address)
  <2> SUFFICES ASSUME Whole(units), HasEnd(unit)
               PROVE  WalkedTo(unit, d.blockAddresses, p.address)
    BY DEF WalkedTo
  <2>1. WalkedTo(unit, c.blockAddresses, at) /\ OnTable(unit, at)
    BY DEF WalkedTo
  <2>2. address = at
    BY <1>1, <2>1, OnTableTyped
  <2> QED BY <1>3, <1>5, <2>1, <2>2, Zenon
<1>7. d.sunSpecId = Identity(d, unit)
  BY <1>3, Zenon DEF Identity
<1>8. units[d.unitId] = unit
  BY <1>3, Zenon
<1> QED BY <1>3, <1>5, <1>6, <1>7, <1>8, Zenon DEF AsksEntry

LEMMA CommonAnswered ==
    ASSUME NEW c, Good(c), c.pending = <<>>,
           NEW units, NEW unit, unit = units[c.unitId], IsUnit(unit), Chained(unit),
           c.unitId \in DOMAIN units,
           NEW q \in Requests, q.unit = c.unitId, AsksCommon(c, q, units),
           NEW response, response = Response(unit, q),
           NEW r, r = OnResponse(c, response)
    PROVE  /\ r.event = "none"
           /\ \A p \in Requests : r.client.pending = <<p>> => Asks(r.client, p, units)
<1>1. /\ q.length > 2 /\ q.user = CommonModel /\ Identifiable(unit)
      /\ q.length = unit.common /\ c.headerLength = unit.common /\ Unidentified(c, units)
  BY Zenon DEF AsksCommon
<1>2. /\ response.user = CommonModel /\ response.unit = c.unitId
      /\ response.size = IF unit.common > unit.most THEN unit.most ELSE unit.common
  BY <1>1, ResponseFields
<1>3. /\ unit.most \in Nat /\ unit.common \in Nat /\ unit.most >= 4
      /\ unit.common \in CommonLengths /\ unit.common > 2
  BY <1>1 DEF IsUnit, Register, Identifiable
<1>4. response.user # ReadHeader /\ response.size # 2
  BY <1>2, <1>3, Numbers
<1>5. PICK d : d = IF response.size \in CommonLengths
                   THEN [c EXCEPT !.sunSpecId = response.unit] ELSE c
  OBVIOUS
<1>6. /\ d \in Fields /\ d.pending = <<>> /\ d.unitId = c.unitId
      /\ d.headerLength = unit.common /\ d.blockAddresses = c.blockAddresses
      /\ d.sunSpecId = IF response.size \in CommonLengths THEN c.unitId ELSE 0
  <2>1. c \in Fields /\ c.sunSpecId = 0
    BY <1>1 DEF Good, Unidentified
  <2>2. response.unit \in Ids \cup {0}
    BY <1>2, <2>1 DEF Fields
  <2> QED BY <1>1, <1>2, <1>5, <2>1, <2>2 DEF Fields
<1>7. response.size \in CommonLengths <=> ~Truncates(unit)
  BY <1>2, <1>3 DEF Truncates
<1>8. d.sunSpecId = Identity(d, unit)
  BY <1>6, <1>7, Zenon DEF Identity
<1>9. PICK at : at = TableStart(unit)
  OBVIOUS
<1>10. PICK e : e = ReadModelEntry(d, at)
  OBVIOUS
<1>11. r = [client |-> e, event |-> "none"]
  <2>1. HeaderAddress + 4 + c.headerLength = at
    BY <1>1, <1>9 DEF TableStart
  <2>2. r = Quiet(ReadModelEntry(d, HeaderAddress + 4 + c.headerLength))
    BY <1>2, <1>4, <1>5, Zenon DEF OnResponse, OnReadBlock
  <2> QED BY <1>10, <2>1, <2>2, Zenon DEF Quiet
<1>12. Whole(units) => WalkedTo(unit, d.blockAddresses, at)
  BY <1>1, <1>6, <1>9, WalkStarts DEF Unidentified
<1>13. at \in Nat
  BY <1>9, StartTyped
<1>14. unit = units[d.unitId]
  BY <1>6
<1>15. ASSUME NEW p \in Requests, e.pending = <<p>> PROVE AsksEntry(e, p, units)
  BY <1>1, <1>6, <1>8, <1>10, <1>12, <1>13, <1>14, <1>15, EntryAsked
<1> QED BY <1>11, <1>15 DEF Asks

(* What a table read returns, and what is done with it.                      *)
LEMMA EntryRead ==
    ASSUME NEW unit, IsUnit(unit), unit.most >= 2, NEW q \in Requests, q.length = 2,
           NEW response, response = Response(unit, q)
    PROVE  /\ response.user = q.user /\ response.size = 2
           /\ q.address \in DOMAIN unit.entries =>
                 response.words = unit.entries[q.address]
           /\ q.address \notin DOMAIN unit.entries => response.words = <<0, 0>>
<1>1. unit.most \in Nat
  BY DEF IsUnit
<1>2. /\ response.user = q.user
      /\ response.size = IF q.length > unit.most THEN unit.most ELSE q.length
      /\ response.words = Words(unit, q)
  BY ResponseFields
<1>3. response.size = 2
  BY <1>1, <1>2
<1>4. /\ q.address \in DOMAIN unit.entries => Words(unit, q) = unit.entries[q.address]
      /\ q.address \notin DOMAIN unit.entries => Words(unit, q) = <<0, 0>>
  BY DEF Words, IsTableRead
<1> QED BY <1>2, <1>3, <1>4

LEMMA EntryAnswered ==
    ASSUME NEW c, Good(c), c.pending = <<>>, c.unitId # 0,
           NEW units, NEW unit, unit = units[c.unitId], IsUnit(unit), Chained(unit),
           NEW q \in Requests, AsksEntry(c, q, units), ~Excepts(unit, q),
           NEW response, response = Response(unit, q),
           NEW r, r = OnResponse(c, response)
    PROVE  /\ r.event = "connect" =>
                 HandedOver(r.client, units) /\ (Whole(units) => Owned(r.client, unit))
           /\ r.event = "none" =>
                 \A p \in Requests : r.client.pending = <<p>> => Asks(r.client, p, units)
<1>1. /\ q.length = 2 /\ q.user = q.address /\ Identifiable(unit)
      /\ c.headerLength = unit.common /\ c.sunSpecId = Identity(c, unit)
      /\ Whole(units) => WalkedTo(unit, c.blockAddresses, q.address)
  BY Zenon DEF AsksEntry
<1>2. unit.most >= 2 /\ q.address \in Nat
  BY <1>1 DEF IsUnit, Identifiable, Requests, Address
<1>3. /\ response.user = q.address /\ response.size = 2
      /\ q.address \in DOMAIN unit.entries => response.words = unit.entries[q.address]
      /\ q.address \notin DOMAIN unit.entries => response.words = <<0, 0>>
  <2>1. /\ response.user = q.user /\ response.size = 2
        /\ q.address \in DOMAIN unit.entries => response.words = unit.entries[q.address]
        /\ q.address \notin DOMAIN unit.entries => response.words = <<0, 0>>
    BY <1>1, <1>2, EntryRead
  <2> QED BY <1>1, <2>1, Zenon
<1>4. c \in Fields /\ c.blockAddresses \in Directory
  BY DEF Good, Fields
<1>5. CASE q.address = ReadHeader
  <2>1. r = [client |-> c, event |-> "none"]
    <3>1. response.size < 4
      BY <1>3
    <3> QED BY <1>3, <1>5, <3>1, Zenon DEF OnResponse, OnReadHeader, Quiet
  <2>2. r.event = "none" /\ r.client.pending = <<>>
    BY <2>1
  <2> QED BY <2>2, NotAlone
<1>6. CASE q.address # ReadHeader /\ q.address \in DOMAIN unit.entries
             /\ unit.entries[q.address][1] = EndOfTable
  <2>1. r = [client |-> c, event |-> "connect"]
    BY <1>3, <1>6, Zenon DEF OnResponse, OnReadModelEntry, Publish
  <2>2. r.client = c /\ r.event = "connect"
    BY <2>1
  <2>3. Whole(units) => /\ c.blockAddresses = [id \in ModelIds(unit) |->
                                                 Place(unit, Max(EntriesOf(unit, id)))]
                        /\ Listed(c.blockAddresses, unit)
    BY <1>1, <1>4, <1>6, WalkEnds
  <2>4. HandedOver(c, units)
    BY <1>1, <2>3, Zenon DEF HandedOver, Identifiable, Identity
  <2>5. Whole(units) => Owned(c, unit)
    <3>1. HasEnd(unit)
      BY <1>6 DEF HasEnd
    <3>2. \A i \in 1 .. Len(c.pending) : FALSE
      BY Len(<<>>) = 0
    <3> QED BY <1>1, <2>3, <3>1, <3>2 DEF Owned
  <2> QED BY <2>2, <2>4, <2>5
<1>7. CASE q.address # ReadHeader /\ ~(q.address \in DOMAIN unit.entries
             /\ unit.entries[q.address][1] = EndOfTable)
  <2>1. PICK id \in Nat, length \in Nat : /\ id = response.words[1] /\ length = response.words[2]
                                          /\ id # EndOfTable
    <3>1. CASE q.address \in DOMAIN unit.entries
      BY <1>3, <1>7, <3>1, TableTyped
    <3>2. CASE q.address \notin DOMAIN unit.entries
      BY <1>3, <3>2 DEF EndOfTable
    <3> QED BY <3>1, <3>2
  <2>2. PICK start \in Nat, at \in Nat : start = q.address + 2 /\ at = start + length
    BY <1>2
  <2>3. PICK d : d = AddModelAddress(c, id, start, length)
    OBVIOUS
  <2>4. PICK e : e = ReadModelEntry(d, at)
    OBVIOUS
  <2>5. r = [client |-> e, event |-> "none"]
    <3>1. r = OnReadModelEntry(c, response)
      BY <1>3, <1>7, Zenon DEF OnResponse
    <3>2. response.user + 2 = start /\ response.user + 2 + response.words[2] = at
      BY <1>3, <2>1, <2>2
    <3>3. r = Quiet(ReadModelEntry(AddModelAddress(c, response.words[1], response.user + 2,
                                      response.words[2]), response.user + 2 + response.words[2]))
      BY <2>1, <3>1, Zenon DEF OnReadModelEntry
    <3> QED BY <2>1, <2>3, <2>4, <3>2, <3>3, Zenon DEF Quiet
  <2>6. /\ d.unitId = c.unitId /\ d.headerLength = c.headerLength
        /\ d.sunSpecId = c.sunSpecId /\ d.pending = <<>>
        /\ DOMAIN d.blockAddresses = DOMAIN c.blockAddresses \cup {id}
        /\ \A i \in DOMAIN d.blockAddresses : d.blockAddresses[i] =
              IF i = id THEN <<start % AddressMod, ReadableLength(id, length)>>
                        ELSE c.blockAddresses[i]
    BY <1>4, <2>3, AddedFields
  <2>7. Whole(units) => WalkedTo(unit, d.blockAddresses, at)
    <3> SUFFICES ASSUME Whole(units), HasEnd(unit) PROVE WalkedTo(unit, d.blockAddresses, at)
      BY DEF WalkedTo
    <3>1. WalkedTo(unit, c.blockAddresses, q.address) /\ OnTable(unit, q.address)
      BY <1>1 DEF WalkedTo
    <3>2. q.address \in DOMAIN unit.entries
      BY <1>1, <3>1, AnsweredIsEntry
    <3>3. PICK p \in Table(unit) : p = q.address
      BY <1>7, <3>2 DEF Table
    <3>4. id = unit.entries[p][1] /\ length = unit.entries[p][2]
      BY <1>3, <2>1, <3>2, <3>3
    <3>5. <<start % AddressMod, ReadableLength(id, length)>> = Place(unit, p)
      BY <2>2, <3>3, <3>4, PlaceOfEntry
    <3>6. PICK more : more = d.blockAddresses
      OBVIOUS
    <3>7. PICK blocks : blocks = c.blockAddresses
      OBVIOUS
    <3>8. /\ DOMAIN more = DOMAIN blocks \cup {unit.entries[p][1]}
          /\ \A i \in DOMAIN more : more[i] = IF i = unit.entries[p][1] THEN Place(unit, p)
                                              ELSE blocks[i]
      BY <2>6, <3>4, <3>5, <3>6, <3>7, Zenon
    <3>9. WalkedTo(unit, more, Behind(unit, p))
      BY <3>1, <3>3, <3>7, <3>8, WalkGoesOn
    <3>10. at = Behind(unit, p)
      BY <2>2, <3>3, <3>4 DEF Behind
    <3> QED BY <3>6, <3>9, <3>10, Zenon
  <2>8. d \in Fields
    <3>1. response.words \in Register \X Register
      <4>1. 0 \in Register /\ \A a \in DOMAIN unit.entries : unit.entries[a] \in Register \X Register
        BY Numbers DEF IsUnit
      <4>2. <<0, 0>> \in Register \X Register
        BY <4>1
      <4> QED BY <1>3, <4>1, <4>2, Zenon
    <3>2. id \in Register
      BY <2>1, <3>1
    <3> QED BY <2>3, <3>2, AddModelAddressGood DEF Good
  <2>9. unit = units[d.unitId] /\ d.headerLength = unit.common /\ d.sunSpecId = Identity(d, unit)
    BY <1>1, <2>6, Zenon DEF Identity
  <2>10. ASSUME NEW p \in Requests, e.pending = <<p>> PROVE AsksEntry(e, p, units)
    BY <1>1, <2>4, <2>6, <2>7, <2>8, <2>9, <2>10, EntryAsked
  <2> QED BY <2>5, <2>10 DEF Asks
<1> QED BY <1>5, <1>6, <1>7

-----------------------------------------------------------------------------
(* Answers to a client the user holds.                                       *)

(* Owned says nothing of the rest of a client.                               *)
LEMMA OwnedAlike ==
    ASSUME NEW c, NEW d, NEW unit, Owned(c, unit), d.headerLength = unit.common,
           d.blockAddresses = c.blockAddresses, d.pending = c.pending
    PROVE  Owned(d, unit)
BY Zenon DEF Owned

LEMMA OwnedAsks ==
    ASSUME NEW c \in Fields, NEW unit, Owned(c, unit),
           NEW u, NEW address, NEW length, NEW user,
           length = 2 => user = address /\ OnTable(unit, address),
           NEW d, d = Read(c, u, address, length, user)
    PROVE  Owned(d, unit)
<1>1. PICK q : q = [unit |-> u, address |-> address, length |-> length, user |-> user]
  OBVIOUS
<1>2. q.length = 2 => q.user = q.address /\ OnTable(unit, q.address)
  BY <1>1
<1>3. /\ d.headerLength = c.headerLength /\ d.blockAddresses = c.blockAddresses
      /\ d.pending = Append(c.pending, q)
  BY <1>1, ReadFields
<1>4. c.pending \in Seq(Requests)
  BY DEF Fields
<1>5. ASSUME NEW i \in 1 .. Len(d.pending)
      PROVE  d.pending[i].length = 2 =>
                d.pending[i].user = d.pending[i].address /\ OnTable(unit, d.pending[i].address)
  <2>1. i \in 1 .. Len(c.pending) \/ d.pending[i] = q
    BY <1>3, <1>4
  <2>2. CASE d.pending[i] = q
    BY <1>2, <2>2, Zenon
  <2>3. CASE i \in 1 .. Len(c.pending)
    <3>1. d.pending[i] = c.pending[i]
      BY <1>3, <1>4, <2>3
    <3> QED BY <2>3, <3>1, Zenon DEF Owned
  <2> QED BY <2>1, <2>2, <2>3
<1> QED BY <1>3, <1>5, Zenon DEF Owned

LEMMA OwnedWalks ==
    ASSUME NEW c \in Fields, NEW unit, IsUnit(unit), Chained(unit), Owned(c, unit),
           NEW at, OnTable(unit, at), NEW d, d = ReadModelEntry(c, at)
    PROVE  Owned(d, unit)
<1>1. PICK address : address = at % AddressMod
  OBVIOUS
<1>2. PICK u : u = c.unitId
  OBVIOUS
<1>3. d = Read(c, u, address, 2, address)
  BY <1>1, <1>2, Zenon DEF ReadModelEntry
<1>4. OnTable(unit, address)
  <2>1. HasEnd(unit)
    BY DEF Owned
  <2>2. address = at
    BY <1>1, <2>1, OnTableTyped
  <2> QED BY <2>2
<1> QED BY <1>3, <1>4, OwnedAsks

(* Another of its entries takes the place of a model.                        *)
LEMMA ListedAgain ==
    ASSUME NEW unit, NEW blocks, Listed(blocks, unit), NEW p \in Table(unit), NEW more,
           DOMAIN more = DOMAIN blocks \cup {unit.entries[p][1]},
           \A id \in DOMAIN more : more[id] = IF id = unit.entries[p][1] THEN Place(unit, p)
                                              ELSE blocks[id]
    PROVE  Listed(more, unit)
<1>1. unit.entries[p][1] \in ModelIds(unit) /\ p \in EntriesOf(unit, unit.entries[p][1])
  BY DEF ModelIds, EntriesOf
<1>2. DOMAIN more = ModelIds(unit)
  BY <1>1 DEF Listed
<1>3. ASSUME NEW id \in DOMAIN more
      PROVE  \E a \in EntriesOf(unit, id) : more[id] = Place(unit, a)
  <2>1. CASE id = unit.entries[p][1]
    BY <1>1, <2>1
  <2>2. CASE id # unit.entries[p][1]
    BY <2>2 DEF Listed
  <2> QED BY <2>1, <2>2
<1> QED BY <1>2, <1>3 DEF Listed

LEMMA OwnerAnswered ==
    ASSUME NEW c, Good(c), c.unitId # 0,
           NEW unit, IsUnit(unit), Chained(unit), Owned(c, unit),
           NEW q \in Requests, ~Excepts(unit, q),
           q.length = 2 => q.user = q.address /\ OnTable(unit, q.address),
           NEW response, response = Response(unit, q), response \in Responses,
           response.unit = c.unitId,
           NEW r, r = OnResponse(c, response)
    PROVE  Owned(r.client, unit)
<1>1. /\ unit.most \in Nat /\ unit.common \in Nat /\ unit.most >= 4 /\ unit.common # 2
      /\ c.headerLength = unit.common /\ HasEnd(unit) /\ Listed(c.blockAddresses, unit)
      /\ unit.suns /\ unit.common \in CommonLengths
  <2>1. unit.common \in Nat /\ unit.most \in Nat
    BY DEF IsUnit, Register
  <2>2. Identifiable(unit) /\ c.headerLength = unit.common /\ HasEnd(unit)
        /\ Listed(c.blockAddresses, unit)
    BY DEF Owned
  <2> QED BY <2>1, <2>2, LengthAssumption DEF Identifiable
<1>2. /\ response.user = q.user
      /\ response.size = IF q.length > unit.most THEN unit.most ELSE q.length
      /\ response.words = Words(unit, q)
  BY ResponseFields
<1>3. q.length \in Nat /\ q.address \in Nat
  BY DEF Requests, Address
<1>4. response.size = 2 <=> q.length = 2
  BY <1>1, <1>2, <1>3
<1>5. c \in Fields
  BY DEF Good
<1>6. CASE response.user = ReadHeader
  <2>1. CASE response.size < 4
    <3>1. r = [client |-> c, event |-> "none"]
      BY <1>6, <2>1, Zenon DEF OnResponse, OnReadHeader, Quiet
    <3>2. r.client = c
      BY <3>1
    <3> QED BY <3>2
  <2>2. CASE ~(response.size < 4)
    <3>1. Words(unit, q) = <<CommonModel, unit.common>>
      <4>1. q.length # 2
        BY <1>4, <2>2
      <4> QED BY <4>1 DEF Words, IsTableRead
    <3>2. response.words[2] = unit.common
      BY <1>2, <3>1
    <3>3. PICK d : d = [c EXCEPT !.headerLength = unit.common]
      OBVIOUS
    <3>4. /\ d \in Fields /\ d.headerLength = unit.common
          /\ d.blockAddresses = c.blockAddresses /\ d.pending = c.pending
      BY <1>1, <1>5, <3>3 DEF Fields
    <3>5. Owned(d, unit)
      BY <3>4, OwnedAlike
    <3>6. PICK address, length, u : address = HeaderAddress + 4 /\ length = unit.common /\ u = d.unitId
      OBVIOUS
    <3>7. PICK e : e = Read(d, u, address, length, CommonModel)
      OBVIOUS
    <3>8. Owned(e, unit)
      BY <1>1, <3>4, <3>5, <3>6, <3>7, OwnedAsks
    <3>9. ReadBlock(d, CommonModel, HeaderAddress + 4, unit.common) = e
      BY <1>1, <3>6, <3>7 DEF ReadBlock
    <3>10. \/ r = [client |-> e, event |-> "none"]
           \/ r = [client |-> d, event |-> "close"]
      BY <1>6, <2>2, <3>2, <3>3, <3>9, Zenon DEF OnResponse, OnReadHeader, Quiet, Publish
    <3>11. r.client = e \/ r.client = d
      BY <3>10
    <3> QED BY <3>5, <3>8, <3>11
  <2> QED BY <2>1, <2>2
<1>7. CASE response.user # ReadHeader /\ response.size = 2
  <2>1. q.length = 2 /\ q.user = q.address /\ OnTable(unit, q.address)
    BY <1>4, <1>7
  <2>2. q.address \in DOMAIN unit.entries
    BY <1>1, <2>1, AnsweredIsEntry
  <2>3. response.words = unit.entries[q.address] /\ response.user = q.address
    BY <1>2, <2>1, <2>2 DEF Words, IsTableRead
  <2>4. PICK id \in Nat, length \in Nat : id = response.words[1] /\ length = response.words[2]
    BY <2>2, <2>3, TableTyped
  <2>5. r = OnReadModelEntry(c, response)
    BY <1>7, Zenon DEF OnResponse
  <2>6. CASE id = EndOfTable
    <3>1. r = [client |-> c, event |-> "connect"]
      BY <2>4, <2>5, <2>6, Zenon DEF OnReadModelEntry, Publish
    <3>2. r.client = c
      BY <3>1
    <3> QED BY <3>2
  <2>7. CASE id # EndOfTable
    <3>1. PICK p \in Table(unit) : p = q.address
      BY <2>2, <2>3, <2>4, <2>7 DEF Table
    <3>2. id = unit.entries[p][1] /\ length = unit.entries[p][2]
      BY <2>3, <2>4, <3>1
    <3>3. PICK start \in Nat, at \in Nat : start = q.address + 2 /\ at = start + length
      BY <1>3
    <3>4. PICK d : d = AddModelAddress(c, id, start, length)
      OBVIOUS
    <3>5. PICK e : e = ReadModelEntry(d, at)
      OBVIOUS
    <3>6. r = [client |-> e, event |-> "none"]
      <4>1. response.user + 2 = start /\ response.user + 2 + response.words[2] = at
        BY <2>3, <2>4, <3>3
      <4>2. r = Quiet(ReadModelEntry(AddModelAddress(c, response.words[1], response.user + 2,
                                        response.words[2]), response.user + 2 + response.words[2]))
        BY <2>4, <2>5, <2>7, Zenon DEF OnReadModelEntry
      <4> QED BY <2>4, <3>4, <3>5, <4>1, <4>2, Zenon DEF Quiet
    <3>7. /\ d.headerLength = c.headerLength /\ d.pending = c.pending
          /\ DOMAIN d.blockAddresses = DOMAIN c.blockAddresses \cup {id}
          /\ \A i \in DOMAIN d.blockAddresses : d.blockAddresses[i] =
                IF i = id THEN <<start % AddressMod, ReadableLength(id, length)>>
                          ELSE c.blockAddresses[i]
      BY <1>5, <3>4, AddedFields
    <3>8. <<start % AddressMod, ReadableLength(id, length)>> = Place(unit, p)
      BY <3>1, <3>2, <3>3, PlaceOfEntry
    <3>9. PICK more, blocks : more = d.blockAddresses /\ blocks = c.blockAddresses
      OBVIOUS
    <3>10. /\ DOMAIN more = DOMAIN blocks \cup {unit.entries[p][1]}
           /\ \A i \in DOMAIN more : more[i] = IF i = unit.entries[p][1] THEN Place(unit, p)
                                               ELSE blocks[i]
      BY <3>2, <3>7, <3>8, <3>9, Zenon
    <3>11. Listed(more, unit)
      BY <1>1, <3>9, <3>10, ListedAgain
    <3>12. Owned(d, unit)
      BY <3>7, <3>9, <3>11, Zenon DEF Owned
    <3>13. d \in Fields
      <4>1. id \in Register
        BY <2>2, <2>3, <2>4 DEF IsUnit
      <4> QED BY <3>4, <4>1, AddModelAddressGood DEF Good
    <3>14. OnTable(unit, at)
      <4>1. at = Behind(unit, p)
        BY <3>1, <3>2, <3>3 DEF Behind
      <4> QED BY <4>1 DEF OnTable
    <3>15. Owned(e, unit)
      BY <3>5, <3>12, <3>13, <3>14, OwnedWalks
    <3>16. r.client = e
      BY <3>6
    <3> QED BY <3>15, <3>16
  <2> QED BY <2>6, <2>7
<1>8. CASE response.user # ReadHeader /\ response.size # 2
  <2>1. PICK d : d = IF response.size \in CommonLengths
                     THEN [c EXCEPT !.sunSpecId = response.unit] ELSE c
    OBVIOUS
  <2>2. /\ d \in Fields /\ d.headerLength = unit.common
        /\ d.blockAddresses = c.blockAddresses /\ d.pending = c.pending
    <3>1. response.unit \in Ids \cup {0}
      BY <1>5 DEF Fields
    <3> QED BY <1>1, <1>5, <2>1, <3>1 DEF Fields
  <2>3. Owned(d, unit)
    BY <2>2, OwnedAlike
  <2>4. PICK at : at = TableStart(unit)
    OBVIOUS
  <2>5. PICK e : e = ReadModelEntry(d, at)
    OBVIOUS
  <2>6. Owned(e, unit)
    BY <2>2, <2>3, <2>4, <2>5, OwnedWalks DEF OnTable
  <2>7. HeaderAddress + 4 + c.headerLength = at
    BY <1>1, <2>4 DEF TableStart
  <2>8. \/ r = [client |-> e, event |-> "none"]
        \/ r = [client |-> c, event |-> "none"]
    BY <1>8, <2>1, <2>5, <2>7, Zenon DEF OnResponse, OnReadBlock, Quiet
  <2>9. r.client = e \/ r.client = c
    BY <2>8
  <2> QED BY <2>6, <2>9
<1> QED BY <1>6, <1>7, <1>8

-----------------------------------------------------------------------------
(* Steps.                                                                    *)

HandsOver ==
    \A h \in Hosts : owner[h] = "discovery" /\ owner'[h] = "user" =>
        HandedOver(client'[h], device[h])

LEMMA OneHostWalks ==
    ASSUME IInv, DInv, NEW h \in Hosts, NEW o, NEW c, Walks(o, c, device[h]),
           owner[h] = "discovery" /\ o = "user" => HandedOver(c, device[h]),
           device' = device, owner' = [owner EXCEPT ![h] = o],
           client' = [client EXCEPT ![h] = c]
    PROVE  DInv' /\ HandsOver
<1>1. owner \in [Hosts -> Owners] /\ client \in [Hosts -> Fields]
  BY DEF IInv, Types
<1>2. owner'[h] = o /\ client'[h] = c
  BY <1>1, Zenon
<1>3. ASSUME NEW k \in Hosts, k # h PROVE owner'[k] = owner[k] /\ client'[k] = client[k]
  BY <1>1, <1>3, Zenon
<1>4. ASSUME NEW k \in Hosts PROVE Walks(owner'[k], client'[k], device'[k])
  BY <1>2, <1>3, Zenon DEF DInv
<1>5. ASSUME NEW k \in Hosts, owner[k] = "discovery", owner'[k] = "user"
      PROVE  HandedOver(client'[k], device[k])
  <2>1. CASE k = h
    BY <1>2, <1>5, <2>1, Zenon
  <2>2. CASE k # h
    BY <1>3, <1>5, <2>2
  <2> QED BY <2>1, <2>2
<1> QED BY <1>4, <1>5, Zenon DEF DInv, HandsOver

(* What any handler leaves, given what it is worth to discovery and to user. *)
LEMMA HandledWalks ==
    ASSUME IInv, DInv, NEW h \in Hosts, owner[h] \in {"discovery", "user"},
           NEW result, Handled(h, result), device' = device,
           result.event \in {"none", "close", "connect", "error"},
           NEW units, units = device[h],
           owner[h] = "discovery" /\ result.event = "none" =>
              \A q \in Requests : result.client.pending = <<q>> => Asks(result.client, q, units),
           owner[h] = "discovery" /\ result.event = "connect" =>
              /\ HandedOver(result.client, units)
              /\ Whole(units) => Owned(result.client, units[result.client.unitId]),
           owner[h] = "user" /\ Whole(units) =>
              Owned(result.client, units[result.client.unitId])
    PROVE  DInv' /\ HandsOver
<1>1. PICK o : o = IF owner[h] = "discovery" THEN OwnerAfter(result.event) ELSE owner[h]
  OBVIOUS
<1>2. PICK c : c = IF o = "dropped" THEN Destroyed(result.client) ELSE result.client
  OBVIOUS
<1>3. owner' = [owner EXCEPT ![h] = o] /\ client' = [client EXCEPT ![h] = c]
  BY <1>1, <1>2, Zenon DEF Handled
<1>4. /\ o = "discovery" => owner[h] = "discovery" /\ result.event = "none"
      /\ o = "user" => \/ owner[h] = "discovery" /\ result.event = "connect"
                       \/ owner[h] = "user"
  BY <1>1 DEF OwnerAfter
<1>5. o \in {"discovery", "user"} => c = result.client
  BY <1>2
<1>6. Walks(o, c, units)
  <2>1. ASSUME o = "discovery"
        PROVE  \A q \in Requests : c.pending = <<q>> => Asks(c, q, units)
    BY <1>4, <1>5, <2>1
  <2>2. ASSUME o = "user", Whole(units) PROVE Owned(c, units[c.unitId])
    BY <1>4, <1>5, <2>2
  <2> QED BY <2>1, <2>2, Zenon DEF Walks
<1>7. owner[h] = "discovery" /\ o = "user" => HandedOver(c, units)
  BY <1>4, <1>5
<1> QED BY <1>3, <1>6, <1>7, OneHostWalks

(* The request that is answered, of the client that does not wait for it.    *)
LEMMA AskedWalks ==
    ASSUME IInv, DInv, NEW h \in Hosts, Active(h),
           NEW c, c = Asking(h), NEW q, q = Request(h), NEW units, units = device[h]
    PROVE  /\ owner[h] = "discovery" => Asks(c, q, units)
           /\ owner[h] = "user" /\ Whole(units) =>
                 /\ Owned(c, units[c.unitId])
                 /\ q.length = 2 => q.user = q.address /\ OnTable(units[c.unitId], q.address)
<1>1. PICK d : d = client[h]
  OBVIOUS
<1>2. d \in Fields /\ d.pending \in Seq(Requests) /\ d.pending # <<>>
  BY <1>1 DEF IInv, Types, Active, Fields
<1>3. q = d.pending[1] /\ 1 \in 1 .. Len(d.pending) /\ q \in Requests
  <2>1. q = Head(d.pending)
    BY <1>1, Zenon DEF Request
  <2> QED BY <1>2, <2>1
<1>4. /\ c.unitId = d.unitId /\ c.headerLength = d.headerLength
      /\ c.sunSpecId = d.sunSpecId /\ c.blockAddresses = d.blockAddresses
      /\ c.pending = Tail(d.pending)
  BY <1>1, <1>2 DEF Asking, Fields
<1>5. Walks(owner[h], d, units)
  BY <1>1 DEF DInv
<1>6. ASSUME owner[h] = "discovery" PROVE Asks(c, q, units)
  <2>1. d.pending = <<q>>
    <3>1. HostGood(owner[h], d, answered[h], units)
      BY <1>1, Zenon DEF IInv
    <3>2. PICK p \in Requests : d.pending = <<p>>
      BY <1>2, <1>6, <3>1 DEF HostGood
    <3> QED BY <1>3, <3>2
  <2>2. Asks(d, q, units)
    BY <1>3, <1>5, <1>6, <2>1 DEF Walks
  <2> QED BY <1>4, <2>2, Zenon DEF Asks, AsksHeader, AsksCommon, AsksEntry, Unidentified, Identity
<1>7. ASSUME owner[h] = "user", Whole(units)
      PROVE  /\ Owned(c, units[c.unitId])
             /\ q.length = 2 => q.user = q.address /\ OnTable(units[c.unitId], q.address)
  <2>1. PICK unit : unit = units[c.unitId]
    OBVIOUS
  <2>2. Owned(d, unit)
    BY <1>4, <1>5, <1>7, <2>1 DEF Walks
  <2>3. \A i \in 1 .. Len(c.pending) : i + 1 \in 1 .. Len(d.pending) /\ c.pending[i] = d.pending[i + 1]
    BY <1>2, <1>4
  <2>4. \A i \in 1 .. Len(d.pending) : d.pending[i].length = 2 =>
           d.pending[i].user = d.pending[i].address /\ OnTable(unit, d.pending[i].address)
    BY <2>2 DEF Owned
  <2>5. Owned(c, unit)
    BY <1>4, <2>2, <2>3, <2>4, Zenon DEF Owned
  <2> QED BY <1>3, <2>1, <2>4, <2>5, Zenon
<1> QED BY <1>6, <1>7

(* The unit a client talks to is one of the device, with a table.            *)
LEMMA UnitOfClient ==
    ASSUME ChainedTables, IInv, NEW h \in Hosts, NEW u \in Ids
    PROVE  u \in DOMAIN device[h] /\ IsUnit(device[h][u]) /\ Chained(device[h][u])
<1>1. device[h] \in Devices
  BY DEF IInv, Types
<1>2. PICK i \in DOMAIN UnitIds : u = UnitIds[i]
  BY DEF Ids
<1> QED BY <1>1, <1>2, DevicesAssumption, Zenon DEF ChainedTables

LEMMA ProbeWalks ==
    ASSUME NEW c \in Fields, c.pending = <<>>, NEW units, Unidentified(c, units),
           NEW r, r = ProbeNextUnitId(c)
    PROVE  /\ r.event \in {"none", "close"}
           /\ r.event = "none" =>
                 \A p \in Requests : r.client.pending = <<p>> => Asks(r.client, p, units)
<1>1. CASE c.unitIdx >= Len(UnitIds)
  <2>1. r.event = "close"
    BY <1>1 DEF ProbeNextUnitId, Publish
  <2> QED BY <2>1
<1>2. CASE ~(c.unitIdx >= Len(UnitIds))
  <2>1. PICK id : id = UnitIds[c.unitIdx + 1]
    OBVIOUS
  <2>2. c.unitIdx + 1 \in DOMAIN UnitIds /\ c.unitIdx + 1 \in 0 .. Len(UnitIds)
    BY <1>2, UnitIdsAssumption DEF Fields
  <2>3. id \in Ids
    BY <2>1, <2>2 DEF Ids
  <2>4. PICK d : d = [c EXCEPT !.unitId = id, !.unitIdx = @ + 1]
    OBVIOUS
  <2>5. /\ d \in Fields /\ d.pending = <<>> /\ d.sunSpecId = c.sunSpecId
        /\ d.blockAddresses = c.blockAddresses
    BY <2>2, <2>3, <2>4 DEF Fields
  <2>6. PICK e : e = Read(d, id, HeaderAddress, 4, ReadHeader)
    OBVIOUS
  <2>7. r = [client |-> e, event |-> "none"]
    BY <1>2, <2>1, <2>4, <2>6, Zenon DEF ProbeNextUnitId, Quiet
  <2>8. e.sunSpecId = c.sunSpecId /\ e.blockAddresses = c.blockAddresses
    BY <2>5, <2>6 DEF Read, Fields
  <2>9. Unidentified(e, units)
    BY <2>8, Zenon DEF Unidentified
  <2>10. ASSUME NEW p \in Requests, e.pending = <<p>> PROVE Asks(e, p, units)
    <3>1. p = [unit |-> id, address |-> HeaderAddress, length |-> 4, user |-> ReadHeader]
      BY <2>5, <2>6, <2>10, ReadAlone
    <3>2. p.length = 4 /\ p.user = ReadHeader
      BY <3>1
    <3> QED BY <2>9, <3>2 DEF Asks, AsksHeader
  <2> QED BY <2>7, <2>10
<1> QED BY <1>1, <1>2

LEMMA RespondWalks ==
    ASSUME ChainedTables, IInv, DInv, NEW h \in Hosts, Respond(h)
    PROVE  DInv' /\ HandsOver
<1>1. PICK q : q = Request(h)
  OBVIOUS
<1>2. PICK c : c = Asking(h)
  OBVIOUS
<1>3. Active(h) /\ owner[h] \in {"discovery", "user"}
  BY DEF Respond, Active
<1>4. PICK units : units = device[h]
  OBVIOUS
<1>5. /\ q \in Requests /\ q.unit = c.unitId /\ Good(c) /\ c.unitId # 0
      /\ owner[h] = "discovery" => c.pending = <<>>
  BY <1>1, <1>2, <1>3, Asked, Zenon
<1>6. /\ owner[h] = "discovery" => Asks(c, q, units)
      /\ owner[h] = "user" /\ Whole(units) =>
            /\ Owned(c, units[c.unitId])
            /\ q.length = 2 => q.user = q.address /\ OnTable(units[c.unitId], q.address)
  BY <1>1, <1>2, <1>3, <1>4, AskedWalks
<1>7. PICK unit : unit = units[c.unitId]
  OBVIOUS
<1>8. c.unitId \in DOMAIN units /\ IsUnit(unit) /\ Chained(unit)
  <2>1. c.unitId \in Ids
    BY <1>5 DEF Requests
  <2> QED BY <1>4, <1>7, <2>1, UnitOfClient, Zenon
<1>9. PICK response : response = Response(unit, q)
  OBVIOUS
<1>10. response \in Responses /\ response.unit = c.unitId
  BY <1>5, <1>8, <1>9, ResponseTyped, Zenon
<1>11. PICK r : r = OnResponse(c, response)
  OBVIOUS
<1>12. r.client.unitId = c.unitId /\ r.event \in {"none", "close", "connect"}
  BY <1>5, <1>10, <1>11, ResponseGood
<1>13. ~Excepts(unit, q) /\ Handled(h, r) /\ device' = device
  BY <1>1, <1>2, <1>4, <1>5, <1>7, <1>9, <1>11, Zenon DEF Respond
<1>14. ASSUME owner[h] = "discovery"
       PROVE  /\ r.event = "connect" =>
                    HandedOver(r.client, units) /\ (Whole(units) => Owned(r.client, unit))
              /\ r.event = "none" =>
                    \A p \in Requests : r.client.pending = <<p>> => Asks(r.client, p, units)
  <2>1. c.pending = <<>>
    BY <1>5, <1>14
  <2>2. CASE AsksHeader(c, q, units)
    BY <1>5, <1>7, <1>8, <1>9, <1>11, <2>1, <2>2, HeaderAnswered
  <2>3. CASE AsksCommon(c, q, units)
    <3>1. /\ r.event = "none"
          /\ \A p \in Requests : r.client.pending = <<p>> => Asks(r.client, p, units)
      BY <1>5, <1>7, <1>8, <1>9, <1>11, <2>1, <2>3, CommonAnswered
    <3> QED BY <3>1
  <2>4. CASE AsksEntry(c, q, units)
    BY <1>5, <1>7, <1>8, <1>9, <1>11, <1>13, <2>1, <2>4, EntryAnswered
  <2> QED BY <1>6, <1>14, <2>2, <2>3, <2>4 DEF Asks
<1>15. ASSUME owner[h] = "user", Whole(units) PROVE Owned(r.client, unit)
  BY <1>5, <1>6, <1>7, <1>8, <1>9, <1>10, <1>11, <1>13, <1>15, OwnerAnswered
<1>16. units[r.client.unitId] = unit
  BY <1>7, <1>12, Zenon
<1> QED BY <1>3, <1>4, <1>12, <1>13, <1>14, <1>15, <1>16, HandledWalks

LEMMA ExceptWalks ==
    ASSUME IInv, DInv, NEW h \in Hosts, Except(h)
    PROVE  DInv' /\ HandsOver
<1>1. PICK q : q = Request(h)
  OBVIOUS
<1>2. PICK c : c = Asking(h)
  OBVIOUS
<1>3. Active(h) /\ owner[h] \in {"discovery", "user"}
  BY DEF Except, Active
<1>4. PICK units : units = device[h]
  OBVIOUS
<1>5. /\ Good(c) /\ c \in Fields /\ c.unitId \in Ids
      /\ owner[h] = "discovery" => c.pending = <<>>
  <2>1. Good(c) /\ c.unitId # 0 /\ (owner[h] = "discovery" => c.pending = <<>>)
    BY <1>1, <1>2, <1>3, Asked, Zenon
  <2> QED BY <2>1 DEF Good, Fields
<1>6. /\ owner[h] = "discovery" => Asks(c, q, units)
      /\ owner[h] = "user" /\ Whole(units) => Owned(c, units[c.unitId])
  BY <1>1, <1>2, <1>3, <1>4, AskedWalks
<1>7. PICK r : r = OnException(c, owner[h])
  OBVIOUS
<1>8. Handled(h, r) /\ device' = device
  BY <1>2, <1>7, Zenon DEF Except
<1>9. CASE owner[h] = "discovery" /\ c.sunSpecId = 0
  <2>1. r = ProbeNextUnitId(c)
    BY <1>7, <1>9 DEF OnException
  <2>2. Unidentified(c, units)
    <3>1. CASE AsksHeader(c, q, units)
      BY <3>1 DEF AsksHeader
    <3>2. CASE AsksCommon(c, q, units)
      BY <3>2 DEF AsksCommon
    <3>3. CASE AsksEntry(c, q, units)
      \* identified, or of a unit that truncates its common model
      <4>1. c.sunSpecId = Identity(c, units[c.unitId]) /\ c.unitId # 0
        BY <1>5, <3>3, IdsNotZero DEF AsksEntry
      <4>2. Truncates(units[c.unitId])
        BY <1>9, <4>1 DEF Identity
      <4>3. c.unitId \in DOMAIN units
        BY <1>4, <1>5, DevicesAssumption DEF IInv, Types, Ids
      <4>4. ~Whole(units)
        BY <4>2, <4>3 DEF Whole
      <4> QED BY <1>9, <4>4 DEF Unidentified
    <3> QED BY <1>6, <1>9, <3>1, <3>2, <3>3 DEF Asks
  <2>3. /\ r.event \in {"none", "close"}
        /\ r.event = "none" =>
              \A p \in Requests : r.client.pending = <<p>> => Asks(r.client, p, units)
    BY <1>5, <1>9, <2>1, <2>2, ProbeWalks
  <2> QED BY <1>3, <1>4, <1>8, <1>9, <2>3, HandledWalks
<1>10. CASE ~(owner[h] = "discovery" /\ c.sunSpecId = 0)
  <2>1. r = [client |-> c, event |-> "none"]
    BY <1>7, <1>10 DEF OnException, Quiet
  <2>2. r.client = c /\ r.event = "none"
    BY <2>1
  <2>3. owner[h] = "discovery" => \A p \in Requests : c.pending # <<p>>
    BY <1>5, NotAlone
  <2> QED BY <1>3, <1>4, <1>6, <1>8, <2>2, <2>3, HandledWalks
<1> QED BY <1>9, <1>10

LEMMA DiscoverWalks == ASSUME IInv, DInv, NEW h \in Hosts, Discover(h) PROVE DInv' /\ HandsOver
<1>1. PICK r : r = ProbeNextUnitId(NewClient)
  OBVIOUS
<1>2. PICK fresh : fresh = NewClient
  OBVIOUS
<1>3. PICK units : units = device[h]
  OBVIOUS
<1>4. fresh \in Fields /\ fresh.pending = <<>> /\ Unidentified(fresh, units)
  <2>1. DOMAIN NewClient.blockAddresses = {} /\ NewClient.sunSpecId = 0
    BY DEF NewClient
  <2> QED BY <1>2, <2>1, NewClientGood DEF Good, Unidentified
<1>5. /\ r.event \in {"none", "close"}
      /\ r.event = "none" =>
            \A p \in Requests : r.client.pending = <<p>> => Asks(r.client, p, units)
  BY <1>1, <1>2, <1>4, ProbeWalks
<1>6. r.event # "close"
  <2>1. NewClient.unitIdx = 0 /\ ~(0 >= Len(UnitIds))
    BY UnitIdsAssumption DEF NewClient
  <2>2. r.event = "none"
    BY <1>1, <2>1 DEF ProbeNextUnitId, Quiet
  <2> QED BY <2>2
<1>7. PICK c, o : c = r.client /\ o = "discovery"
  OBVIOUS
<1>8. Walks(o, c, units)
  BY <1>5, <1>6, <1>7 DEF Walks
<1>9. /\ device' = device /\ owner' = [owner EXCEPT ![h] = o]
      /\ client' = [client EXCEPT ![h] = c]
  BY <1>1, <1>7, Zenon DEF Discover, Started
<1> QED BY <1>3, <1>7, <1>8, <1>9, OneHostWalks

LEMMA ConnectionLostWalks ==
    ASSUME IInv, DInv, NEW h \in Hosts, ConnectionLost(h)
    PROVE  DInv' /\ HandsOver
<1>1. PICK event \in {"close", "error"} :
         Handled(h, Publish([client[h] EXCEPT !.pending = <<>>], event))
  BY Zenon DEF ConnectionLost
<1>2. PICK c : c = client[h]
  OBVIOUS
<1>3. PICK units : units = device[h]
  OBVIOUS
<1>4. PICK d : d = [c EXCEPT !.pending = <<>>]
  OBVIOUS
<1>5. PICK r : r = [client |-> d, event |-> event]
  OBVIOUS
<1>6. Handled(h, r)
  BY <1>1, <1>2, <1>4, <1>5, Zenon DEF Publish
<1>7. r.client = d /\ r.event = event
  BY <1>5
<1>8. c \in Fields
  BY <1>2 DEF IInv, Types
<1>9. /\ d.pending = <<>> /\ d.unitId = c.unitId /\ d.headerLength = c.headerLength
      /\ d.blockAddresses = c.blockAddresses
  BY <1>4, <1>8 DEF Fields
<1>10. ASSUME owner[h] = "user", Whole(units) PROVE Owned(d, units[d.unitId])
  <2>1. PICK unit : unit = units[c.unitId]
    OBVIOUS
  <2>2. Owned(c, unit)
    BY <1>2, <1>3, <1>10, <2>1 DEF DInv, Walks
  <2>3. \A i \in 1 .. Len(d.pending) : FALSE
    BY <1>9
  <2>4. Owned(d, unit)
    BY <1>9, <2>2, <2>3, Zenon DEF Owned
  <2> QED BY <1>9, <2>1, <2>4, Zenon
<1>11. owner[h] \in {"discovery", "user"} /\ device' = device
  BY DEF ConnectionLost
<1>12. r.event \in {"none", "close", "connect", "error"} /\ r.event \notin {"none", "connect"}
  BY <1>7
<1> QED BY <1>3, <1>6, <1>7, <1>10, <1>11, <1>12, HandledWalks

LEMMA UserReadModelWalks ==
    ASSUME IInv, DInv, NEW h \in Hosts, UserReadModel(h)
    PROVE  DInv' /\ HandsOver
<1>1. PICK id \in DOMAIN client[h].blockAddresses :
         client' = [client EXCEPT ![h] = ReadModel(client[h], id)]
  BY Zenon DEF UserReadModel
<1>2. PICK c : c = client[h]
  OBVIOUS
<1>3. PICK units : units = device[h]
  OBVIOUS
<1>4. PICK address, length, u : /\ address = c.blockAddresses[id][1]
                                /\ length = c.blockAddresses[id][2] /\ u = c.unitId
  OBVIOUS
<1>5. PICK e : e = Read(c, u, address, length, id)
  OBVIOUS
<1>6. PICK d : d = IF length = 2 THEN c ELSE e
  OBVIOUS
<1>7. client' = [client EXCEPT ![h] = d]
  BY <1>1, <1>2, <1>4, <1>5, <1>6, Zenon DEF ReadModel, ReadBlock
<1>8. c \in Fields
  BY <1>2 DEF IInv, Types
<1>9. d.unitId = c.unitId
  BY <1>5, <1>6, <1>8 DEF Read, Fields
<1>10. owner[h] = "user" /\ device' = device
  BY DEF UserReadModel
<1>11. ASSUME Whole(units) PROVE Owned(d, units[d.unitId])
  <2>1. PICK unit : unit = units[c.unitId]
    OBVIOUS
  <2>2. Owned(c, unit)
    BY <1>2, <1>3, <1>10, <1>11, <2>1 DEF DInv, Walks
  <2>3. length # 2 => Owned(e, unit)
    BY <1>5, <1>8, <2>2, OwnedAsks
  <2> QED BY <1>6, <1>9, <2>1, <2>2, <2>3
<1>12. owner' = [owner EXCEPT ![h] = "user"]
  <2>1. owner \in [Hosts -> Owners] /\ owner' = owner
    BY DEF UserReadModel, IInv, Types
  <2> QED BY <1>10, <2>1
<1>13. PICK o : o = "user"
  OBVIOUS
<1>14. Walks(o, d, units)
  BY <1>11, <1>13 DEF Walks
<1> QED BY <1>3, <1>7, <1>10, <1>12, <1>13, <1>14, OneHostWalks

LEMMA UserDropWalks ==
    ASSUME IInv, DInv, NEW h \in Hosts, UserDrop(h)
    PROVE  DInv' /\ HandsOver
<1>1. PICK d, o : d = Destroyed(client[h]) /\ o = "dropped"
  OBVIOUS
<1>2. /\ client' = [client EXCEPT ![h] = d] /\ owner' = [owner EXCEPT ![h] = o]
      /\ device' = device
  BY <1>1, Zenon DEF UserDrop
<1>3. PICK units : units = device[h]
  OBVIOUS
<1>4. Walks(o, d, units)
  BY <1>1 DEF Walks
<1> QED BY <1>1, <1>2, <1>3, <1>4, OneHostWalks

LEMMA StepWalks ==
    ASSUME ChainedTables, IInv, DInv, [Next]_vars PROVE DInv' /\ HandsOver
<1>1. CASE Next
  BY <1>1, DiscoverWalks, RespondWalks, ExceptWalks, ConnectionLostWalks, UserReadModelWalks,
     UserDropWalks DEF Next
<1>2. CASE UNCHANGED vars
  <2>1. device' = device /\ owner' = owner /\ client' = client
    BY <1>2 DEF vars
  <2> QED BY <2>1 DEF DInv, HandsOver
<1> QED BY <1>1, <1>2

LEMMA InitWalks == Init => DInv
<1> SUFFICES ASSUME Init, NEW h \in Hosts PROVE Walks(owner[h], client[h], device[h])
  BY DEF DInv
<1>1. owner[h] = "none"
  BY DEF Init
<1> QED BY <1>1 DEF Walks

LEMMA WalksInductive == ASSUME ChainedTables PROVE Spec => []DInv
<1>1. Init => DInv
  BY InitWalks
<1>2. IInv /\ DInv /\ [Next]_vars => DInv'
  BY StepWalks
<1> QED BY <1>1, <1>2, Inductive, PTL DEF Spec

(* What the user is handed is a unit with a SunSpec header, identified by    *)
(* its common model, and the directory has the models of that unit, all of   *)
(* them and of no other, each where its last entry says.                     *)
THEOREM HandedOverCorrect == ASSUME ChainedTables PROVE Spec => HandedOverIsTrue
<1>1. IInv /\ DInv /\ [Next]_vars =>
         [\A h \in Hosts : owner[h] = "discovery" /\ owner'[h] = "user" =>
             HandedOver(client'[h], device[h])]_vars
  BY StepWalks DEF HandsOver
<1> QED BY <1>1, Inductive, WalksInductive, PTL DEF Spec, HandedOverIsTrue

(* It stays a directory of that unit while the user reads from it.           *)
THEOREM DirectoryCorrect == ASSUME ChainedTables PROVE Spec => []DirectoryOfUnit
<1>1. DInv => DirectoryOfUnit
  BY DEF DInv, Walks, Owned, Listed, DirectoryOfUnit
<1> QED BY <1>1, WalksInductive, PTL
=============================================================================
