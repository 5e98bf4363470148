------------------------- MODULE SunSpecDiscovery ---------------------------
(***************************************************************************)
(* sunspec::SunSpecDiscovery: one SunSpecClient per Modbus host it is given, *)
(* kept in _candidates with the four listeners of discover() until the scan   *)
(* finds a SunSpec unit, and the client is handed to the user, or fails, and  *)
(* it is destroyed.                                                          *)
(*                                                                           *)
(* A device answers the requests of its host one by one.  What a unit id of   *)
(* a host answers is fixed, but any answer may be a passing exception.        *)
(***************************************************************************)
EXTENDS SunSpecClient, SequencesExt

CONSTANTS
    Hosts,         \* the ModbusClients handed to discover()
    Devices,       \* what a host may be: unit id -> its answers
    MaxBusy,       \* bound: passing exceptions of one host
    MaxReads       \* bound: readModel() calls of the user on one client

(* What one unit id of a device answers.                                     *)
(*   most     registers it returns at most; 0: every read is an exception    *)
(*   suns, common  its registers at HeaderAddress: the marker, the length    *)
(*   entries  its table: address -> <<model id, length>>                     *)
(*   beyond   what a read of any other table address gives                   *)
Address == {n \in Nat : n < AddressMod}
Register == {n \in Nat : n <= EndOfTable}
IsUnit(unit) ==
    /\ unit.most \in Nat /\ unit.suns \in BOOLEAN /\ unit.common \in Register
    /\ \A a \in DOMAIN unit.entries :
          a \in Address /\ unit.entries[a] \in Register \X Register
    /\ unit.beyond \in {"exception", "zeros"}

ASSUME BoundsAssumption == MaxBusy \in Nat /\ MaxReads \in Nat
ASSUME DevicesAssumption ==
    \A units \in Devices : \A i \in DOMAIN UnitIds :
        UnitIds[i] \in DOMAIN units /\ IsUnit(units[UnitIds[i]])

VARIABLES
    device,     \* what each host is
    owner,      \* who holds the SunSpecClient of a host; _candidates are those
                \*   of "discovery", "dropped" is a destroyed client
    client,     \* its fields
    answered,   \* the outcome it handled last
    busy,       \* passing exceptions so far
    reads       \* readModel() calls so far

vars == <<device, owner, client, answered, busy, reads>>

NoAnswer == [kind |-> "none", user |-> 0, size |-> 0]

TypeOK ==
    /\ device \in [Hosts -> Devices]
    /\ owner \in [Hosts -> {"none", "discovery", "user", "dropped"}]
    /\ \A h \in Hosts :
        /\ client[h].unitId \in 0 .. 247
        /\ client[h].unitIdx \in 0 .. Len(UnitIds)
        /\ client[h].headerLength \in Nat /\ client[h].sunSpecId \in 0 .. 247
        /\ \A id \in DOMAIN client[h].blockAddresses :
              client[h].blockAddresses[id] \in Address \X Nat
        /\ client[h].pending \in Seq([unit : 1 .. 247, address : Address,
                                      length : Nat, user : Register])
        /\ answered[h].kind \in {"none", "response", "exception"}
    /\ busy \in [Hosts -> 0 .. MaxBusy]
    /\ reads \in [Hosts -> 0 .. MaxReads]

Init ==
    /\ device \in [Hosts -> Devices]
    /\ owner = [h \in Hosts |-> "none"]
    /\ client = [h \in Hosts |-> NewClient]
    /\ answered = [h \in Hosts |-> NoAnswer]
    /\ busy = [h \in Hosts |-> 0]
    /\ reads = [h \in Hosts |-> 0]

-----------------------------------------------------------------------------
(* The device.                                                               *)

IsTableRead(request) == request.length = 2

Excepts(unit, request) ==
    \/ unit.most = 0
    \/ /\ IsTableRead(request)
       /\ request.address \notin DOMAIN unit.entries
       /\ unit.beyond = "exception"

Words(unit, request) ==
    IF IsTableRead(request)
    THEN IF request.address \in DOMAIN unit.entries
         THEN unit.entries[request.address] ELSE <<0, 0>>
    ELSE <<CommonModel, unit.common>>

Response(unit, request) ==
    [unit |-> request.unit, user |-> request.user,
     size |-> IF request.length > unit.most THEN unit.most ELSE request.length,
     suns |-> unit.suns /\ request.address = HeaderAddress,
     words |-> Words(unit, request)]

-----------------------------------------------------------------------------
(* takeCandidate(): the client leaves _candidates and its listeners are       *)
(* reset; what is not handed on is destroyed, which resets the ModbusClient.  *)

(* Who holds the client once the listener of `event` has run.                *)
OwnerAfter(event) ==
    CASE event = "connect" -> "user"
      [] event \in {"close", "error"} -> "dropped"
      [] event = "none" -> "discovery"

Destroyed(c) == [c EXCEPT !.pending = <<>>]

(* A handler of the client of h has run.                                     *)
Handled(h, result) ==
    LET next == IF owner[h] = "discovery" THEN OwnerAfter(result.event) ELSE owner[h]
    IN  /\ owner' = [owner EXCEPT ![h] = next]
        /\ client' = [client EXCEPT ![h] = IF next = "dropped"
                                           THEN Destroyed(result.client)
                                           ELSE result.client]

-----------------------------------------------------------------------------
(* Mutant of Started: the scan also starts on construction, as a comment in  *)
(* discover() has it.                                                        *)
StartedTwice == ProbeNextUnitId(ProbeNextUnitId(NewClient).client)

Started == ProbeNextUnitId(NewClient)

(* discover(): the client is made, probes its first unit id and is kept.     *)
Discover(h) ==
    /\ owner[h] = "none"
    /\ owner' = [owner EXCEPT ![h] = "discovery"]
    /\ client' = [client EXCEPT ![h] = Started.client]
    /\ UNCHANGED <<device, answered, busy, reads>>

(* The request answered, and the client that no longer waits for it.         *)
Request(h) == Head(client[h].pending)
Asking(h) == [client[h] EXCEPT !.pending = Tail(@)]

Active(h) == owner[h] \in {"discovery", "user"} /\ client[h].pending # <<>>

Answer(h, kind, size) ==
    answered' = [answered EXCEPT ![h] =
                    [kind |-> kind, user |-> Request(h).user, size |-> size]]

Respond(h) ==
    LET unit == device[h][Request(h).unit]
        response == Response(unit, Request(h))
    IN  /\ Active(h)
        /\ ~Excepts(unit, Request(h))
        /\ Handled(h, OnResponse(Asking(h), response))
        /\ Answer(h, "response", response.size)
        /\ UNCHANGED <<device, busy, reads>>

(* Mutants of OnException: it scans on although the device is identified;    *)
(* it never scans on.                                                        *)
OnExceptionAlways(c, held) ==
    IF held = "discovery" THEN ProbeNextUnitId(c) ELSE Quiet(c)
OnExceptionNever(c, held) == Quiet(c)

(* The ModbusException listener of discover(), while it is set.              *)
OnException(c, held) ==
    IF held = "discovery" /\ c.sunSpecId = 0 THEN ProbeNextUnitId(c) ELSE Quiet(c)

(* An exception: what this read always gives, or a unit that is busy now.    *)
Except(h) ==
    /\ Active(h)
    /\ IF Excepts(device[h][Request(h).unit], Request(h))
       THEN UNCHANGED busy
       ELSE busy[h] < MaxBusy /\ busy' = [busy EXCEPT ![h] = @ + 1]
    /\ Handled(h, OnException(Asking(h), owner[h]))
    /\ Answer(h, "exception", 0)
    /\ UNCHANGED <<device, reads>>

(* The ModbusClient publishes close_event or error_event; a client that the  *)
(* user holds has no listener of the discovery and stays.                    *)
ConnectionLost(h) ==
    /\ owner[h] \in {"discovery", "user"}
    /\ \E event \in {"close", "error"} :
          Handled(h, Publish([client[h] EXCEPT !.pending = <<>>], event))
    /\ UNCHANGED <<device, answered, busy, reads>>

-----------------------------------------------------------------------------
(* The user of a client that was handed over.  It keeps one request           *)
(* outstanding, as the discovery did: of more, module ModbusClient loses      *)
(* answers, and what is left of them is parsed as others.                    *)

UserReadModel(h) ==
    /\ owner[h] = "user" /\ client[h].pending = <<>>
    /\ reads[h] < MaxReads
    /\ reads' = [reads EXCEPT ![h] = @ + 1]
    /\ \E id \in DOMAIN client[h].blockAddresses :
          client' = [client EXCEPT ![h] = ReadModel(@, id)]
    /\ UNCHANGED <<device, owner, answered, busy>>

UserDrop(h) ==
    /\ owner[h] = "user"
    /\ owner' = [owner EXCEPT ![h] = "dropped"]
    /\ client' = [client EXCEPT ![h] = Destroyed(@)]
    /\ UNCHANGED <<device, answered, busy, reads>>

Next ==
    \E h \in Hosts :
        \/ Discover(h) \/ Respond(h) \/ Except(h) \/ ConnectionLost(h)
        \/ UserReadModel(h) \/ UserDrop(h)

(* A device answers what it is asked; nothing else is obliged to happen.     *)
Spec ==
    /\ Init /\ [][Next]_vars
    /\ \A h \in Hosts : WF_vars(Respond(h) \/ Except(h))

-----------------------------------------------------------------------------
(* Properties.                                                               *)

(* The client never waits for two answers, neither in a scan nor in what a    *)
(* call of the user sets off: it is a caller that keeps one request           *)
(* outstanding, as RequestReply wants.                                       *)
OneOutstanding == \A h \in Hosts : Len(client[h].pending) <= 1

(* A candidate the discovery keeps but that waits for nothing.               *)
Stalled(h) == owner[h] = "discovery" /\ client[h].pending = <<>>

(* There are two ways to stall, each an early return: an exception once the  *)
(* device is identified, and a header answer of fewer than four registers.   *)
StallsExplained ==
    \A h \in Hosts : Stalled(h) =>
        \/ answered[h].kind = "exception" /\ client[h].sunSpecId # 0
        \/ answered[h].kind = "response" /\ answered[h].user = ReadHeader
              /\ answered[h].size < 4

(* The table of a unit, read off the unit and not off a walk, and where a    *)
(* model of it is read.                                                      *)
Table(unit) == {a \in DOMAIN unit.entries : unit.entries[a][1] # EndOfTable}
ModelIds(unit) == {unit.entries[a][1] : a \in Table(unit)}
EntriesOf(unit, id) == {a \in Table(unit) : unit.entries[a][1] = id}
Smaller(m, n) == IF m < n THEN m ELSE n
Place(unit, a) ==
    <<a + 2, IF unit.entries[a][1] = InverterMpptExtension
             THEN Smaller(unit.entries[a][2], MpptLimit) ELSE unit.entries[a][2]>>

(* A unit whose common model comes back shorter than any common model: it is *)
(* not identified, and what its table listed outlives it.                    *)
Truncates(unit) == unit.most \in 4 .. unit.common - 1 /\ unit.most \notin CommonLengths
Whole(units) == \A u \in DOMAIN units : ~Truncates(units[u])

(* A table as SunSpec lays it out: from behind the common model on, an entry  *)
(* lies behind the model of the one before, none behind the end marker; what  *)
(* answers any address has no gap before its end marker.                     *)
TableStart(unit) == HeaderAddress + 4 + unit.common
Behind(unit, a) == a + 2 + unit.entries[a][2]
HasEnd(unit) == \E a \in DOMAIN unit.entries : unit.entries[a][1] = EndOfTable
Chained(unit) ==
    /\ \A a \in DOMAIN unit.entries : TableStart(unit) <= a
    /\ \A a \in Table(unit) :
          /\ Behind(unit, a) < AddressMod
          /\ \A b \in DOMAIN unit.entries : b > a => b >= Behind(unit, a)
    /\ \A a \in DOMAIN unit.entries \ Table(unit) : \A b \in DOMAIN unit.entries : b <= a
    /\ HasEnd(unit) /\ unit.beyond = "zeros" =>
          /\ TableStart(unit) \in DOMAIN unit.entries
          /\ \A a \in Table(unit) : Behind(unit, a) \in DOMAIN unit.entries
ChainedTables ==
    \A units \in Devices : \A i \in DOMAIN UnitIds : Chained(units[UnitIds[i]])

(* What the user is handed is a unit with a SunSpec header, whose common     *)
(* model gave the client its identity, with the models of that unit, all of  *)
(* them, each at the place of its last entry: nothing of a unit the scan     *)
(* gave up before.  Only a unit that truncates its common model is handed    *)
(* over without an identity, and only such a unit leaves entries behind.     *)
HandedOver(c, units) ==
    LET unit == units[c.unitId]
    IN  /\ unit.suns /\ unit.common \in CommonLengths
        /\ c.sunSpecId = IF Truncates(unit) THEN 0 ELSE c.unitId
        /\ Whole(units) => c.blockAddresses =
              [id \in ModelIds(unit) |-> Place(unit, Max(EntriesOf(unit, id)))]
HandedOverIsTrue ==
    [][\A h \in Hosts : owner[h] = "discovery" /\ owner'[h] = "user" =>
          HandedOver(client'[h], device[h])]_vars

(* While the user holds the client its directory stays one of that unit:     *)
(* readModel(1) of a device that lists model 1 in its table walks the table  *)
(* again, during which a model listed twice may be found at either place.    *)
DirectoryOfUnit ==
    \A h \in Hosts : owner[h] = "user" /\ Whole(device[h]) =>
        LET unit == device[h][client[h].unitId]
            blocks == client[h].blockAddresses
        IN  /\ DOMAIN blocks = ModelIds(unit)
            /\ \A id \in DOMAIN blocks :
                  \E a \in EntriesOf(unit, id) : blocks[id] = Place(unit, a)

(* An identity is that of the unit the client talks to, at every moment.     *)
IdentityOfUnit ==
    \A h \in Hosts : client[h].sunSpecId \in {0, client[h].unitId}

(* A table whose walk ends: it has an end marker, or a read behind its last   *)
(* model is refused.                                                         *)
Ends(unit) == HasEnd(unit) \/ unit.beyond = "exception"

(* Every candidate is handed over, destroyed or stalls, if the tables of its *)
(* units end: the scan does not go on for ever.                              *)
ScanEnds ==
    \A h \in Hosts :
        (owner[h] = "discovery" /\ \A u \in DOMAIN device[h] : Ends(device[h][u]))
            ~> (owner[h] # "discovery" \/ Stalled(h))

(* A host is scanned until a valid unit is found: a host with a live         *)
(* connection is not given up while it has a SunSpec unit no exception hid.  *)
ValidUnit(unit) == unit.most >= 4 /\ unit.suns /\ unit.common \in CommonLengths
PollsAnyUnitId ==
    [][\A h \in Hosts : Respond(h) /\ busy[h] = 0 /\ owner'[h] = "dropped" =>
          \A i \in DOMAIN UnitIds : ~ValidUnit(device[h][UnitIds[i]])]_vars
=============================================================================
