# TLA+ models of uvw_net

uvw_net adds small network clients to uvw (C++ over libuv): Modbus TCP, SunSpec
on top of Modbus, HTTP, DNS service discovery.  Everything runs on one thread,
in callbacks of the event loop.  What is hard about it is not parallelism but
order: which callback comes first, what a callback finds in state that another
one shares, what is half done when a listener calls back in, and what never
comes.  The modules here model those orders; `PROJECT.json` lists the runs, the
mutants, the mapping of each definition to source lines, the hazards and the
theorems.

## 1. The system

| Part | State | Operations | Talks to |
|---|---|---|---|
| `modbus::ModbusClient` | `_request` (id counter and the one send buffer), `_readBuffer`, `_transactionsUserData`, the TCP handle and its listeners | `connect`, `readHoldingRegisters`, `disconnect`/destructor; listeners for connect, write, data, end, error, close, shutdown | a Modbus device over TCP; publishes to its owner |
| frame codec (`ModbusRequest`, `ModbusResponse`, `ModbusUtil`) | transaction id | `toBuffer`, `fromBuffer`, the exception frame | `ModbusClient` |
| `modbus::ModbusDiscovery` | `_candidates`: host -> shared client | `discover()`, again and again from a timer; connect and error listeners | hands clients to the user |
| `sunspec::SunSpecClient` | `_unitId`, `_unitIdx`, `_headerLength`, `_sunSpecId`, `_blockAddresses`, `_models` | `probeNextUnitId`, `readModel`, the response dispatch and its three handlers | issues requests to one `ModbusClient`, republishes its events |
| `sunspec::SunSpecDiscovery` | `_candidates`: the clients whose scan runs | `discover(client)`, four listeners, `takeCandidate` | owns `SunSpecClient`s until the hand-over |
| models and their factories | `_models`, written by `parseBlock` | registers to values, the identity | `SunSpecClient` |
| `MeasuredValue`, `SunSpecBlock` | last value, minimum, maximum, dirty flag | assignment | their user |
| `SunSpecLogger` | an open file | file output | `SunSpecClient` |
| `http::HttpClient`, `HttpSession` | resolved address, `_isRequestPending`, the current session, its parser | `get`, the listeners of resolver and session | an HTTP server |
| `HttpRequest`, `HttpResponseParser` | the parsed message, `_isComplete` | `toBuffer`, `parse` (llhttp) | `HttpSession` |
| `dns_sd` codec, `DnsServiceDiscovery` | none beyond a UDP handle | `toBuffer`, `fromBuffer`, `discover`, the data listener | mDNS multicast |
| `tools/discover.cpp`, `tools/http_get.cpp` | a timer | compose the classes | |

`tools/discover.cpp` shows the intended composition: a timer calls
`ModbusDiscovery::discover()` every 30 s; each connected `ModbusClient` it
publishes goes to `SunSpecDiscovery::discover()`; each SunSpec unit found is
handed to the user.  Ownership moves by `shared_ptr`, and each hand-over resets
the listeners of the previous owner before the next owner sets its own (an
`uvw` emitter has one listener per event type).

### What is hard, and what makes each part correct

* **ModbusClient.**  The answer to a request arrives in any number of
  `data_event`s; the `write_event` of a later request empties the buffer that
  collects it; every queued write points to the same request buffer; the
  listener of an answer issues the next request before the old transaction is
  erased; ids wrap at 2^16; there is no timeout.  Correct means: no bytes
  lost, each outcome belongs to its request, no transaction is left over,
  silence after `disconnect()`, and an outcome for every request unless the
  caller is told otherwise.
* **SunSpecClient / SunSpecDiscovery.**  A scan over 248 unit ids is a chain in
  which every handler must issue exactly one further request or end the scan,
  and the same dispatch tells answers apart by a number that is at once a
  marker, an address and a model id, and by their size.  Correct means: one
  request outstanding, no stall but the ones the code means, the identity and
  directory handed over are those of the unit.
* **Frames and models.**  What a device measures reaches the user through octets
  in an order, registers at offsets, scale factors, two's complement, sentinels,
  lengths that tell one model from another and a meter that deviates from the
  standard.  Correct means: a frame is understood when its last octet is there
  and as what it says, the identity is the device's, what is published is what was
  measured, and a read is heard of.
* **MeasuredValue.**  Minimum and maximum must follow every reading, the first one
  included, and the dirty flag must mean that one of them moved.
* **ModbusDiscovery.**  A client is shared by the map, the user and the loop.
  Correct means: no second connection to a host that has one, listeners
  always of the party that waits for the next event, no connection without an
  owner, failed hosts tried again.
* **HttpClient.**  One flag and one session, replaced while the old session's
  events are still to come, possibly from inside its own listener.  Correct
  means: the flag and the timeouts tell the truth, a replaced session is
  silent, every `get()` is settled.
* **DNS.**  Names whose rest is written elsewhere in the datagram, sizes that must
  add up to where the next record starts, a socket on which the queries of
  everybody arrive.  Correct means: every message is read as what it says, the
  query is one any host would write, only records of the service are published.

The `hazards` of `PROJECT.json` list these at their lines.

## 2. Modules

```
RequestReply            what ModbusClient promises a caller with one request
  ^ implemented by
ModbusClient  <-- ModbusClientProofs
  | its promise is what a request is to
SunSpecClient           handlers as operators
  ^ EXTENDS          ^ EXTENDS
  |                SunSpecReading <-- SunSpecReadingProofs,
  |                  |                MCSunSpecReading (three real devices)
  |                  | EXTENDS
  |                  +-> SunSpecDevice   what the standard says of a device (external)
  |                  |     +-> SunSpecModels   registers to values
  |                  |           +-> ModbusFrame <-- ModbusFrameProofs
  |                  +-> MeasuredValue
SunSpecDiscovery <-- MCSunSpecDiscovery (twelve kinds of units)
  ^ EXTENDS
SunSpecDiscoveryProofs

ModbusDiscovery <-- ModbusDiscoveryProofs   the life of the clients
HttpResponseParser <-- HttpResponseParserProofs   llhttp's callbacks
  ^ EXTENDS
HttpClient <-- HttpClientProofs, MCHttpClient   client, session, resolver

DnsMessage              datagram <-> message, as functions
  ^ EXTENDS
MdnsResponder           how other hosts write a message: the reference (external)
  ^ EXTENDS
DnsServiceDiscovery <-- DnsServiceDiscoveryProofs, MCDnsServiceDiscovery
```

### ModbusClient

`link` is the TCP handle (`tcp`, `reading`, `listening`), `requests` the two
request members, `sending` what libuv and the device hold, `incoming` the
byte stream and the buffer, `heard` what the caller was told.  An answer has
two parts (`FrameParts`): what fits in a segment and the rest.  `_readBuffer`
always is a run of the stream, so it is the pair of positions
`bufStart`..`arrived`; a `data_event` delivers any number of parts, so answers
are split and coalesced in every way.  `fromBuffer` at a position within an
answer may yield anything.  `Write` has the three outcomes of `uv_write`: sent,
queued, refused (the code ignores the error).  A queued write is sent with what
`_request._buffer` holds *then* (`Flush`).

Each listener is one action; `Deliver` is the whole tail of the data listener
with the caller's possible nested request between the publish and the erase.
The destructor only calls `disconnect()`, so they are one action.  What the
model takes from libuv: completed writes are reported before the loop polls for
data again; a closing handle delivers nothing but its failed writes and its
close; a write on a connecting handle is queued.  `shutdown_event` never
comes: nobody calls `shutdown()`.

`RequestReply` is the abstract promise: outcome *i* answers request *i*, one at a
time, none after `disconnect()`.

### SunSpecClient, SunSpecDiscovery

A handler is an operator from the client's fields to its fields and the event
it publishes, because the discovery reacts to that event in the same call:
`Respond` and `Except` are the whole chain ModbusClient listener -> SunSpecClient
handler -> discovery listener -> `takeCandidate` or next probe.  `pending` is
the list of unanswered reads, which `RequestReply` answers in order and without loss
if there is one of them at most.  That the client itself never has two, neither in a
scan nor after a call of its user, is `OneOutstanding`; the user, whom the library does
not keep from a second `readModel()`, is modelled as one that waits for the answer
of the first (`UserReadModel`).  What becomes of two is `modbus_collects`: answers are
lost, and what is left of one may be taken for an entry of the table.  Registers
are reduced to what the handlers look at.  A device is a function from unit id to
what that unit answers; any answer may also be a passing exception, and the
connection may be lost at any time.  A destroyed client has no pending reads
because `~SunSpecClient` resets the ModbusClient's listeners.

### ModbusFrame, SunSpecModels, SunSpecDevice, MeasuredValue, SunSpecReading

Where SunSpecDiscovery looks at every order of events over abstract units,
SunSpecReading looks at real data in one order.  A device has a memory of registers
at their real addresses; requests and answers are the octets on the wire, and an
answer may be cut and collected in `readBuffer`.  `ModbusFrame` is `toBuffer()`
and `fromBuffer()` of both directions; `ModbusResponse::toBuffer()` and
`createModbusExceptionBuffer()`, which the repository has for its tests, are the
device's side.  `SunSpecModels` is each factory, their dispatch and
`parseBlock()`; `_models` keeps what earlier blocks left, as the code does.  Text is
octets, a double is the number of its hundredths, which keeps a scale factor of -2
exact, takes a finer one to the hundredth below, and tells truncating towards zero
from rounding.  The handlers are those of SunSpecClient: `Abstract` computes from the
registers what they look at.

Nothing in the repository assigns to a `MeasuredValue`.  Its user is a model of one
who keeps a `SunSpecBlock` of them for each MPP and assigns every block of model
160 to it, which is what the types are made for.  `told` and `seen` remember what
the accepted answers stood for, written from the device's side, not by the factories
that are checked against it.

`SunSpecDevice` is that side: where a device has its table (`HasTable`), what the
registers of each block stand for (`HasBlocks`; `StandsFor`, and `ElgrisStandsFor` for the
meter that deviates), and what its names are (`HasNames`).  It defines values by what the
registers *mean*, a number scaled by a power of ten (`IsScaled`), and names no
operator of a factory but the reading of a register and the octets of a name.  A device
that satisfies all of it is standard (`IsStandard`); TLC evaluates that for the three
devices of the run, whose registers `MCSunSpecReading` writes out.

### ModbusDiscovery

`<<h, g>>` is the g-th client made for host `h`.  `isConnected()` is libuv's
`active()`, and a TCP handle is active while it *reads*, which a ModbusClient
starts with its first `write_event`; a connecting client is therefore thrown
out by the next `discover()`, and `reading` is a variable of its own.
`EagerHosts` are those whose client the user reads from inside the callback of
the hand-over, which `SunSpecDiscovery::discover()` does.  A client whose last owner
lets go is closed by its destructor.  The early return without a subnet is
`Discover({})`.

### HttpResponseParser, HttpClient

A response is a number of octets of which some belong to spans: reason phrase,
names, values, body.  A text is the sequence of the places its octets come from, so that
lost, doubled or misplaced pieces show.  `Execute` gives each callback as much of
its span as a data event holds, which is what llhttp does (external); the callbacks
and `parse()` are the code's.  `AfterSpans` is a recursive function, not an operator,
so that it can be proved about.  Data after a complete message is appended to it and
published again (`TrailingData`); data llhttp rejects silences the session
(`RejectedData`).

Session *i* is that of the i-th `get()`; its data events end at the places in
`Ends`.  `Get` is the second half of `get()`, shared by a call from
outside (`UserGet`) and one from the response listener (`ResponseAndGet`).
The latter destroys the `HttpSession` whose listener is running; the statement
after the publish then uses a destroyed object, so whether the flag is cleared
is a choice.  `forget`, `addrless`, `nested` remember how a `get()` was called.  The
code looks at the result of none of its calls on the handle: a `connect()`, `write()` or
`read()` may be refused at once, which leaves the session in `"refused"`, where
no event reaches it any more.  One that fails later is an `ErrorEvent`.

### DnsMessage, MdnsResponder, DnsServiceDiscovery

`DnsMessage` follows `fromBuffer` and `toBuffer` octet by octet, because sizes and
offsets are what can go wrong.  A `std::string` name is the sequence of its
labels between the dots, so that the dot the parser appends, the one the
constructor adds and the empty label `split()` makes of it are visible.
`MdnsResponder` writes the same messages independently, with or without
compression, and is what the parser is checked against.  `IsMessage` is what hosts
write: labels of 1 to 63 octets, names of at most 255, counts and sizes of 16 bits, and
neither a question nor a server that is the root (see below).  What the code does
by loops are recursive functions here, not operators, so that they can be proved
about; `Octet` is 0 behind the end of a datagram, where no datagram of a host makes
the code read.  The listener of
`DnsServiceDiscovery` keeps no state but the name (`WithDot`), so lost, repeated and reordered datagrams
can only matter through `group`, the datagrams under way.  A record's owner is
compared with the service as `ends_with` does, on the text with its dots, not label
by label; `PublishedIsTrue` states it by labels.

## 3. Runs

| Run | Expect | What it shows |
|---|---|---|
| `modbus_serial` | pass | a caller with one request outstanding: `BytesKept`, `OutcomeInOrder`, `NoStaleTransaction`, `SilentAfterDisconnect`, `Answered`, and that it sees `RequestReply` (`Promised`) |
| `modbus_pipelined` | pass | two outstanding, answered in any order: a response never carries the userData of another request (`NeverForeignUserData`) |
| `modbus_collects` | violation | two outstanding: `BytesKept` fails, the write listener empties a half-collected answer |
| `sunspec_discovery` | pass | `OneOutstanding`, `StallsExplained`, `IdentityOfUnit`, `HandedOverIsTrue`, `DirectoryOfUnit`, `ScanEnds` over all pairs of twelve kinds of units |
| `sunspec_reading` | pass | three devices read through real frames: `FramesAreTrue`, `IdentityIsTrue`, `PublishedIsLastAccepted`, `Extremes`, `DirtyIsChange`, `ReadIsHeard` |
| `sunspec_scan_stops` | violation | a unit without a SunSpec header ends the scan (`PollsAnyUnitId`) |
| `modbus_discovery` | pass | `OneConnection`, `ListenersOfOwner`, `NoOrphan`, `TriedAgain` |
| `modbus_discovery_idle` | violation | a client nobody has read from yet is connected to a second time |
| `http_client` | pass | `PendingIsUnanswered`, `TimeoutsAreTrue`, `GivenUpIsTold`, `ResponseIsWhole`, `OnlyCurrentSpeaks`, `GetIsSettled` |
| `http_client_nested` | violation | a `get()` from the response listener reports a false timeout |
| `http_client_early_get` | violation | a `get()` before the name is known is never sent |
| `dns_service_discovery` | pass | `Understood`, `QueryIsStandard`, `PublishedIsTrue`, `OneInstanceIsWhole` over some 2200 messages, each in full and compressed |

Deadlock is not checked: every one of these systems may stop (a caller that asks
no more, a host that answered everything).

**Bounds.**  `modbus_serial`: four requests with ids modulo 3, so the id wraps
and every id is used twice, and any cut of the stream of eight parts.
`modbus_pipelined`: three requests, two outstanding: the first overlap, the
overtaking answer and a third request that reuses the state they leave; the id does
not wrap.
`sunspec_discovery`: two unit ids, the second listed twice as 161 is; addresses
modulo 128 with the header at 40 and `ReadHeader` at 100 keep the order of
40000 < 63000 < 65536, so a walk can reach the marker and can wrap; two passing
exceptions and two user reads.  Two of the units are there because a proof asked
for them: one whose table is padded with zeros behind its last model, and one that
returns as many registers of its common model as a shorter common model has.
Candidates do not interact, so one host is enough.  `sunspec_reading`: an inverter with three MPPs (two are read), an Elgris
meter and another meter with a model that has no factory and one of two
registers; positive, negative, missing and scaled values, 32-bit values that fill
their upper word, ids that wrap; three reads of what the device measures at up to three times
(the first reading, one that moves an extreme, one between); one fault of a
kind: busy, an answer of two registers, an answer of 47.  `FramesAreTrue` looks at
every cut in every state with an answer under way, so one cut (`Cuts`, inside the
header) is enough for the collecting.  Scale factors are -3 to 1, and no value
overflows an `int32_t`.  `modbus_discovery`: three generations of a client for two hosts, one
of each kind of user.  `http_client`: three `get()` calls: one replaced, one
replacing, one after a replaced one; a response with a header and a body, cut inside
of the name, of the value, right behind it and inside of the body, one that
ends with its headers, and one without a reason phrase.

`dns_service_discovery`: one message at a time next to one query, since the listener
keeps no state; up to two answers, one authority and one additional record of
two instances, another service and their host, labels of one octet.

**Fairness.**  `FairSpec` of ModbusClient: the loop runs ready callbacks, a connect
attempt ends, the device answers.  The caller is not obliged to act, and
`Answered` is only promised when no error or close is reported, and says nothing of
an answer that is lost: the code has no timer for one.  In
SunSpecDiscovery the device answers; it is the only party assumed fair, and
`ScanEnds` is limited to tables whose walk ends (`Ends`): they have an end marker, or the
unit refuses a read behind its last model.  A unit that answers zeros there and has no
end marker is walked for ever; the instance has two of them, and units of which the
walk ends only by the end marker (`Padded`) or only by the exception (`BrokenTable`).  In ModbusDiscovery the
timer goes on calling `discover()`, a subnet is found again and again, a connect
ends.  In SunSpecReading the device answers and its data arrives.  In HttpClient
names resolve or fail, connects end, a server sends on or ends or loses the
connection.  The code has no timers of its own, so nothing
stronger is justified.

### What the runs found

Five disagreements between the code and its own comments, tests or README are
`findings` in `PROJECT.json`: the cleared read buffer, the idle connection, the
scan that stops, the false timeout, the early `get()`.  Others are part of the
properties instead:

* `StallsExplained` names the two ways a candidate waits for ever: an exception
  after the identification (`SunSpecDiscovery.cpp:36`) and a header answer of
  fewer than four registers (`SunSpecClient.cpp:210`).
* `HandedOverIsTrue` excepts a unit that truncates its common model: it is handed
  over without an identity, and entries of its table may end up in the
  directory of another unit.  One that truncates it to the length of another common
  model does get its identity; the proof of the property found that case, which an
  earlier definition of `Truncates` had wrong.
* `DirectoryOfUnit` is weaker than `HandedOverIsTrue` because `readModel(1)` after
  the hand-over walks the table again if the device lists model 1 in it.
* `GetIsSettled` excepts what the code publishes nothing about: a response ended by the
  server closing the connection, for which `HttpSession` has no listener; a
  `connect()`, `write()` or `read()` that is refused at once (`HttpClient.cpp:57`,
  `HttpSession.cpp:21,25`); and a `get()` without an address (`HttpClient.cpp:59`).  The
  last is the finding if it was early; after a failed resolution, of which the user was
  told once, every further `get()` is dropped as silently.
* A block its factory rejects is published all the same, as the values of the last
  block that was accepted, or without values (`PublishedIsLastAccepted`).  That property
  is limited to identified devices: a device whose common model is rejected is
  handed over without an identity, and an Elgris meter is then read as a meter
  that keeps to the standard.
* `ReadIsHeard` is limited to models with a factory: of another one, or of one of
  two registers, `readModel()` returns true and nothing is ever published.  An
  answer cut to two registers is taken for an entry of the table.
* An exception code without a name (7) becomes `Unknown`.  The event bits are
  read from register 38, the upper word of the standard's `Evt1`, and the scale factor of
  a wye meter's energies is not read: `MeterSays` is of meters whose energies have the
  factor 0, and the events of an inverter are those in register 38.
* An answer cut to two registers is taken for an entry of the table, whatever was asked
  for: the common model's first name or the first two registers of a block enter the
  directory as a model.  The proof of `IdentityIsTrue` and `PublishedIsLastAccepted` had to
  assume that this entry leads nowhere: that its "id" is none the library has a
  factory for and its "address" is not in the device's memory (`CutsLeadNowhere`).
  With a device that cuts to two registers a block that begins with 103, say, the
  client would read its registers as those of an inverter.
* A client takes any block of 105 registers of an Elgris meter for its meter model, also
  one of an inverter's or an MPPT's id (`SunSpecModelFactory.cpp:38-44`), which
  `ElgrisStandsFor` therefore excludes.
* `ResponseIsWhole`: however a response is cut, its code and its body are whole.  A header
  is not: the rest of a name becomes the name of another header, and the rest of a
  value replaces its beginning, also by nothing when the data ended just behind it.
  And the code of a response without a reason phrase is given out as 0, because the
  code is only looked at when llhttp reports a phrase
  (`HttpResponseParser.cpp:43-46`); the proof asked what a response must have for its
  code to be told.
* A host whose candidate the user drops while the map holds it stays connected,
  and is not published again until the host closes the connection.
* `Understood` says that a message with an empty text record is rejected as a
  whole; `OneInstanceIsWhole` is limited to messages about one instance, because
  the listener combines the last records of each kind; and the address of the
  host is never published, because its record does not carry the name of the
  service.  A server that is the root, which says that there is no such service, has 7
  octets of data where the code expects 8 (`DnsRecordDataSrv.cpp:13`), and the message is
  rejected as a whole; so is one that ends with a question for the root
  (`DnsMessage.cpp:38`).  The proof that every message is understood asked for both exceptions.
* `ends_with` compares text (`DnsServiceDiscovery.cpp:31`): records of
  `x_svc._tcp.local` are published as those of `_svc._tcp.local`.  `PublishedIsTrue`
  holds when no host owns such a name.
* `toBuffer()` overwrites type and class when there is a second question,
  but nothing sends two.
* `SunSpecClientTest.cpp:46-53` expects a forwarded `connect_event` where
  `SunSpecClient.cpp:26-29` publishes none; the model follows the code.

## 4. Proofs

Each theorem holds for every value of the constants the named `ASSUME`s of its
module allow.  A proof that a step keeps an invariant has one step per action.  TLC
checked each inductive invariant, or its parts, on the instances first.

| Module | Theorems | Property |
|---|---|---|
| `ModbusClientProofs` | `TypeCorrect`, `SilentCorrect` | `TypeOK`, `SilentAfterDisconnect` |
| | `BytesKeptCorrect`, `OutcomeInOrderCorrect`, `NoStaleTransactionCorrect` | the invariants of `modbus_serial`, for `MaxOutstanding = 1` |
| | `NeverForeignCorrect` | `NeverForeignUserData`, for any `MaxOutstanding` and `MaxRequests < TidMod` |
| | `PromisedCorrect` | `Spec` implements `RequestReply`, for `MaxOutstanding = 1` |
| `SunSpecDiscoveryProofs` | `ScanTypeCorrect`, `OneOutstandingCorrect`, `StallsCorrect`, `IdentityCorrect` | `TypeOK`, `OneOutstanding`, `StallsExplained`, `IdentityOfUnit` |
| | `HandedOverCorrect`, `DirectoryCorrect` | `HandedOverIsTrue`, `DirectoryOfUnit`, for tables that are chained |
| `SunSpecReadingProofs` | `TypeCorrect`, `FramesCorrect` | `TypeOK`, `FramesAreTrue` |
| | `ModelsHold`, `IdentityHolds`, `PublishedHolds` | `IdentityIsTrue`, `PublishedIsLastAccepted`, for `StandardDevices` |
| | `ExtremesCorrect`, `DirtyCorrect` | `Extremes`, `DirtyIsChange` |
| | `NewHoldsNothing`, `AssignHolds`, `AssignBlockIsKeywise` | one step of both |
| `ModbusDiscoveryProofs` | `DiscoveryTypeCorrect`, `ListenersCorrect`, `NoOrphanCorrect`, `OneConnectionCorrect` | `TypeOK`, `ListenersOfOwner`, `NoOrphan`, `OneConnection` |
| `HttpClientProofs` | `TypeHolds`, `ResponseHolds` | `TypeOK`, `ResponseIsWhole` |
| | `PendingHolds`, `TimeoutsHold`, `GivenUpHolds`, `OnlyCurrentHolds` | `PendingIsUnanswered`, `TimeoutsAreTrue`, `GivenUpIsTold`, `OnlyCurrentSpeaks` |
| `ModbusFrameProofs` | `ResponseIsUnderstood`, `ExceptionIsUnderstood`, `ResponseIsWholeAtItsEnd` | the codec's half of `FramesAreTrue`, for every id, unit and registers |
| `DnsServiceDiscoveryProofs` | `MessageRead` | the codec's half of `Understood`, for every message of `IsMessage` |
| | `TypesHold`, `MessagesUnderstood`, `QueriesAreStandard` | `TypeOK`, `Understood`, `QueryIsStandard` |
| | `PublicationsAreTrue` | `PublishedIsTrue`, for hosts of `OwnersApart` |
| | `InstancesAreWhole` | `OneInstanceIsWhole`, for hosts of `OwnersApart` and `InstancesNamed` |

**ModbusClient.**  The three serial invariants are not inductive: that the answer
delivered next is the one of the outstanding request depends on what the device
and libuv hold.  `SerialInv` adds this: the outstanding request is in exactly one
place (queued, at the device, or in the stream), it is the only one there, its
place agrees with `request`, and the buffer starts at the end of the last
published answer.  In particular at most one write exists and none can complete
while an answer is collected, which is why the clearing write listener does no harm
here, and why it does in `modbus_collects`.  `LinkInv` relates `tcp`, `reading` and
`listening` for the silence.  `IdIsNumber` carries `NeverForeignUserData`: before the
id wraps, it is that of one request in every place where it is kept or under way.
The refinement uses the mapping of `Promise`: `asked`
is the number of requests, `heard` the published outcomes, `open` the listeners.
`MaxOutstanding = 1` is what `OneOutstanding` says of the caller that exists, and
that is proved, too.

**SunSpecDiscovery.**  For any devices, unit ids, header address and lengths.  A
scanning client either waits for one answer or has stalled for one of the two
reasons.  That needs to know *what* it waits for (`Scans`): a header, a common
model or a table entry, the latter two only of a unit that already returned four
registers, because only then the answer cannot be mistaken for another kind and
each handler issues its next request.  `Good` says that all requests of a
client go to its current unit and that its identity is none or that unit's.  A client
that was handed over also waits for one answer at most, because its user does not ask
before it came and a handler asks for one thing at most; `DirectoryCorrect` is about
such a user.

The directory takes a second invariant, `DInv`, on top of it.  While the scan waits
for the entry at an address, its directory is the table of the unit up to that
address (`WalkedTo`): the models of all entries below it, each at the place of the
last one.  A client the user holds has all models of its unit, each at one of its
entries, and waits only for entries of the table (`Owned`).  That the walk lands
on the next entry needs tables to be what a device has: every entry lies behind the
one before it, nothing lies between or in front, and one that answers zeros where it
has nothing has no gaps before its end.  This is `ChainedTables`, the hypothesis of
both theorems; TLC evaluates it for the units of the run.

**ModbusDiscovery.**  For any hosts, subnets and number of clients.  The properties
are nearly inductive; what is missing is that the clients of a host are numbered
without gaps (`NoGaps`), so that the next one was never made, and that a client of
a user who reads at once is in the map as long as it is live (`EagerReads`).

**HttpClient.**  For any number of `get()` calls, responses and cuts.  The
properties speak of the sequence `published`; the invariant speaks of the set of
its events.  Every step has one of five effects (nothing, an error, a
response, a `get()`, a `get()` from the response listener): one lemma per effect shows that
it keeps the invariant, one per action that it has one of them.  `PendingIsTrue`,
that a set flag is never wrong, is what survives a nested `get()`.

`ResponseHolds` takes a second invariant, `PInv`: until it saw the end, the parser
holds of the response exactly what lies before unit `at` (`Holds`), and its headers
are those that started there, in order and in full, as long as no execution ended
inside of one (`HoldsExactly`).  `HttpResponseParserProofs` shows that an execution
from any unit to any later one keeps both (`ExecuteHolds`), that a new parser has them
(`NewHolds`), and that at the last unit they are what `ResponseIsWhole` says
(`WholeIsHeld`).  An execution is a recursion over the spans, so each of these needs an
induction.  The library's induction theorems take an operator as a parameter,
which no installed prover can instantiate; but for *sets* of numbers induction
follows from the well-foundedness of `<` (`NumbersFrom`), and the set here is that of
the span counts for which the claim holds.  That the recursive function has a value
at all is proved in the same way (`StepsExist`, `AfterSpansIs`).  Of a
server the theorem needs what `ResponsesAssumption` says: spans in order, a value
behind each name, an octet behind every span but the body.

**Frames.**  `ModbusFrameProofs` shows for every response of fewer than 128
registers and every exception that `fromBuffer()` inverts the frame, and that no
proper beginning of a response is taken for a message.

**SunSpecReading.**  For any devices, unit ids, lengths and cuts.  `FInv` says what the
wire holds: a client waits for nothing and the wire is idle, or it waits for one
answer (`Waits`).  In the latter case either the request is on the wire, as the frame
of what is waited for and with the current transaction id, or the octets collected
and the octets to come, one behind the other, are the frame of what the device
said.  So the collected octets are always a beginning of that frame, which is no
message before its end; and where it ends, the client understands what was said.
`EInv` says that the measured values the user keeps hold all their readings, those
of `seen`; the step is `AssignBlockIsKeywise` and `AssignHolds`.  For the
readings to be numbers it carries along that the MPPs in the client's models are
numbers, whatever blocks were accepted.  The two need of a device only what
`DevicesAssumption` says: registers are 16 bits wide.

That what is published is what was measured needs more of a device: that it is standard
(`IsStandard`).  Two invariants carry it, proved together (`ModelsHold`).  `PInv` says
where the client is led: a request is for the header, for the common model at its
length, for an entry of the table (all of these before the hand-over), for a block at
its place and length (after it), or for nothing the device has (`Asks`); its directory
holds blocks of the device and entries that lead nowhere (`Directs`); and what the device
is saying is a beginning of what was asked for (`Answers`).  Only then do the number a
request carries and the size of its answer, by which the client dispatches, tell what
the registers are.  `VInv` says what the models hold (`Truth`): the names of the common
model if and only if the client has an identity; nothing else before the
hand-over; and of an identified device, for each model with a factory, the values of
what `told` remembers.  An exception changes neither; an answer changes one model.

Below both are the factories (`FactoryIs`): for every register content, a block that
stands for something is read as that, one of another length or cut to 47 registers
leaves the values as they were, and of MPPs there are as many as are there in full.
It rests on `ScaledIs` (an integer times a power of ten, for factors -10 to 9, against
the definition of `IsScaled`), `RoundedIs`, `WholeIs`, and on `NameIsRead` (a string ends
at its first zero).  The factors are those of the standard but 10, with which no value but 0
would fit the 32 bits the code computes in; what the registers stand for fits them, too
(`IsInt32`), since `SunSpecModels` has no overflow.

**DNS.**  For any service, any messages of any number of questions and records, and
both ways of writing them.  `MessageRead` says that `FromBuffer` inverts `Encode`.
A host that compresses refers to any place where it wrote the rest of the name before,
so the invariant of writing is `PlacesRead`: at each place the writer remembers,
`parseName()` reads the name it is remembered for, whatever is written behind.  From
it, every question and record written reads as what it is, at its place and with the
size that leads to the next one (`NameWritten`, `QuestionWritten`, `RecordWritten`); a
section is a chain of those (`Chain`), and `parse()` walks it, item by item
(`SectionParsed`), as often as the counts in the header say (`HeaderIs`).  A recursive
function has a value only if one exists: for those that count this is an induction over
the count, and for `parseName()`, which follows pointers that could be a cycle, it is
the least relation the links allow, in which a cycle has no value (`LinksExist`).

The invariant of DnsServiceDiscovery, `IInv`, says that every datagram under way was
written by `toBuffer()` or by a host (`WasSent`); that it is then read as what it says
is `SentIsSaid`.  `QueriesAreStandard` compares octets: the dot the constructor appends,
the one `discover()` drops and the empty label that ends a name on the wire cancel out
for any name.  `PublicationsAreTrue` has one hypothesis, `OwnersApart`: no host owns a
name that ends with the service's text inside of a label.  Without it the property is
false of the code; TLC evaluates it for the hosts of the run.  `InstancesAreWhole` has
a second one, `InstancesNamed`: a pointer of the service leads to a name in the service,
as DNS-SD has it; the records of an instance outside of it do not concern the listener.
That every record of the service does is `TextEnds`: a name that ends with another label by
label ends with it as a text, which is an induction over the labels.

Only model-checked: all liveness (`Answered`, `ScanEnds`, `TriedAgain`,
`GetIsSettled`, `ReadIsHeard`; fairness and ENABLED are out of the prover's reach), and
`NeverForeignUserData` beyond the wrap of the ids.  Every other property of the passing
runs is a theorem.

## 5. Not modelled

* `SunSpecLogger` writes values to files; `util::callLater` is called by a test
  only, and nothing publishes a `WarningEvent`; `SunSpecClient::doRead()` is called by
  nobody.
* `HttpRequest::toBuffer()` joins strings; nothing of its text is a state.
* `tools/discover.cpp` and `tools/http_get.cpp` are the users the modules assume:
  their calls are actions of the user there.
* Malformed DNS datagrams.
* What happens inside a single callback, since a handler is one step: a client
  destroyed by the listener it runs (`SunSpecDiscovery.cpp:57`), and a `get()` from an
  error listener, which calls that listener again for the timeout, without end
  (`HttpClient.cpp:50`).  The one exception is the nested `get()` of a response
  listener, whose use of a destroyed session is a choice.

libuv, uvw, llhttp, the devices and servers are modelled only as far as the source
relies on them, and marked external.

## 6. Plan

1. *(done)* ModbusClient with RequestReply; SunSpecClient and SunSpecDiscovery;
   ModbusDiscovery; HttpClient with its parser; DnsMessage and DnsServiceDiscovery;
   frames, models, measured values and SunSpecReading; the proofs of section 4.
2. `Discover`: ModbusDiscovery and SunSpecDiscovery composed as in
   `tools/discover.cpp`: hosts rediscovered while candidates of them are
   scanned, and what of the clients outlives its owners.
3. Proofs: `NeverForeignUserData` across a wrap, as long as no request stays unanswered
   while `TidMod` others are made.  (With one request outstanding, which is what the library
   does, `OutcomeInOrderCorrect` has it for any number of wraps.)
