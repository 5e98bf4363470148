---------------------------- MODULE ModbusClient ----------------------------
(***************************************************************************)
(* modbus::ModbusClient over one uvw::tcp_handle: requests written to a      *)
(* Modbus device, its answers collected from a byte stream and published     *)
(* to the listeners.                                                         *)
(*                                                                           *)
(* The bytes of an answer are abstracted to FrameParts parts; a data_event   *)
(* may end anywhere in an answer and may carry several.  _readBuffer is a     *)
(* contiguous run of the stream, so it is kept as the pair of positions       *)
(* <<bufStart, arrived>>: it holds the parts bufStart+1 .. arrived.           *)
(* The caller's i-th request carries userData i.                             *)
(***************************************************************************)
EXTENDS Integers, Sequences, SequencesExt

CONSTANTS
    MaxRequests,     \* bound: requests one caller issues in a behaviour
    MaxOutstanding,  \* requests the caller keeps unanswered; 1 for SunSpecClient
    TidMod           \* transactionId is a uint16_t: 2^16 in the code

ASSUME RequestsAssumption == MaxRequests \in Nat \ {0}
ASSUME OutstandingAssumption == MaxOutstanding \in Nat \ {0}
ASSUME TidAssumption == TidMod \in Nat /\ TidMod > 2 /\ TidMod > MaxOutstanding

VARIABLES
    tcp,                   \* what the socket is doing
    reading,               \* uv_read_start was called: active(), isConnected()
    listening,             \* the listeners on _tcpClient are set: not reset()
    request,               \* _request: the caller's latest request
    transactionsUserData,  \* _transactionsUserData
    queued,                \* writes libuv holds, every one a pointer to _request._buffer
    written,               \* completed writes whose write_event is still to come
    received,              \* requests the device has and has not answered
    stream,                \* the answers of the device, in the order it sent them
    arrived,               \* parts of the stream delivered by data_events
    bufStart,              \* parts delivered and no longer in _readBuffer
    published,             \* outcomes published to the listeners of this client
    notices,               \* connect, error and close events published
    refused                \* a write failed at once; the caller is not told

link == <<tcp, reading, listening>>
requests == <<request, transactionsUserData>>
sending == <<queued, written, received, refused>>
incoming == <<stream, arrived, bufStart>>
heard == <<published, notices>>
vars == <<link, requests, sending, incoming, heard>>

FrameParts == 2          \* an answer: what fits in one segment, and the rest
Kinds == {"response", "exception"}
NoTid == TidMod          \* a transaction id no outstanding request has
None == [kind |-> "none", req |-> 0, tid |-> NoTid]

Requests == [number : 0 .. MaxRequests, tid : 0 .. TidMod - 1]
Answers == [kind : Kinds, req : 0 .. MaxRequests, tid : 0 .. TidMod - 1]

TypeOK ==
    /\ tcp \in {"idle", "connecting", "connected", "failed",
                "closing", "dropped", "closed"}
    /\ reading \in BOOLEAN /\ listening \in BOOLEAN /\ refused \in BOOLEAN
    /\ request \in Requests
    /\ DOMAIN transactionsUserData \subseteq 0 .. TidMod - 1
    /\ \A t \in DOMAIN transactionsUserData : transactionsUserData[t] \in 0 .. MaxRequests
    /\ queued \in Nat /\ written \in Nat
    /\ received \in Seq(Requests)
    /\ stream \in Seq(Answers)
    /\ bufStart \in Nat /\ arrived \in Nat
    /\ published \in Seq([kind : Kinds, req : 0 .. MaxRequests, user : 0 .. MaxRequests])
    /\ notices \in Seq({"connect", "error", "close"})

Init ==
    /\ tcp = "idle" /\ reading = FALSE /\ listening = TRUE
    /\ request = [number |-> 0, tid |-> 0]
    /\ transactionsUserData = <<>>
    /\ queued = 0 /\ written = 0 /\ received = <<>> /\ refused = FALSE
    /\ stream = <<>> /\ arrived = 0 /\ bufStart = 0
    /\ published = <<>> /\ notices = <<>>

-----------------------------------------------------------------------------
(* Helpers.                                                                  *)

(* The events the listeners of the constructor republish.                    *)
Notify(events) == notices' = IF listening THEN notices \o events ELSE notices

Repeated(event, n) == [i \in 1 .. n |-> event]

(* Mutants of NextTid: an id that never wraps, and one that never advances.  *)
NextTidUnbounded(t) == t + 1
NextTidStuck(t) == t

(* ++transactionId on a uint16_t.                                            *)
NextTid(t) == IF t + 1 = TidMod THEN 0 ELSE t + 1

(* Mutant of Remember: the userData is stored before toBuffer() advances the *)
(* id.                                                                       *)
RememberTooEarly(userData, previous) ==
    [t \in DOMAIN userData \cup {previous.tid} |->
        IF t = previous.tid THEN previous.number + 1 ELSE userData[t]]

(* _transactionsUserData[request.transactionId] = userData, after toBuffer() *)
(* has advanced the id; the request before it was `previous`.                *)
Remember(userData, previous) ==
    [t \in DOMAIN userData \cup {NextTid(previous.tid)} |->
        IF t = NextTid(previous.tid) THEN previous.number + 1 ELSE userData[t]]

(* Mutants of Erase: the transaction of the latest request, or none.         *)
EraseLatest(userData, tid, latest) ==
    Restrict(userData, DOMAIN userData \ {latest.tid})
EraseNothing(userData, tid, latest) == userData

(* _transactionsUserData.erase(response->transactionId); `latest` is the     *)
(* request issued last, which the code does not look at.                     *)
Erase(userData, tid, latest) == Restrict(userData, DOMAIN userData \ {tid})

UserDataOf(userData, tid) == IF tid \in DOMAIN userData THEN userData[tid] ELSE 0

(* Mutant of Complete: the MBAP header is enough.                            *)
CompleteHeader(parts) == parts >= 1

(* fromBuffer's two length checks: the answer at the head of the buffer is   *)
(* complete.                                                                 *)
Complete(parts) == parts >= FrameParts

(* What ModbusResponse::fromBuffer may return for the parts from+1 .. to.     *)
(* A buffer that starts within an answer is parsed all the same, and its     *)
(* bytes can mean anything.                                                  *)
FromBuffer(from, to) ==
    IF from % FrameParts = 0
    THEN IF Complete(to - from)
         THEN {stream[(from \div FrameParts) + 1]}
         ELSE {None}
    ELSE {None} \cup [kind : Kinds, req : {0},
                      tid : DOMAIN transactionsUserData \cup {NoTid}]

(* An exception is published without its transaction id or userData.         *)
OutcomeOf(response) ==
    [kind |-> response.kind, req |-> response.req,
     user |-> IF response.kind = "exception" THEN 0
              ELSE UserDataOf(transactionsUserData, response.tid)]

(* The buffer is emptied of all it holds, up to `to`.                        *)
ClearReadBuffer(to) == bufStart' = to

(* _tcpClient->write(): sent at once, queued, or refused with an error code   *)
(* nobody reads.  The bytes are those of the request just filled in.         *)
Write ==
    \/ /\ tcp = "connected" /\ queued = 0
       /\ received' = Append(received, request')
       /\ written' = written + 1
       /\ UNCHANGED <<queued, refused>>
    \/ /\ tcp \in {"connecting", "connected", "failed"}
       /\ queued' = queued + 1
       /\ UNCHANGED <<written, received, refused>>
    \/ /\ tcp \notin {"connecting", "connected"}
       /\ refused' = TRUE
       /\ UNCHANGED <<queued, written, received>>

MayRequest(answered) ==
    /\ listening
    /\ request.number < MaxRequests
    /\ request.number < answered + MaxOutstanding

NextRequest == [number |-> request.number + 1, tid |-> NextTid(request.tid)]

-----------------------------------------------------------------------------
(* The caller.                                                               *)

(* connect(): nobody connects a client twice.                                *)
Connect ==
    /\ tcp = "idle" /\ listening
    /\ tcp' = "connecting"
    /\ UNCHANGED <<reading, listening, requests, sending, incoming, heard>>

ReadHoldingRegisters ==
    /\ MayRequest(Len(published))
    /\ request' = NextRequest
    /\ transactionsUserData' = Remember(transactionsUserData, request)
    /\ Write
    /\ UNCHANGED <<link, incoming, heard>>

(* Mutant of ResetListeners: disconnect() only closes the handle.            *)
KeepListeners == UNCHANGED listening

(* _tcpClient->reset(), in disconnect() and in the destructor.               *)
ResetListeners == listening' = FALSE

(* disconnect(), which is also all the destructor does.                      *)
Disconnect ==
    /\ listening /\ tcp # "dropped"
    /\ ResetListeners
    /\ tcp' = IF tcp = "closed" THEN "closed" ELSE "dropped"
    /\ reading' = FALSE
    /\ UNCHANGED <<requests, sending, incoming, heard>>

-----------------------------------------------------------------------------
(* The socket.  Every write libuv still holds sends what _request._buffer     *)
(* holds when it is sent.                                                    *)

ConnectEvent ==
    /\ tcp = "connecting"
    /\ tcp' = "connected"
    /\ Notify(<<"connect">>)
    /\ UNCHANGED <<reading, listening, requests, sending, incoming, published>>

(* A failed connect also fails the writes queued behind it.                  *)
ConnectError ==
    /\ tcp = "connecting"
    /\ tcp' = "failed"
    /\ Notify(Repeated("error", 1 + queued))
    /\ queued' = 0
    /\ UNCHANGED <<reading, listening, requests, written, received, refused,
                   incoming, published>>

Flush ==
    /\ tcp = "connected" /\ queued > 0
    /\ queued' = queued - 1
    /\ received' = Append(received, request)
    /\ written' = written + 1
    /\ UNCHANGED <<link, requests, refused, incoming, heard>>

WriteError ==
    /\ tcp \in {"connected", "failed"} /\ queued > 0
    /\ queued' = queued - 1
    /\ Notify(<<"error">>)
    /\ UNCHANGED <<link, requests, written, received, refused, incoming, published>>

(* Mutant of StartReading: the write listener does not call read().          *)
NeverRead == UNCHANGED reading

(* read(), which fails on a socket that is not connected.                    *)
StartReading == reading' = (reading \/ tcp = "connected")

(* The write listener empties the buffer and starts reading.                 *)
WriteEvent ==
    /\ written > 0
    /\ written' = written - 1
    /\ IF listening
       THEN /\ ClearReadBuffer(arrived)
            /\ StartReading
       ELSE UNCHANGED <<bufStart, reading>>
    /\ UNCHANGED <<tcp, listening, requests, queued, received, refused,
                   stream, arrived, heard>>

(* libuv runs the callbacks of completed writes before it polls again, and   *)
(* delivers nothing to a handle that is closing.                             *)
Readable == reading /\ written = 0

(* The data listener when fromBuffer finds no answer: it keeps the buffer.   *)
KeepCollecting ==
    UNCHANGED <<requests, sending, bufStart, published>>

(* The data listener when fromBuffer returns an answer: publish it, during   *)
(* which the caller may issue its next request; then erase the transaction   *)
(* and empty the buffer.                                                     *)
Deliver(response) ==
    /\ published' = Append(published, OutcomeOf(response))
    /\ \/ /\ transactionsUserData' = Erase(transactionsUserData, response.tid, request)
          /\ UNCHANGED <<request, sending>>
       \/ /\ MayRequest(Len(published) + 1)
          /\ request' = NextRequest
          /\ Write
          /\ transactionsUserData' =
                Erase(Remember(transactionsUserData, request), response.tid, NextRequest)
    /\ ClearReadBuffer(arrived')

(* One data_event: the next parts of the stream, as many as TCP delivers.     *)
DataEvent ==
    /\ Readable
    /\ \E n \in arrived + 1 .. FrameParts * Len(stream) :
        /\ arrived' = n
        /\ \E response \in FromBuffer(bufStart, n) :
            IF response = None THEN KeepCollecting ELSE Deliver(response)
    /\ UNCHANGED <<link, stream, notices>>

(* End of file: the listener closes the handle.                              *)
EndEvent ==
    /\ Readable /\ tcp = "connected"
    /\ tcp' = "closing" /\ reading' = FALSE
    /\ UNCHANGED <<listening, requests, sending, incoming, heard>>

ReadError ==
    /\ Readable /\ tcp = "connected"
    /\ tcp' = "failed" /\ reading' = FALSE
    /\ Notify(<<"error">>)
    /\ UNCHANGED <<listening, requests, sending, incoming, published>>

(* A closing handle first fails its queued writes, then reports the close.   *)
CloseEvent ==
    /\ tcp \in {"closing", "dropped"}
    /\ tcp' = "closed"
    /\ Notify(Repeated("error", queued) \o <<"close">>)
    /\ queued' = 0
    /\ UNCHANGED <<reading, listening, requests, written, received, refused,
                   incoming, published>>

-----------------------------------------------------------------------------
(* The device: answers each request it receives once, in any order.          *)

DeviceAnswer ==
    \E i \in DOMAIN received, kind \in Kinds :
        /\ stream' = Append(stream, [kind |-> kind, req |-> received[i].number,
                                     tid |-> received[i].tid])
        /\ received' = RemoveAt(received, i)
        /\ UNCHANGED <<link, requests, queued, written, refused,
                       arrived, bufStart, heard>>

Next ==
    \/ Connect \/ ReadHoldingRegisters \/ Disconnect
    \/ ConnectEvent \/ ConnectError \/ Flush \/ WriteError \/ WriteEvent
    \/ DataEvent \/ EndEvent \/ ReadError \/ CloseEvent
    \/ DeviceAnswer

Spec == Init /\ [][Next]_vars

(* The event loop runs what is ready, a connect attempt ends one way or the  *)
(* other, and the device answers.  Nothing obliges the caller to act, and    *)
(* nothing obliges the connection to fail.                                   *)
FairSpec ==
    /\ Spec
    /\ WF_vars(ConnectEvent \/ ConnectError)
    /\ WF_vars(Flush \/ WriteError)
    /\ WF_vars(WriteEvent)
    /\ WF_vars(DataEvent)
    /\ WF_vars(CloseEvent)
    /\ WF_vars(DeviceAnswer)

-----------------------------------------------------------------------------
(* Properties.                                                               *)

(* No bytes get lost between the socket and fromBuffer: what has left        *)
(* _readBuffer was published, one outcome for each answer.                   *)
BytesKept == bufStart = FrameParts * Len(published)

(* The i-th outcome answers the i-th request, and a response carries the     *)
(* userData of that very request, also when the caller issued the next one   *)
(* from within the callback and the transaction id has wrapped.              *)
OutcomeInOrder ==
    \A i \in 1 .. Len(published) :
        /\ published[i].req = i
        /\ published[i].user = IF published[i].kind = "exception" THEN 0 ELSE i

(* _transactionsUserData holds the outstanding request and nothing else: the *)
(* erase after the publish neither leaks an entry nor takes one too many.    *)
NoStaleTransaction ==
    DOMAIN transactionsUserData =
        IF request.number > Len(published) THEN {request.tid} ELSE {}

(* After disconnect() the caller hears nothing more: no outcome, no error    *)
(* and not even the close of the handle it dropped.                          *)
SilentAfterDisconnect ==
    [][tcp = "dropped" => UNCHANGED <<published, notices>>]_vars

(* A response made from an answer of the device never carries the userData   *)
(* of another request, however many are outstanding.                         *)
NeverForeignUserData ==
    \A i \in 1 .. Len(published) :
        published[i].req # 0 => published[i].user \in {0, published[i].req}

(* Every request gets its outcome, unless the caller is told of an error or  *)
(* of the close, disconnects, never connects, or issued the request to a     *)
(* socket that refused it.                                                   *)
ToldOtherwise ==
    \/ \E i \in DOMAIN notices : notices[i] \in {"error", "close"}
    \/ ~listening \/ refused

Answered ==
    \A r \in 1 .. MaxRequests :
        request.number >= r ~> Len(published) >= r \/ ToldOtherwise

(* A caller that keeps one request outstanding sees RequestReply.            *)
Promise == INSTANCE RequestReply
             WITH asked <- request.number, heard <- published, open <- listening
Promised == Promise!RRSpec
=============================================================================
