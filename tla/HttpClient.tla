----------------------------- MODULE HttpClient ------------------------------
(***************************************************************************)
(* http::HttpClient and the HttpSession it makes for each get(): the name    *)
(* of the host is resolved once, from the constructor; a session connects,    *)
(* writes its request and parses what the server sends until the response    *)
(* is complete; the next get() destroys the session before it.               *)
(*                                                                           *)
(* Session i is that of the i-th get().  A response arrives in any number of  *)
(* data_events, or is ended by the server closing the connection, which      *)
(* HttpSession has no listener for.                                          *)
(***************************************************************************)
EXTENDS HttpResponseParser

CONSTANTS
    MaxGets,        \* bound: get() calls in a behaviour
    Responses,      \* what a server may send, see HttpResponseParser
    Ends            \* bound: a data_event ends behind a unit in Ends, or the last

ASSUME GetsAssumption == MaxGets \in Nat \ {0}
ASSUME EndsAssumption == Ends \subseteq Nat \ {0}
ASSUME ResponsesAssumption == \A response \in Responses : IsResponse(response)

VARIABLES
    addr,        \* HttpClientPrivate::addr, and what the resolver does
    pending,     \* _isRequestPending
    gets,        \* number of get() calls; the current session, 0: none
    forget,      \* the gets that were called with isFireAndForget
    addrless,    \* those called without an address: too early, or unresolved
    nested,      \* those called from the response listener
    phase,       \* of each session: what its _tcp does
    listening,   \* of each session: the listeners on its _tcp are set
    parser,      \* _parser of the current session
    sending,     \* the response of its server
    cut,         \* history: a data_event ended inside of a header
    published,   \* events published, each with the get() it is about
    response     \* what the last response listener was given, until get()

made == <<gets, forget, addrless, nested>>
client == <<addr, pending, made>>
sessions == <<phase, listening>>
message == <<parser, sending, cut>>
vars == <<client, sessions, message, published, response>>

NoResponse == [statusCode |-> 0, headers |-> <<>>, body |-> <<>>, cut |-> FALSE, again |-> FALSE]

Sessions == 1 .. MaxGets
(* "refused": a call on the handle failed at once, which its caller ignores.  *)
Phases == {"none", "idle", "connecting", "connected", "writing", "reading",
           "refused", "ended", "failed", "closed"}

TypeOK ==
    /\ addr \in {"resolving", "known", "failed"}
    /\ pending \in BOOLEAN
    /\ gets \in 0 .. MaxGets
    /\ forget \subseteq Sessions /\ addrless \subseteq Sessions /\ nested \subseteq Sessions
    /\ phase \in [Sessions -> Phases]
    /\ listening \in [Sessions -> BOOLEAN]
    /\ sending \in Responses
    /\ parser.at \in 0 .. sending.units /\ parser.statusCode \in {0, sending.code}
    /\ parser.isComplete \in BOOLEAN /\ parser.failed \in BOOLEAN /\ cut \in BOOLEAN
    /\ published \in Seq([kind : {"response", "error", "timeout"}, get : 0 .. MaxGets])

Init ==
    /\ addr = "resolving" /\ pending = FALSE /\ gets = 0
    /\ forget = {} /\ addrless = {} /\ nested = {}
    /\ phase = [s \in Sessions |-> "none"]
    /\ listening = [s \in Sessions |-> FALSE]
    /\ parser = NewParser /\ sending \in Responses /\ cut = FALSE
    /\ published = <<>> /\ response = NoResponse

Event(kind, get) == <<[kind |-> kind, get |-> get]>>

-----------------------------------------------------------------------------
(* The resolver.                                                             *)

AddrInfo ==
    /\ addr = "resolving"
    /\ addr' = "known"
    /\ UNCHANGED <<pending, made, sessions, message, published, response>>

ResolverError ==
    /\ addr = "resolving"
    /\ addr' = "failed"
    /\ published' = published \o Event("error", 0)
    /\ UNCHANGED <<pending, made, sessions, message, response>>

-----------------------------------------------------------------------------
(* get().                                                                    *)

(* Mutant of Destroyed: the destructor leaves listeners and handle alone.    *)
NotDestroyed(s) == [phase |-> phase[s], listening |-> listening[s]]

(* ~HttpSession(): the listeners are reset and the handle closes.            *)
Destroyed(s) == [phase |-> "closed", listening |-> FALSE]

(* Mutant of Timeout: nobody is told that a request is given up.             *)
NoTimeout == <<>>

(* What get() publishes of a request that is still pending.                  *)
Timeout == IF pending THEN Event("timeout", gets) ELSE <<>>

(* Mutant of PendingAfter: isFireAndForget is not looked at.                 *)
AlwaysPending(fireAndForget) == TRUE

PendingAfter(fireAndForget) == ~fireAndForget

(* What a session is in after connect(): it connects, or was refused at once, *)
(* which get() ignores.  Without an address there is no call.                *)
AfterConnect == IF addr = "known" THEN {"connecting", "refused"} ELSE {"idle"}

(* A session for the next get(), in the place of the current one.            *)
Get(fireAndForget) ==
    LET s == gets + 1
    IN  /\ gets < MaxGets
        /\ gets' = s
        /\ forget' = IF fireAndForget THEN forget \cup {s} ELSE forget
        /\ addrless' = IF addr # "known" THEN addrless \cup {s} ELSE addrless
        /\ \E first \in AfterConnect :
              phase' = [t \in Sessions |->
                           IF t = s THEN first
                           ELSE IF t = gets THEN Destroyed(t).phase ELSE phase[t]]
        /\ listening' = [t \in Sessions |->
                            IF t = s THEN TRUE
                            ELSE IF t = gets THEN Destroyed(t).listening ELSE listening[t]]
        /\ parser' = NewParser /\ cut' = FALSE

UserGet ==
    /\ \E fireAndForget \in BOOLEAN :
          /\ Get(fireAndForget)
          /\ pending' = PendingAfter(fireAndForget)
    /\ published' = published \o Timeout
    /\ response' = NoResponse
    /\ UNCHANGED <<addr, nested, sending>>

-----------------------------------------------------------------------------
(* A session.  Its events reach it in this order, if they reach it.          *)

Move(s, from, to) == phase[s] = from /\ phase' = [phase EXCEPT ![s] = to]

(* The session's own call in a listener: it is accepted, or refused at once, *)
(* which the listener ignores; without listeners there is no call.           *)
AfterCall(s, accepted) == IF listening[s] THEN {accepted, "refused"} ELSE {"connected"}

ConnectEvent(s) ==
    /\ \E to \in AfterCall(s, "writing") : Move(s, "connecting", to)
    /\ UNCHANGED <<client, listening, message, published, response>>

(* Mutant of ReadAfterWrite: nothing is read.                                *)
NeverRead(s) == {"connected"}

ReadAfterWrite(s) == AfterCall(s, "reading")

WriteEvent(s) ==
    /\ \E to \in ReadAfterWrite(s) : Move(s, "writing", to)
    /\ UNCHANGED <<client, listening, message, published, response>>

(* connect(), write() or read() failed later.  The request stays pending.    *)
ErrorEvent(s) ==
    /\ \E from \in {"connecting", "writing", "reading"} : Move(s, from, "failed")
    /\ published' = IF listening[s] THEN published \o Event("error", s) ELSE published
    /\ UNCHANGED <<client, listening, message, response>>

(* Mutant of Answered: the flag is left set.                                 *)
StillPending == UNCHANGED pending

Answered == pending' = FALSE

DataEnds == (Ends \cap 1 .. sending.units) \cup {sending.units}

(* A data_event: the parser of the current session, the only one with        *)
(* listeners, is given the units up to `to`.                                 *)
DataEvent(s, to) ==
    /\ phase[s] = "reading" /\ listening[s]
    /\ ~parser.failed /\ to > parser.at

CutBy(to) == cut \/ CutsHeader(sending, to)

(* Publish what the parser gives out.                                        *)
Publish(s, parsed, isCut, again) ==
    /\ published' = published \o Event("response", s)
    /\ response' = [statusCode |-> parsed.statusCode, headers |-> parsed.headers,
                    body |-> parsed.body, cut |-> isCut, again |-> again]

(* Data that does not complete the response.                                 *)
PartialData(s) ==
    /\ \E to \in DataEnds :
          /\ DataEvent(s, to) /\ ~parser.isComplete
          /\ parser' = Execute(parser, sending, to) /\ cut' = CutBy(to)
    /\ ~GivesOut(parser')
    /\ UNCHANGED <<client, sessions, sending, published, response>>

(* Data that is no HTTP: llhttp takes no more.                               *)
RejectedData(s) ==
    /\ phase[s] = "reading" /\ listening[s] /\ ~parser.failed
    /\ parser' = [parser EXCEPT !.failed = TRUE]
    /\ UNCHANGED <<client, sessions, sending, cut, published, response>>

(* Publish, then clear the flag.                                             *)
Response(s) ==
    /\ \E to \in DataEnds :
          /\ DataEvent(s, to) /\ ~parser.isComplete
          /\ parser' = Execute(parser, sending, to) /\ cut' = CutBy(to)
    /\ GivesOut(parser')
    /\ Publish(s, parser', cut', FALSE)
    /\ Answered
    /\ UNCHANGED <<addr, made, sessions, sending>>

(* A listener that calls get(): the flag is still set, and the session whose *)
(* listener runs is destroyed, so that the flag it then clears is that of    *)
(* the new request, or is not reached any more: its memory was released.     *)
ResponseAndGet(s) ==
    /\ DataEvent(s, sending.units) /\ ~parser.isComplete
    /\ \E parsed \in {Execute(parser, sending, sending.units)} :
          /\ GivesOut(parsed)
          /\ response' = [statusCode |-> parsed.statusCode, headers |-> parsed.headers,
                          body |-> parsed.body, cut |-> cut, again |-> FALSE]
    /\ \E fireAndForget \in BOOLEAN :
          /\ Get(fireAndForget)
          /\ pending' \in {FALSE, PendingAfter(fireAndForget)}
    /\ nested' = nested \cup {gets'}
    /\ published' = published \o Event("response", s) \o Timeout
    /\ UNCHANGED <<addr, sending>>

(* Data behind the response is the head of another.  The parser still has    *)
(* its message, adds to it and gives it out again.                           *)
TrailingData(s) ==
    /\ phase[s] = "reading" /\ listening[s] /\ GivesOut(parser)
    /\ \E to \in DataEnds :
          parser' = Execute([parser EXCEPT !.at = 0], sending, to)
    /\ phase' = [phase EXCEPT ![s] = "ended"]     \* bound: once
    /\ Publish(s, parser', cut, TRUE)
    /\ Answered
    /\ UNCHANGED <<addr, made, listening, sending, cut>>

(* End of file: no listener, no parser call, no event.                       *)
EndEvent(s) ==
    /\ Move(s, "reading", "ended")
    /\ UNCHANGED <<client, listening, message, published, response>>

Next ==
    \/ AddrInfo \/ ResolverError \/ UserGet
    \/ \E s \in Sessions :
          \/ ConnectEvent(s) \/ WriteEvent(s) \/ ErrorEvent(s)
          \/ PartialData(s) \/ RejectedData(s) \/ Response(s) \/ ResponseAndGet(s)
          \/ TrailingData(s) \/ EndEvent(s)

(* Names get resolved or not, connections are made or fail, and a server     *)
(* goes on sending, ends the connection or loses it.                         *)
Spec ==
    /\ Init /\ [][Next]_vars
    /\ WF_vars(AddrInfo \/ ResolverError)
    /\ \A s \in Sessions :
          /\ WF_vars(ConnectEvent(s) \/ ErrorEvent(s))
          /\ WF_vars(WriteEvent(s) \/ ErrorEvent(s))
          /\ WF_vars(PartialData(s) \/ Response(s) \/ ResponseAndGet(s)
                     \/ ErrorEvent(s) \/ EndEvent(s))

-----------------------------------------------------------------------------
(* Properties.                                                               *)

Heard(kind, get) == \E i \in 1 .. Len(published) :
                        published[i] = [kind |-> kind, get |-> get]

(* _isRequestPending says whether the current request is one whose response  *)
(* is awaited: not sent and forgotten, not answered.  A get() from the       *)
(* response listener may lose its flag.                                      *)
PendingIsUnanswered ==
    gets \in nested \/ (pending <=> gets > 0 /\ gets \notin forget /\ ~Heard("response", gets))

(* A timeout is published only of a request that was given up unanswered, or *)
(* by a get() from the response listener.                                    *)
TimeoutsAreTrue ==
    \A i \in 1 .. Len(published) : published[i].kind = "timeout" =>
        \/ published[i].get + 1 \in nested
        \/ ~Heard("response", published[i].get)

(* The same of every get(), as the tests have it.                            *)
TimeoutsAlwaysTrue ==
    \A i \in 1 .. Len(published) : published[i].kind = "timeout" =>
        ~Heard("response", published[i].get)

(* What is published is about the current get(): a session that was replaced *)
(* says nothing more, whatever arrives for it.                               *)
OnlyCurrentSpeaks ==
    [][\A i \in Len(published) + 1 .. Len(published') :
          published'[i].get \in {0, gets}]_vars

(* A request that is given up for a new one, and was not to be forgotten,    *)
(* has been answered or is reported as a timeout.                            *)
GivenUpIsTold ==
    \A g \in 1 .. gets - 1 :
        g \in forget \cup nested \/ Heard("response", g) \/ Heard("timeout", g)

(* A response has the code, if there is a reason phrase, the body and all    *)
(* names of headers that the server sent, however it was cut into             *)
(* data_events; and its headers as they were sent, unless one was cut: then   *)
(* the rest of a name is the name of another header, and the rest of a value, *)
(* or nothing, its value.  Data behind the response is added to it.          *)
ResponseIsWhole ==
    response # NoResponse /\ ~response.again =>
        /\ response.statusCode = CodeOf(sending)
        /\ IsWhole(<<response.body>>, Places(sending, "body"))
        /\ IsWhole(NamesOf(response.headers), Places(sending, "name"))
        /\ ~response.cut => Range(response.headers) = HeadersOf(sending)

(* A get() is settled by a response or an error of its own, or by a newer    *)
(* get().                                                                    *)
Settled(g) == gets > g \/ Heard("response", g) \/ Heard("error", g)

(* What the code says nothing about: the server ends the connection, or a    *)
(* call on the handle is refused at once.                                    *)
Silent(g) == phase[g] \in {"ended", "refused"}

(* A get() leads to a response, an error or a newer get(), unless there was  *)
(* no address to send it to, or its session falls silent.                    *)
GetIsSettled == \A g \in Sessions : gets = g /\ g \notin addrless ~> Settled(g) \/ Silent(g)

(* The same of a get() that was called too early, as the example of the      *)
(* README needs it, if the name is resolved.                                 *)
EveryGetIsSettled ==
    \A g \in Sessions :
        gets = g /\ addr # "failed" ~> Settled(g) \/ Silent(g) \/ addr = "failed"
=============================================================================
