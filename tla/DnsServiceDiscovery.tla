------------------------- MODULE DnsServiceDiscovery -------------------------
(***************************************************************************)
(* dns_sd::DnsServiceDiscovery: discover() multicasts one question; every    *)
(* datagram of the group, its own and other hosts', is parsed, and a         *)
(* response about the service is published.  The listener keeps no state.    *)
(***************************************************************************)
EXTENDS MdnsResponder

CONSTANTS
    Name,          \* the service, as the user gives it
    Messages,      \* what the other hosts send
    MaxQueries,    \* bound: discover() calls
    MaxDatagrams   \* bound: messages of the other hosts

(* The constructor adds a trailing dot if it is missing.                     *)
WithDot(text) == IF Last(text) = Empty THEN text ELSE Append(text, Empty)

ASSUME NameAssumption == Name # <<>> /\ IsName(WithDot(Name)) /\ ~IsRoot(WithDot(Name))
ASSUME MessagesAssumption == \A message \in Messages : IsMessage(message)
ASSUME BoundsAssumption == MaxQueries \in Nat /\ MaxDatagrams \in Nat

VARIABLES
    name,        \* _name
    queries,     \* discover() calls so far
    sent,        \* messages of the other hosts so far
    group,       \* datagrams under way to this host, with the message in each
    published    \* the MdnsResponses published

vars == <<name, queries, sent, group, published>>

None == [kind |-> "none"]

TypeOK ==
    /\ Last(name) = Empty
    /\ queries \in 0 .. MaxQueries /\ sent \in 0 .. MaxDatagrams
    /\ \A datagram \in group : datagram.octets \in Seq(0 .. 255)
    /\ \A i \in DOMAIN published : published[i].ptr.kind = "PTR"

Init ==
    /\ name = WithDot(Name)
    /\ queries = 0 /\ sent = 0 /\ group = {} /\ published = <<>>

-----------------------------------------------------------------------------
(* discover().                                                               *)

(* The question is asked without the trailing dot, which toBuffer() would    *)
(* write as an empty label.                                                  *)
Query == [isResponse |-> FALSE, questions |-> <<[name |-> Front(name), type |-> TypePTR]>>,
          answers |-> <<>>, authority |-> <<>>, additional |-> <<>>]

Discover ==
    /\ queries < MaxQueries
    /\ queries' = queries + 1
    /\ group' = group \cup {[octets |-> ToBuffer(Query), from |-> "self",
                             message |-> [Query EXCEPT !.questions =
                                 <<[name |-> name, type |-> TypePTR]>>]]}
    /\ UNCHANGED <<name, sent, published>>

-----------------------------------------------------------------------------
(* The udp_data_event listener.                                              *)

(* Mutant of Concerns: records of other services are taken as well.          *)
ConcernsAny(record) == TRUE

(* ends_with() compares text: the service name need not start at a label of  *)
(* the owner.                                                                *)
Text(dotted) == FlattenSeq([i \in DOMAIN dotted |->
                    IF i = 1 THEN dotted[i] ELSE <<46>> \o dotted[i]])
Concerns(record) == IsSuffix(Text(name), Text(record.name))

(* Mutant of RecordsOf: only the answers are looked at.                      *)
AnswersOf(message) == message.answers

RecordsOf(message) == message.answers \o message.authority \o message.additional

(* The last record of a kind overwrites those before it.                     *)
Latest(message, kind) ==
    LET records == RecordsOf(message)
        ofKind == {i \in DOMAIN records : Concerns(records[i]) /\ records[i].data.kind = kind}
    IN  IF ofKind = {} THEN None ELSE records[Max(ofKind)].data

Ignored(parsed) ==
    \/ parsed.size = 0
    \/ ~parsed.message.isResponse
    \/ parsed.message.answers = <<>>

(* Mutant of Responses: the pointer is taken for granted.                    *)
ResponsesWithoutPtr(parsed) ==
    IF Ignored(parsed) THEN <<>>
    ELSE <<[ptr |-> Latest(parsed.message, "PTR"), a |-> Latest(parsed.message, "A"),
            srv |-> Latest(parsed.message, "SRV"), txt |-> Latest(parsed.message, "TXT")]>>

Responses(parsed) ==
    IF Ignored(parsed) THEN <<>>
    ELSE IF Latest(parsed.message, "PTR") = None THEN <<>>
    ELSE <<[ptr |-> Latest(parsed.message, "PTR"), a |-> Latest(parsed.message, "A"),
            srv |-> Latest(parsed.message, "SRV"), txt |-> Latest(parsed.message, "TXT")]>>

DataEvent(datagram) ==
    /\ datagram \in group
    /\ published' = published \o Responses(FromBuffer(datagram.octets))
    /\ group' = group \ {datagram}
    /\ UNCHANGED <<name, queries, sent>>

-----------------------------------------------------------------------------
(* The other hosts, and the network.                                         *)

Multicast(message, compress) ==
    /\ sent < MaxDatagrams
    /\ sent' = sent + 1
    /\ group' = group \cup {[octets |-> Encode(message, compress), from |-> "other",
                             message |-> message]}
    /\ UNCHANGED <<name, queries, published>>

Lose(datagram) ==
    /\ datagram \in group
    /\ group' = group \ {datagram}
    /\ UNCHANGED <<name, queries, sent, published>>

Next ==
    \/ Discover
    \/ \E message \in Messages, compress \in BOOLEAN : Multicast(message, compress)
    \/ \E datagram \in group : DataEvent(datagram) \/ Lose(datagram)

Spec == Init /\ [][Next]_vars

-----------------------------------------------------------------------------
(* Properties.                                                               *)

AllRecords(message) == ToSet(message.answers \o message.authority \o message.additional)

(* An empty text is written as one zero octet, and makes the code reject all *)
(* of the message it is in.                                                  *)
HasEmptyText(message) ==
    message.isResponse /\ \E record \in AllRecords(message) :
        record.data.kind = "TXT" /\ record.data.octets = <<>>

(* A query is read without the records it carries (known answers).           *)
Read(message) ==
    IF message.isResponse THEN message
    ELSE [message EXCEPT !.answers = <<>>, !.authority = <<>>, !.additional = <<>>]

(* Every message of the group, compressed or not, is read as what it says,   *)
(* and what discover() sends is read as the question for the service.        *)
Understood ==
    \A datagram \in group :
        LET parsed == FromBuffer(datagram.octets)
        IN  IF HasEmptyText(datagram.message) THEN parsed = Nothing
            ELSE /\ parsed.size # 0
                 /\ parsed.message = Read(datagram.message)
                 /\ parsed.at = Len(datagram.octets) \/ ~datagram.message.isResponse

(* The datagram of discover() is the one any host would write.               *)
QueryIsStandard ==
    \A datagram \in group :
        datagram.from = "self" => datagram.octets = Encode(datagram.message, FALSE)

(* No host owns a name that ends with the service's text within a label:     *)
(* x_svc._tcp.local for _svc._tcp.local, which ends_with() cannot tell apart. *)
OwnersApart ==
    \A message \in Messages : \A record \in AllRecords(message) :
        IsSuffix(Text(WithDot(Name)), Text(record.name)) => IsSuffix(WithDot(Name), record.name)

(* A pointer of the service leads to a name in the service: one label, or     *)
(* more, in front of the service's.                                          *)
InstancesNamed ==
    \A message \in Messages : \A record \in AllRecords(message) :
        record.data.kind = "PTR" /\ IsSuffix(WithDot(Name), record.name) =>
            IsSuffix(WithDot(Name), record.data.name)

(* What is published comes from a response with an answer, and from records  *)
(* of the service: nothing of another service in the same message.           *)
InService(record) == IsSuffix(name, record.name)
From(data, message) ==
    data = None \/ \E record \in AllRecords(message) : InService(record) /\ record.data = data
PublishedIsTrue ==
    [][\A datagram \in group : DataEvent(datagram) /\ published' # published =>
          LET response == Last(published') IN
          /\ datagram.message.isResponse
          /\ \A data \in {response.ptr, response.a, response.srv, response.txt} :
                From(data, datagram.message)]_vars

(* A message about one instance of the service, with its pointer, its        *)
(* server and its text, is published whole, wherever its records are.        *)
Instances(message) ==
    {record.data.name : record \in {r \in AllRecords(message) :
        InService(r) /\ r.data.kind = "PTR"}}
OfInstance(message, kind) ==
    {record.data : record \in {r \in AllRecords(message) :
        r.name \in Instances(message) /\ r.data.kind = kind}}
OneInstance(message) ==
    /\ message.isResponse /\ message.answers # <<>> /\ ~HasEmptyText(message)
    /\ Cardinality(Instances(message)) = 1
    /\ \A record \in AllRecords(message) : InService(record) /\ record.data.kind # "PTR" =>
          record.name \in Instances(message)
    /\ \A kind \in {"SRV", "TXT"} : Cardinality(OfInstance(message, kind)) <= 1
OneInstanceIsWhole ==
    [][\A datagram \in group : DataEvent(datagram) /\ OneInstance(datagram.message) =>
          LET response == Last(published')
              message == datagram.message IN
          /\ Len(published') = Len(published) + 1
          /\ response.ptr.name \in Instances(message)
          /\ response.srv \in OfInstance(message, "SRV") \/ OfInstance(message, "SRV") = {}
          /\ response.txt \in OfInstance(message, "TXT") \/ OfInstance(message, "TXT") = {}
      ]_vars
=============================================================================
