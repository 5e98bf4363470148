----------------------------- MODULE DnsMessage ------------------------------
(***************************************************************************)
(* dns_sd::DnsMessage, DnsParser and DnsRecordDataSrv: a DNS message to and  *)
(* from the octets of a datagram.                                            *)
(*                                                                           *)
(* A std::string name is the sequence of its labels between the dots, as     *)
(* split() gives them, each the sequence of its octets: "a.b" is <<a, b>>,   *)
(* "a.b." is <<a, b, Empty>>, "" is <<Empty>>.  Of a record are kept its      *)
(* owner and its data; of the flags only QR.  Offsets count from 0.          *)
(***************************************************************************)
EXTENDS Integers, Sequences, SequencesExt

Empty == <<>>
TypeA == 1
TypePTR == 12
TypeTXT == 16
TypeSRV == 33
NameTypes == {2, 5, TypePTR}       \* NS, CNAME and PTR hold a name
HeaderSize == 12

(* What a parse gives that found nothing.                                    *)
Nothing == [size |-> 0]

(* No datagram of a host makes the code read behind its end.                 *)
Octet(b, at) == IF at < Len(b) THEN b[at + 1] ELSE 0
Octets(b, at, size) == SubSeq(b, at + 1, at + size)
U16(b, at) == 256 * Octet(b, at) + Octet(b, at + 1)
ToU16(v) == <<v \div 256, v % 256>>

-----------------------------------------------------------------------------
(* Names.                                                                    *)

IsPointer(octet) == octet >= 64
Target(b, at) == U16(b, at) % 16384

Label(b, at) == Octets(b, at + 1, Octet(b, at))

(* parseLabels() for every offset: how many octets the name takes there, and *)
(* its labels.  A pointer ends a name; so does the end of the buffer, which  *)
(* the checks of the fields behind the name then notice.                     *)
Labels(b, tail) ==
    LET from[at \in 0 .. tail + 1] ==
        IF at >= tail THEN [size |-> 1, labels |-> <<>>]
        ELSE IF Octet(b, at) = 0 THEN [size |-> 1, labels |-> <<>>]
        ELSE IF IsPointer(Octet(b, at))
        THEN IF Target(b, at) >= tail THEN Nothing
             ELSE LET pointed == from[Target(b, at)]
                  IN  IF pointed.size = 0 THEN Nothing
                      ELSE [size |-> 2, labels |-> pointed.labels]
        ELSE IF at + Octet(b, at) > tail THEN Nothing
        ELSE LET rest == from[at + Octet(b, at) + 1]
             IN  IF rest.size = 0 THEN Nothing
                 ELSE [size |-> Octet(b, at) + 1 + rest.size,
                       labels |-> <<Label(b, at)>> \o rest.labels]
    IN  from

(* parseName(): the labels, each followed by a dot.                          *)
ParseName(b, at, tail) ==
    LET name == IF at >= tail THEN Nothing ELSE Labels(b, tail)[at]
    IN  IF name.size = 0 THEN Nothing
        ELSE [size |-> name.size, name |-> Append(name.labels, Empty)]

-----------------------------------------------------------------------------
(* fromBuffer().                                                             *)

(* parseQuestion().                                                          *)
QuestionAt(b, at, name) ==
    IF name.size = 0 THEN Nothing
    ELSE IF at + name.size + 4 > Len(b) THEN Nothing
    ELSE [size |-> name.size + 4,
          value |-> [name |-> name.name, type |-> U16(b, at + name.size)]]

ParseQuestion(b, at) ==
    IF at + 6 > Len(b) THEN Nothing ELSE QuestionAt(b, at, ParseName(b, at, Len(b)))

(* Record data: its kind, the name in it, and its other octets.              *)
Data(kind, name, octets) ==
    [size |-> 1, data |-> [kind |-> kind, name |-> name, octets |-> octets]]

NameData(b, at, size) ==
    LET name == ParseName(b, at, Len(b))
    IN  IF name.size # size THEN Nothing ELSE Data("PTR", name.name, <<>>)

(* A text of one octet, the empty text, is refused.                          *)
TxtData(b, at, size) ==
    IF size <= 1 THEN Nothing ELSE Data("TXT", <<Empty>>, Octets(b, at + 1, size - 1))

(* A target that cannot be parsed is left empty.                             *)
SrvData(b, at, size) ==
    LET target == ParseName(b, at + 6, at + size)
    IN  IF size < 8 THEN Nothing
        ELSE Data("SRV", IF target.size = 0 THEN <<Empty>> ELSE target.name,
                  Octets(b, at, 6))

ReadDnsRecordData(b, type, at, size) ==
    CASE type = TypeA -> IF size # 4 THEN Nothing
                         ELSE Data("A", <<Empty>>, Octets(b, at, 4))
      [] type \in NameTypes -> NameData(b, at, size)
      [] type = TypeTXT -> TxtData(b, at, size)
      [] type = TypeSRV -> SrvData(b, at, size)
      [] OTHER -> Data("octets", <<Empty>>, Octets(b, at, size))

(* Mutant of RecordSize: the size of the data is not added.                  *)
RecordSizeWithoutData(name, dataSize) == name.size + 10

(* parseAnswer().                                                            *)
RecordSize(name, dataSize) == name.size + 10 + dataSize

Answer(name, dataSize, data) ==
    IF data.size = 0 THEN Nothing
    ELSE [size |-> RecordSize(name, dataSize),
          value |-> [name |-> name.name, data |-> data.data]]

(* Behind the owner: type, class, time to live, and size of the data.        *)
AnswerAt(b, at, name) ==
    LET fields == at + name.size
        dataSize == U16(b, fields + 8)
    IN  IF name.size = 0 THEN Nothing
        ELSE IF fields + 10 > Len(b) THEN Nothing
        ELSE IF fields + 10 + dataSize > Len(b) THEN Nothing
        ELSE Answer(name, dataSize,
                    ReadDnsRecordData(b, U16(b, fields), fields + 10, dataSize))

ParseAnswer(b, at) ==
    IF at + 6 > Len(b) THEN Nothing ELSE AnswerAt(b, at, ParseName(b, at, Len(b)))

-----------------------------------------------------------------------------
(* The message.  A parse that got as far as `at` holds the four sections so  *)
(* far; one value that cannot be parsed ends it.                             *)

Parse(section, b, at) ==
    IF section = "questions" THEN ParseQuestion(b, at) ELSE ParseAnswer(b, at)

Extended(parse, section, next) ==
    IF next.size = 0 THEN Nothing
    ELSE [parse EXCEPT !.at = @ + next.size,
                       !.message[section] = Append(@, next.value)]

(* The counts of the header; the records of a query are not read.            *)
SectionAt == [questions |-> 4, answers |-> 6, authority |-> 8, additional |-> 10]
CountOf(b, section) ==
    IF section # "questions" /\ U16(b, 2) < 32768 THEN 0 ELSE U16(b, SectionAt[section])

ParseSection(b, parse, section) ==
    LET after[i \in 0 .. CountOf(b, section)] ==
        IF i = 0 THEN parse
        ELSE IF after[i - 1].size = 0 THEN Nothing
        ELSE Extended(after[i - 1], section, Parse(section, b, after[i - 1].at))
    IN  after[CountOf(b, section)]

FromBuffer(b) ==
    LET start == [size |-> 1, at |-> HeaderSize,
                  message |-> [isResponse |-> U16(b, 2) >= 32768, questions |-> <<>>,
                               answers |-> <<>>, authority |-> <<>>, additional |-> <<>>]]
    IN  IF Len(b) < HeaderSize THEN Nothing
        ELSE LET questions == ParseSection(b, start, "questions")
                 answers == ParseSection(b, questions, "answers")
                 authority == ParseSection(b, answers, "authority")
             IN  ParseSection(b, authority, "additional")

-----------------------------------------------------------------------------
(* toBuffer(): the header, with the counts of all sections, and the          *)
(* questions; the sections themselves are not written.                       *)

ToName(name) == FlattenSeq([i \in DOMAIN name |-> <<Len(name[i])>> \o name[i]])

(* Mutant of Terminator: no octet behind the last label.                     *)
NoTerminator == <<>>
Terminator == <<0>>

(* A question is written at the offset behind the name of the one before it: *)
(* `offset` does not count type and class.                                   *)
AddQuestion(written, question) ==
    LET name == ToName(question.name) \o Terminator
    IN  [offset |-> written.offset + Len(name),
         octets |-> SubSeq(written.octets, 1, written.offset)
                        \o name \o ToU16(question.type) \o ToU16(1)]

Header(message) ==
    ToU16(0) \o ToU16(IF message.isResponse THEN 32768 ELSE 0)
        \o ToU16(Len(message.questions)) \o ToU16(Len(message.answers))
        \o ToU16(Len(message.authority)) \o ToU16(Len(message.additional))

ToBuffer(message) ==
    LET questions == message.questions
        written[i \in 0 .. Len(questions)] ==
            IF i = 0 THEN [offset |-> HeaderSize, octets |-> Header(message)]
            ELSE AddQuestion(written[i - 1], questions[i])
    IN  written[Len(questions)].octets
=============================================================================
