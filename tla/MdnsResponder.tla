---------------------------- MODULE MdnsResponder ----------------------------
(***************************************************************************)
(* The other hosts of the multicast group: how they write a message that     *)
(* DnsMessage reads, with names in full or compressed by pointers to where a *)
(* name or the rest of one was written before (RFC 1035, 4.1.4).             *)
(***************************************************************************)
EXTENDS DnsMessage

(* octets written so far; places of the names among them, by their labels    *)
Start(header) == [octets |-> header, places |-> <<>>]

Write(writer, octets) == [writer EXCEPT !.octets = @ \o octets]

(* A name: labels until the rest of it has a place that 14 bits can hold,    *)
(* then that place.                                                          *)
WriteName(writer, dotted, compress) ==
    LET name == Front(dotted)
        Rest(i) == SubSeq(name, i, Len(name))
        known == {i \in DOMAIN name :
                    Rest(i) \in DOMAIN writer.places /\ writer.places[Rest(i)] < 16384}
        full == IF known = {} THEN Len(name) ELSE Min(known) - 1
        labels == SubSeq(name, 1, full)
        PlaceOf(i) == Len(writer.octets) + Len(ToName(SubSeq(name, 1, i - 1)))
        end == IF known = {} THEN <<0>> ELSE ToU16(49152 + writer.places[Rest(full + 1)])
        new == {Rest(i) : i \in 1 .. full}
    IN  [octets |-> writer.octets \o ToName(labels) \o end,
         places |-> IF compress
                    THEN [rest \in DOMAIN writer.places \cup new |->
                            IF rest \in DOMAIN writer.places THEN writer.places[rest]
                            ELSE PlaceOf(Len(name) - Len(rest) + 1)]
                    ELSE <<>>]

TypeOf(kind) == CASE kind = "A" -> TypeA [] kind = "PTR" -> TypePTR
                  [] kind = "TXT" -> TypeTXT [] kind = "SRV" -> TypeSRV
                  [] kind = "octets" -> 47        \* NSEC, as an example

(* The data of a record; the size field before it is filled in afterwards.   *)
WriteData(writer, data, compress) ==
    CASE data.kind = "PTR" -> WriteName(writer, data.name, compress)
      [] data.kind = "SRV" -> WriteName(Write(writer, data.octets), data.name, compress)
      [] data.kind = "TXT" -> Write(writer, <<Len(data.octets)>> \o data.octets)
      [] OTHER -> Write(writer, data.octets)

(* The octets, with the size of the data that begins behind `start` of them.  *)
Filled(octets, start) ==
    SubSeq(octets, 1, start - 2) \o ToU16(Len(octets) - start)
        \o SubSeq(octets, start + 1, Len(octets))

WriteRecord(writer, record, compress) ==
    LET owner == WriteName(writer, record.name, compress)
        fields == Write(owner, ToU16(TypeOf(record.data.kind)) \o ToU16(1) \o ToU16(0)
                                  \o ToU16(120) \o ToU16(0))
        written == WriteData(fields, record.data, compress)
    IN  [written EXCEPT !.octets = Filled(@, Len(fields.octets))]

WriteQuestion(writer, question, compress) ==
    Write(WriteName(writer, question.name, compress), ToU16(question.type) \o ToU16(1))

WriteQuestions(writer, questions, compress) ==
    LET written[i \in 0 .. Len(questions)] ==
            IF i = 0 THEN writer ELSE WriteQuestion(written[i - 1], questions[i], compress)
    IN  written[Len(questions)]

WriteRecords(writer, records, compress) ==
    LET written[i \in 0 .. Len(records)] ==
            IF i = 0 THEN writer ELSE WriteRecord(written[i - 1], records[i], compress)
    IN  written[Len(records)]

(* The datagram of a message.                                                *)
Encode(message, compress) ==
    LET asked == WriteQuestions(Start(Header(message)), message.questions, compress)
        answered == WriteRecords(asked, message.answers, compress)
        authorized == WriteRecords(answered, message.authority, compress)
    IN  WriteRecords(authorized, message.additional, compress).octets

-----------------------------------------------------------------------------
(* What hosts write: names as RFC 1035, 2.3.4, limits them, data of the size *)
(* its kind has, counts that 16 bits can hold.  Neither what is asked for    *)
(* nor a server is the root, whose name is one octet: where such a question  *)
(* ends a message, and wherever such a server is, the code rejects all of it.*)

Byte == 0 .. 255
NumberLimit == 65536                \* of two octets
Number == 0 .. NumberLimit - 1
Strings == Seq(Byte)
IsName(dotted) ==
    /\ dotted \in Seq(Strings) /\ dotted # <<>> /\ Last(dotted) = Empty
    /\ \A i \in 1 .. Len(dotted) - 1 : Len(dotted[i]) \in 1 .. 63
    /\ Len(ToName(dotted)) <= 255
IsRoot(dotted) == Len(dotted) = 1

Questions == [name : Seq(Strings), type : Number]
Records ==
    [name : Seq(Strings),
     data : [kind : {"A", "PTR", "TXT", "SRV", "octets"}, name : Seq(Strings), octets : Strings]]

IsData(data) ==
    /\ data.kind \in {"PTR", "SRV"} => IsName(data.name)
    /\ data.kind \notin {"PTR", "SRV"} => data.name = <<Empty>>
    /\ data.kind = "A" => Len(data.octets) = 4
    /\ data.kind = "PTR" => data.octets = <<>>
    /\ data.kind = "TXT" => Len(data.octets) <= 255
    /\ data.kind = "SRV" => Len(data.octets) = 6 /\ ~IsRoot(data.name)
    /\ Len(data.octets) < NumberLimit
IsRecord(record) == record \in Records /\ IsName(record.name) /\ IsData(record.data)

IsMessage(message) ==
    /\ message \in [isResponse : BOOLEAN, questions : Seq(Questions), answers : Seq(Records),
                    authority : Seq(Records), additional : Seq(Records)]
    /\ Len(message.questions) < NumberLimit
    /\ \A i \in DOMAIN message.questions :
          IsName(message.questions[i].name) /\ ~IsRoot(message.questions[i].name)
    /\ \A records \in {message.answers, message.authority, message.additional} :
          Len(records) < NumberLimit /\ \A i \in DOMAIN records : IsRecord(records[i])
=============================================================================
