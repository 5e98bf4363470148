----------------------- MODULE MCDnsServiceDiscovery ------------------------
(***************************************************************************)
(* Two instances of the service looked for, a printer of another service,    *)
(* their host, and every message of a few of their records.                  *)
(***************************************************************************)
EXTENDS DnsServiceDiscovery

Service == <<<<1>>, <<2>>>>              \* "_http.local"
Other == <<<<3>>, <<2>>, Empty>>         \* "_ipp.local."
Dotted == Append(Service, Empty)
One == <<<<4>>>> \o Dotted
Two == <<<<5>>>> \o Dotted
Printer == <<<<6>>>> \o Other
Host == <<<<7>>, <<2>>, Empty>>

Record(owner, kind, target, octets) ==
    [name |-> owner, data |-> [kind |-> kind, name |-> target, octets |-> octets]]
Port(number) == <<0, 0, 0, 0, 0, number>>

OneRecords == {Record(Dotted, "PTR", One, <<>>), Record(One, "SRV", Host, Port(80)),
               Record(One, "TXT", <<Empty>>, <<8, 9>>)}
TwoRecords == {Record(Dotted, "PTR", Two, <<>>), Record(Two, "SRV", Host, Port(81)),
               Record(Two, "TXT", <<Empty>>, <<>>)}
OtherRecords == {Record(Other, "PTR", Printer, <<>>), Record(Printer, "SRV", Host, Port(82)),
                 Record(Host, "A", <<Empty>>, <<10, 0, 0, 1>>),
                 Record(Host, "octets", <<Empty>>, <<1, 2, 3>>)}
MCRecords == OneRecords \cup TwoRecords \cup OtherRecords

UpTo(n, S) == UNION {[1 .. k -> S] : k \in 0 .. n}

Question == <<[name |-> Dotted, type |-> TypePTR]>>

(* Queries with and without a known answer; responses with records of any    *)
(* kind in every section.                                                    *)
Queries ==
    [isResponse : {FALSE}, questions : {Question}, answers : UpTo(1, MCRecords),
     authority : {<<>>}, additional : {<<>>}]
Replies ==
    [isResponse : {TRUE}, questions : {<<>>, Question}, answers : UpTo(2, MCRecords),
     authority : UpTo(1, {Record(One, "TXT", <<Empty>>, <<8, 9>>)}),
     additional : UpTo(1, OtherRecords \cup {Record(One, "SRV", Host, Port(80))})]

MCMessages == Queries \cup Replies

(* What the theorems on publications assume of the hosts.                    *)
ASSUME NamesAreApart == OwnersApart
ASSUME NamesAreInstances == InstancesNamed
=============================================================================
