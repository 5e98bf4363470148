------------------------- MODULE HttpResponseParser -------------------------
(***************************************************************************)
(* http::HttpResponseParser: what the callbacks it gives to llhttp make of a *)
(* response that arrives in pieces.                                          *)
(*                                                                           *)
(* A response has `units` octets, all in different places, of which some are *)
(* in `spans`: the reason phrase, the name and the value of each header, the *)
(* body.  A text is the sequence of the places of its octets.  A message is  *)
(* complete with its last unit.                                              *)
(***************************************************************************)
EXTENDS Naturals, SequencesExt

SpanKinds == {"status", "name", "value", "body"}

(* Responses of a server that keeps to the protocol: names have values, and  *)
(* a unit no span holds stands behind every phrase, name and value.          *)
IsResponse(response) ==
    /\ response.units \in Nat \ {0} /\ response.code \in Nat
    /\ response.spans \in Seq([kind : SpanKinds, first : Nat, last : Nat])
    /\ \A i \in DOMAIN response.spans :
          LET span == response.spans[i]
          IN  /\ span.first \in 1 .. span.last
              /\ span.last \in 1 .. response.units
              /\ span.kind # "body" => span.last < response.units
              /\ \A j \in 1 .. i - 1 : response.spans[j].last < span.first
              /\ span.kind = "name" =>
                    i < Len(response.spans) /\ response.spans[i + 1].kind = "value"
              /\ span.kind = "value" => i > 1 /\ response.spans[i - 1].kind = "name"

Text(first, last) == [i \in 1 .. last - first + 1 |-> first + i - 1]

(* Mutant of NewParser: a field is not initialized.                          *)
NewParserUninitialized ==
    [statusCode |-> 52685, headers |-> <<>>, body |-> <<>>, isComplete |-> FALSE,
     failed |-> FALSE, at |-> 0]

(* The fields of HttpResponseParserPrivate, and how much it was given.       *)
NewParser ==
    [statusCode |-> 0, headers |-> <<>>, body |-> <<>>, isComplete |-> FALSE,
     failed |-> FALSE, at |-> 0]

-----------------------------------------------------------------------------
(* The callbacks.                                                            *)

OnStatus(parser, code) == [parser EXCEPT !.statusCode = code]

OnHeaderField(parser, text) ==
    [parser EXCEPT !.headers = Append(@, [name |-> text, value |-> <<>>])]

OnHeaderValue(parser, text) ==
    [parser EXCEPT !.headers[Len(parser.headers)].value = text]

(* Mutant of OnBody: as the value of a header.                               *)
OnBodyAssigns(parser, text) == [parser EXCEPT !.body = text]

OnBody(parser, text) == [parser EXCEPT !.body = @ \o text]

OnMessageComplete(parser) == [parser EXCEPT !.isComplete = TRUE]

Callback(parser, response, kind, text) ==
    CASE kind = "status" -> OnStatus(parser, response.code)
      [] kind = "name"   -> OnHeaderField(parser, text)
      [] kind = "value"  -> OnHeaderValue(parser, text)
      [] kind = "body"   -> OnBody(parser, text)

-----------------------------------------------------------------------------
(* llhttp_execute() with the units behind those it was given, up to `to`.    *)
(* It gives a callback as much of its span as there is, and calls it again   *)
(* for the rest; which may be nothing, when the data ended with the span but *)
(* the end was still to be seen.  That of a body is known by its length.     *)

IsGiven(span, from, to) ==
    /\ span.first <= to
    /\ IF span.kind = "body" THEN from < span.last ELSE from <= span.last

Given(parser, response, span, to) ==
    IF IsGiven(span, parser.at, to)
    THEN Callback(parser, response, span.kind,
                  Text(Max({parser.at + 1, span.first}), Min({to, span.last})))
    ELSE parser

(* The parser once the callbacks of the first i spans were called.           *)
AfterSpans(parser, response, to) ==
    LET after[i \in 0 .. Len(response.spans)] ==
        IF i = 0 THEN parser ELSE Given(after[i - 1], response, response.spans[i], to)
    IN  after

Execute(parser, response, to) ==
    LET given == [AfterSpans(parser, response, to)[Len(response.spans)] EXCEPT !.at = to]
    IN  IF to = response.units THEN OnMessageComplete(given) ELSE given

(* parse(): what is given out, if anything, once llhttp took the data.       *)
GivesOut(parser) == ~parser.failed /\ parser.isComplete

-----------------------------------------------------------------------------
(* What was sent.                                                            *)

SpansOf(response, kind) == {i \in DOMAIN response.spans : response.spans[i].kind = kind}
TextOf(span) == Text(span.first, span.last)

(* A code is only told with a reason phrase.                                 *)
CodeOf(response) == IF SpansOf(response, "status") = {} THEN 0 ELSE response.code

(* Each name with its value.                                                 *)
HeadersOf(response) ==
    {[name |-> TextOf(response.spans[i]), value |-> TextOf(response.spans[i + 1])] :
        i \in SpansOf(response, "name")}

(* All octets of a kind, and that pieces hold just these, in their order.    *)
Places(response, kind) ==
    UNION {response.spans[i].first .. response.spans[i].last : i \in SpansOf(response, kind)}
IsWhole(pieces, places) ==
    /\ UNION {Range(pieces[k]) : k \in DOMAIN pieces} = places
    /\ \A k, l \in DOMAIN pieces : \A i \in DOMAIN pieces[k], j \in DOMAIN pieces[l] :
          k < l \/ (k = l /\ i < j) => pieces[k][i] < pieces[l][j]
NamesOf(headers) == [k \in DOMAIN headers |-> headers[k].name]

(* Data that ends inside the name or the value of a header, or behind it.    *)
CutsHeader(response, to) ==
    \E i \in DOMAIN response.spans :
        response.spans[i].kind \in {"name", "value"}
        /\ to \in response.spans[i].first .. response.spans[i].last
=============================================================================
