---------------------------- MODULE MCHttpClient -----------------------------
(***************************************************************************)
(* Instances of HttpClient: a response with one header and a body, every     *)
(* text of two octets, one that ends with its headers, and one without a      *)
(* reason phrase.                                                            *)
(***************************************************************************)
EXTENDS HttpClient

Span(kind, first, last) == [kind |-> kind, first |-> first, last |-> last]

MCResponses ==
    {[code |-> 200, units |-> 10,
      spans |-> <<Span("status", 1, 1), Span("name", 3, 4), Span("value", 6, 7),
                  Span("body", 9, 10)>>],
     [code |-> 304, units |-> 5, spans |-> <<Span("name", 2, 2), Span("value", 4, 4)>>],
     [code |-> 204, units |-> 7,
      spans |-> <<Span("status", 1, 1), Span("name", 3, 3), Span("value", 5, 5)>>]}

(* Inside of the name, inside of the value, behind it, inside of the body.     *)
MCEnds == {3, 6, 7, 9}
=============================================================================
