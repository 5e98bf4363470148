---------------------- MODULE HttpResponseParserProofs ----------------------
(***************************************************************************)
(* Proofs about HttpResponseParser: what a parser holds of any response that  *)
(* keeps to the protocol, after any execution of it.                         *)
(*                                                                           *)
(* Execute is a recursion over the spans of the response.  The lemmas say    *)
(* what holds before and after the callback of one span; an induction, on    *)
(* the set of the numbers of spans for which it holds, takes them to the end *)
(* of an execution.                                                          *)
(***************************************************************************)
EXTENDS HttpResponseParser, WellFoundedInduction, SequenceTheorems, TLAPS

(* The least of a set of numbers, and induction over them.                   *)
LEMMA LeastNumber ==
    ASSUME NEW T, T \subseteq Nat, T # {}
    PROVE  \E x \in T : \A y \in T : x <= y
<1> DEFINE R == OpToRel(<, Nat)
<1>1. IsWellFoundedOn(R, Nat)
  BY NatLessThanWellFounded
<1> HIDE DEF R
<1>2. PICK x \in T : \A y \in T : ~ (<<y, x>> \in R)
  BY <1>1, WFMin
<1>3. ASSUME NEW y \in T PROVE x <= y
  <2>1. ~ (<<y, x>> \in R)
    BY <1>2
  <2>2. y < x => <<y, x>> \in R
    BY DEF R, OpToRel
  <2> QED BY <2>1, <2>2
<1> QED BY <1>3

LEMMA NumbersFrom ==
    ASSUME NEW S, 0 \in S, \A n \in Nat : n \in S => n + 1 \in S
    PROVE  Nat \subseteq S
<1> DEFINE T == Nat \ S
<1>1. SUFFICES ASSUME T # {} PROVE FALSE
  OBVIOUS
<1>2. PICK x \in T : \A y \in T : x <= y
  BY <1>1, LeastNumber
<1>3. x # 0 /\ x - 1 \in Nat /\ x - 1 \in S
  BY <1>2
<1> QED BY <1>3

-----------------------------------------------------------------------------
(* The recursion over the spans has a value.                                 *)

Step(f, p, r, to, n) ==
    [i \in 0 .. n |-> IF i = 0 THEN p ELSE Given(f[i - 1], r, r.spans[i], to)]

LEMMA StepsExist ==
    ASSUME NEW p, NEW r, NEW to
    PROVE  \A n \in Nat : \E f : f = Step(f, p, r, to, n)
<1> DEFINE S == {n \in Nat : \E f : f = Step(f, p, r, to, n)}
<1>1. 0 \in S
  <2> DEFINE g == [i \in 0 .. 0 |-> p]
  <2>1. g = Step(g, p, r, to, 0)
    BY DEF Step
  <2> QED BY <2>1
<1>2. ASSUME NEW n \in Nat, n \in S PROVE n + 1 \in S
  <2>1. PICK f : f = Step(f, p, r, to, n)
    BY <1>2
  <2> DEFINE g == [i \in 0 .. n + 1 |->
                      IF i = n + 1 THEN Given(f[n], r, r.spans[n + 1], to) ELSE f[i]]
  <2>2. \A i \in 0 .. n : f[i] = IF i = 0 THEN p ELSE Given(f[i - 1], r, r.spans[i], to)
    BY <2>1 DEF Step
  <2>3. \A i \in 0 .. n : g[i] = f[i]
    OBVIOUS
  <2>4. ASSUME NEW i \in 0 .. n + 1
        PROVE  g[i] = IF i = 0 THEN p ELSE Given(g[i - 1], r, r.spans[i], to)
    <3>1. CASE i = n + 1
      <4>1. g[i] = Given(f[n], r, r.spans[n + 1], to)
        BY <3>1
      <4>2. g[i - 1] = f[n] /\ i # 0
        BY <2>3, <3>1
      <4> QED BY <3>1, <4>1, <4>2
    <3>2. CASE i = 0
      BY <2>2, <2>3, <3>2
    <3>3. CASE i \in 1 .. n
      <4>1. g[i] = f[i] /\ g[i - 1] = f[i - 1]
        BY <2>3, <3>3
      <4>2. f[i] = Given(f[i - 1], r, r.spans[i], to)
        BY <2>2, <3>3
      <4> HIDE DEF g
      <4> QED BY <3>3, <4>1, <4>2
    <3> QED BY <3>1, <3>2, <3>3
  <2> HIDE DEF g
  <2>5. g = Step(g, p, r, to, n + 1)
    <3>1. g = [i \in 0 .. n + 1 |-> g[i]]
      BY DEF g
    <3> QED BY <2>4, <3>1, Zenon DEF Step
  <2> QED BY <2>5
<1> HIDE DEF S
<1>3. Nat \subseteq S
  BY <1>1, <1>2, NumbersFrom
<1> QED BY <1>3 DEF S

LEMMA AfterSpansIs ==
    ASSUME NEW p, NEW r, NEW to, Len(r.spans) \in Nat
    PROVE  /\ AfterSpans(p, r, to)[0] = p
           /\ \A i \in 1 .. Len(r.spans) :
                 AfterSpans(p, r, to)[i]
                    = Given(AfterSpans(p, r, to)[i - 1], r, r.spans[i], to)
<1> DEFINE a == AfterSpans(p, r, to)
           n == Len(r.spans)
<1>1. a = CHOOSE f : f = Step(f, p, r, to, n)
  BY DEF AfterSpans, Step
<1>2. a = Step(a, p, r, to, n)
  BY <1>1, StepsExist
<1> HIDE DEF a
<1>3. \A i \in 0 .. n : a[i] = IF i = 0 THEN p ELSE Given(a[i - 1], r, r.spans[i], to)
  BY <1>2, Zenon DEF Step
<1>4. a[0] = p
  BY <1>3
<1>5. ASSUME NEW i \in 1 .. n PROVE a[i] = Given(a[i - 1], r, r.spans[i], to)
  BY <1>3
<1> QED BY <1>4, <1>5 DEF a

-----------------------------------------------------------------------------
(* Pieces of texts.                                                          *)

Parsers == [statusCode : Nat, headers : Seq([name : Seq(Nat), value : Seq(Nat)]),
            body : Seq(Nat), isComplete : BOOLEAN, failed : BOOLEAN, at : Nat]

LEMMA MaxOfTwo == ASSUME NEW a \in Nat, NEW b \in Nat PROVE Max({a, b}) = IF a >= b THEN a ELSE b
<1>1. PICK x : x = IF a >= b THEN a ELSE b
  OBVIOUS
<1>2. x \in {a, b} /\ \A y \in {a, b} : x >= y
  BY <1>1
<1>3. Max({a, b}) \in {a, b} /\ \A y \in {a, b} : Max({a, b}) >= y
  BY <1>2 DEF Max
<1> QED BY <1>1, <1>3

LEMMA MinOfTwo == ASSUME NEW a \in Nat, NEW b \in Nat PROVE Min({a, b}) = IF a <= b THEN a ELSE b
<1>1. PICK x : x = IF a <= b THEN a ELSE b
  OBVIOUS
<1>2. x \in {a, b} /\ \A y \in {a, b} : x <= y
  BY <1>1
<1>3. Min({a, b}) \in {a, b} /\ \A y \in {a, b} : Min({a, b}) <= y
  BY <1>2 DEF Min
<1> QED BY <1>1, <1>3

InOrder(text) == \A i, j \in DOMAIN text : i < j => text[i] < text[j]

LEMMA TextIs ==
    ASSUME NEW first \in Nat \ {0}, NEW last \in Nat
    PROVE  /\ Text(first, last) \in Seq(Nat)
           /\ Range(Text(first, last)) = first .. last
           /\ InOrder(Text(first, last))
<1> DEFINE n == IF last < first THEN 0 ELSE last - first + 1
           t == [i \in 1 .. n |-> first + i - 1]
<1>1. n \in Nat /\ 1 .. n = 1 .. last - first + 1
  OBVIOUS
<1>2. Text(first, last) = t
  BY <1>1 DEF Text
<1>3. \A i \in 1 .. n : t[i] = first + i - 1 /\ t[i] \in first .. last
  OBVIOUS
<1>4. t \in Seq(Nat) /\ Len(t) = n /\ DOMAIN t = 1 .. n
  BY <1>1
<1>5. ASSUME NEW v \in first .. last PROVE v \in Range(t)
  <2>1. v - first + 1 \in 1 .. n
    OBVIOUS
  <2>2. t[v - first + 1] = v
    BY <2>1, <1>3
  <2> QED BY <2>1, <2>2, <1>4 DEF Range
<1> HIDE DEF t
<1>6. Range(t) = first .. last
  BY <1>3, <1>4, <1>5 DEF Range
<1>7. InOrder(t)
  BY <1>1, <1>3, <1>4 DEF InOrder
<1> QED BY <1>2, <1>4, <1>6, <1>7

(* What a callback is given of a span.                                       *)
GivenText(span, from, to) == Text(Max({from + 1, span.first}), Min({to, span.last}))
Fresh(span, from, to) == {u \in span.first .. span.last : from < u /\ u <= to}

LEMMA GivenTextIs ==
    ASSUME NEW span, span.first \in Nat \ {0}, span.last \in Nat, NEW from \in Nat, NEW to \in Nat
    PROVE  /\ GivenText(span, from, to) \in Seq(Nat)
           /\ Range(GivenText(span, from, to)) = Fresh(span, from, to)
           /\ InOrder(GivenText(span, from, to))
<1>1. PICK first, last : first = Max({from + 1, span.first}) /\ last = Min({to, span.last})
  OBVIOUS
<1>2. /\ first = IF from + 1 >= span.first THEN from + 1 ELSE span.first
      /\ last = IF to <= span.last THEN to ELSE span.last
  BY <1>1, MaxOfTwo, MinOfTwo
<1>3. first \in Nat \ {0} /\ last \in Nat
  BY <1>2
<1>4. first .. last = Fresh(span, from, to)
  BY <1>2 DEF Fresh
<1>5. GivenText(span, from, to) = Text(first, last)
  BY <1>1, Zenon DEF GivenText
<1> QED BY <1>3, <1>4, <1>5, TextIs, Zenon

LEMMA PieceAdded ==
    ASSUME NEW pieces \in Seq(Seq(Nat)), NEW places, IsWhole(pieces, places),
           NEW text \in Seq(Nat), InOrder(text),
           \A u \in places, v \in Range(text) : u < v
    PROVE  IsWhole(Append(pieces, text), places \cup Range(text))
<1> DEFINE more == Append(pieces, text)
           n == Len(pieces)
<1>1. /\ more \in Seq(Seq(Nat)) /\ DOMAIN more = 1 .. n + 1 /\ DOMAIN pieces = 1 .. n
      /\ n \in Nat /\ more[n + 1] = text /\ \A k \in 1 .. n : more[k] = pieces[k]
  OBVIOUS
<1> HIDE DEF more, n
<1>2. UNION {Range(more[k]) : k \in DOMAIN more} = places \cup Range(text)
  <2>1. UNION {Range(pieces[k]) : k \in DOMAIN pieces} = places
    BY DEF IsWhole
  <2>2. 1 .. n + 1 = (1 .. n) \cup {n + 1}
    BY <1>1
  <2> QED BY <1>1, <2>1, <2>2, Zenon
<1>3. ASSUME NEW k \in DOMAIN more, NEW l \in DOMAIN more,
             NEW i \in DOMAIN more[k], NEW j \in DOMAIN more[l], k < l \/ (k = l /\ i < j)
      PROVE  more[k][i] < more[l][j]
  <2>1. CASE k \in 1 .. n /\ l \in 1 .. n
    <3>1. more[k] = pieces[k] /\ more[l] = pieces[l]
      BY <2>1, <1>1
    <3> QED BY <1>1, <1>3, <2>1, <3>1, Zenon DEF IsWhole
  <2>2. CASE k \in 1 .. n /\ l = n + 1
    <3>1. more[k] = pieces[k] /\ more[l] = text
      BY <2>2, <1>1
    <3>2. pieces[k][i] \in places
      <4>1. k \in DOMAIN pieces /\ i \in DOMAIN pieces[k]
        BY <1>1, <2>2, <3>1, Zenon
      <4>2. pieces[k][i] \in Range(pieces[k])
        BY <4>1, Zenon DEF Range
      <4>3. UNION {Range(pieces[h]) : h \in DOMAIN pieces} = places
        BY DEF IsWhole
      <4> QED BY <4>1, <4>2, <4>3, Zenon
    <3>3. text[j] \in Range(text)
      BY <3>1, Zenon DEF Range
    <3> QED BY <3>1, <3>2, <3>3, Zenon
  <2>3. CASE k = n + 1 /\ l = n + 1
    <3>1. more[k] = text /\ more[l] = text /\ i < j
      BY <2>3, <1>1, <1>3
    <3> QED BY <3>1, Zenon DEF InOrder
  <2>4. k \in 1 .. n + 1 /\ l \in 1 .. n + 1 /\ n \in Nat /\ (k < l \/ k = l)
    BY <1>1, <1>3
  <2> QED BY <2>1, <2>2, <2>3, <2>4
<1> QED BY <1>2, <1>3, Zenon DEF IsWhole, more

LEMMA TextAdded ==
    ASSUME NEW before \in Seq(Nat), NEW places, IsWhole(<<before>>, places),
           NEW text \in Seq(Nat), InOrder(text),
           \A u \in places, v \in Range(text) : u < v
    PROVE  IsWhole(<<before \o text>>, places \cup Range(text))
<1> DEFINE all == before \o text
           n == Len(before)
           m == Len(text)
<1>1. /\ all \in Seq(Nat) /\ DOMAIN all = 1 .. n + m /\ n \in Nat /\ m \in Nat
      /\ DOMAIN before = 1 .. n /\ DOMAIN text = 1 .. m
      /\ \A i \in 1 .. n : all[i] = before[i]
      /\ \A i \in n + 1 .. n + m : all[i] = text[i - n]
  OBVIOUS
<1>2. Range(before) = places /\ InOrder(before)
  <2>1. DOMAIN <<before>> = {1} /\ <<before>>[1] = before
    OBVIOUS
  <2>2. UNION {Range(<<before>>[k]) : k \in DOMAIN <<before>>} = Range(before)
    BY <2>1, Zenon
  <2>3. \A i, j \in DOMAIN before : i < j => before[i] < before[j]
    BY <2>1, Zenon DEF IsWhole
  <2> QED BY <2>2, <2>3, Zenon DEF IsWhole, InOrder
<1> HIDE DEF all, n, m
<1>3. \A i \in 1 .. n : before[i] \in places
  BY <1>1, <1>2 DEF Range
<1>4. \A i \in 1 .. m : text[i] \in Range(text)
  BY <1>1 DEF Range
<1>5. Range(all) = places \cup Range(text)
  <2>1. ASSUME NEW i \in 1 .. n + m PROVE all[i] \in places \cup Range(text)
    <3>1. CASE i \in 1 .. n
      BY <1>1, <1>3, <3>1
    <3>2. CASE i \in n + 1 .. n + m
      BY <1>1, <1>4, <3>2
    <3> QED BY <1>1, <3>1, <3>2
  <2>2. ASSUME NEW u \in places PROVE u \in Range(all)
    <3>1. PICK i \in 1 .. n : u = before[i]
      BY <1>1, <1>2 DEF Range
    <3>2. i \in DOMAIN all /\ all[i] = u
      BY <1>1, <3>1
    <3> QED BY <3>2, Zenon DEF Range
  <2>3. ASSUME NEW u \in Range(text) PROVE u \in Range(all)
    <3>1. PICK i \in 1 .. m : u = text[i]
      BY <1>1 DEF Range
    <3>2. n + i \in n + 1 .. n + m /\ (n + i) - n = i /\ n + i \in 1 .. n + m
      BY <1>1
    <3>3. all[n + i] = u
      BY <1>1, <3>1, <3>2
    <3>4. n + i \in DOMAIN all
      BY <1>1, <3>2
    <3>5. PICK k \in DOMAIN all : all[k] = u
      BY <3>3, <3>4
    <3> QED BY <3>5, Zenon DEF Range
  <2>4. \A u \in Range(all) : \E i \in 1 .. n + m : u = all[i]
    BY <1>1 DEF Range
  <2> QED BY <2>1, <2>2, <2>3, <2>4
<1>6. ASSUME NEW i \in 1 .. n + m, NEW j \in 1 .. n + m, i < j PROVE all[i] < all[j]
  <2>1. CASE j \in 1 .. n
    <3>1. i \in 1 .. n
      BY <1>1, <1>6, <2>1
    <3>2. all[i] = before[i] /\ all[j] = before[j]
      BY <1>1, <2>1, <3>1
    <3> QED BY <1>1, <1>2, <1>6, <2>1, <3>1, <3>2 DEF InOrder
  <2>2. CASE i \in 1 .. n /\ j \in n + 1 .. n + m
    <3>1. all[i] = before[i] /\ all[j] = text[j - n] /\ j - n \in 1 .. m
      BY <1>1, <2>2
    <3> QED BY <1>3, <1>4, <2>2, <3>1
  <2>3. CASE i \in n + 1 .. n + m /\ j \in n + 1 .. n + m
    <3>1. /\ all[i] = text[i - n] /\ i - n \in 1 .. m
          /\ all[j] = text[j - n] /\ j - n \in 1 .. m /\ i - n < j - n
      BY <1>1, <1>6, <2>3
    <3> QED BY <1>1, <3>1 DEF InOrder
  <2> QED BY <1>1, <1>6, <2>1, <2>2, <2>3
<1>7. IsWhole(<<all>>, places \cup Range(text))
  <2>1. DOMAIN <<all>> = {1} /\ <<all>>[1] = all /\ ~(1 < 1)
    OBVIOUS
  <2>2. UNION {Range(<<all>>[k]) : k \in DOMAIN <<all>>} = places \cup Range(text)
    BY <1>5, <2>1, Zenon
  <2> QED BY <1>1, <1>6, <2>1, <2>2, Zenon DEF IsWhole
<1> QED BY <1>7 DEF all

-----------------------------------------------------------------------------
(* A span stands behind those before it.                                     *)
LEMMA SpanTyped ==
    ASSUME NEW r, IsResponse(r), NEW i \in DOMAIN r.spans
    PROVE  /\ DOMAIN r.spans = 1 .. Len(r.spans) /\ Len(r.spans) \in Nat /\ i \in Nat \ {0}
           /\ r.spans[i].kind \in SpanKinds
           /\ r.spans[i].first \in Nat \ {0} /\ r.spans[i].last \in Nat
           /\ r.spans[i].first <= r.spans[i].last
           /\ r.spans[i].last <= r.units /\ r.units \in Nat
           /\ \A j \in DOMAIN r.spans : j < i => r.spans[j].last < r.spans[i].first
<1>1. DOMAIN r.spans = 1 .. Len(r.spans) /\ Len(r.spans) \in Nat
  BY DEF IsResponse
<1>2. \A j \in 1 .. i - 1 : r.spans[j].last < r.spans[i].first
  BY DEF IsResponse
<1>3. r.spans[i].first \in 1 .. r.spans[i].last /\ r.spans[i].last \in 1 .. r.units
  BY DEF IsResponse
<1>4. r.spans[i] \in [kind : SpanKinds, first : Nat, last : Nat] /\ r.units \in Nat
  <2>1. PICK S : S = [kind : SpanKinds, first : Nat, last : Nat]
    OBVIOUS
  <2>2. r.spans \in Seq(S) /\ r.units \in Nat
    BY <2>1, Zenon DEF IsResponse
  <2>3. r.spans[i] \in S
    BY <1>1, <2>2
  <2> QED BY <2>1, <2>2, <2>3
<1> QED BY <1>1, <1>2, <1>3, <1>4

(* What a callback leaves alone, and the types it keeps.                     *)

Keeps(q, p) == q.isComplete = p.isComplete /\ q.failed = p.failed /\ q.at = p.at

LEMMA GivenTyped ==
    ASSUME NEW r, IsResponse(r), NEW i \in DOMAIN r.spans, NEW p \in Parsers, NEW to \in Nat
    PROVE  /\ Given(p, r, r.spans[i], to) \in Parsers
           /\ Keeps(Given(p, r, r.spans[i], to), p)
           /\ Given(p, r, r.spans[i], to).statusCode \in {p.statusCode, r.code}
<1> DEFINE span == r.spans[i]
           text == GivenText(span, p.at, to)
           h == p.headers
           n == Len(h)
<1>1. /\ r.code \in Nat /\ span.kind \in SpanKinds
      /\ span.first \in Nat \ {0} /\ span.last \in Nat /\ p.at \in Nat
  <2>1. r.code \in Nat
    BY DEF IsResponse
  <2>2. p.at \in Nat
    BY DEF Parsers
  <2> QED BY <2>1, <2>2, SpanTyped
<1>2. text \in Seq(Nat)
  BY <1>1, GivenTextIs
<1> HIDE DEF text
<1>3. OnStatus(p, r.code) \in Parsers /\ Keeps(OnStatus(p, r.code), p)
      /\ OnStatus(p, r.code).statusCode = r.code
  BY <1>1 DEF OnStatus, Parsers, Keeps
<1>4. OnHeaderField(p, text) \in Parsers /\ Keeps(OnHeaderField(p, text), p)
      /\ OnHeaderField(p, text).statusCode = p.statusCode
  <2>1. [name |-> text, value |-> <<>>] \in [name : Seq(Nat), value : Seq(Nat)]
    BY <1>2
  <2>2. Append(h, [name |-> text, value |-> <<>>]) \in Seq([name : Seq(Nat), value : Seq(Nat)])
    BY <2>1 DEF Parsers
  <2> QED BY <2>2 DEF OnHeaderField, Parsers, Keeps
<1>5. OnHeaderValue(p, text) \in Parsers /\ Keeps(OnHeaderValue(p, text), p)
      /\ OnHeaderValue(p, text).statusCode = p.statusCode
  <2> DEFINE H == [name : Seq(Nat), value : Seq(Nat)]
             g == [h EXCEPT ![n].value = text]
  <2>1. h \in Seq(H) /\ n \in Nat /\ DOMAIN h = 1 .. n
    BY DEF Parsers
  <2>2. \A k \in 1 .. n : h[k] \in H
    <3> HIDE DEF H
    <3> QED BY <2>1
  <2>3. DOMAIN g = 1 .. n
    BY <2>1
  <2>4. ASSUME NEW k \in 1 .. n PROVE g[k] \in H
    <3>1. g[k] = IF k = n THEN [h[n] EXCEPT !.value = text] ELSE h[k]
      BY <2>1
    <3>2. CASE k = n
      <4>1. h[n] \in H
        BY <2>2, <3>2
      <4>2. [h[n] EXCEPT !.value = text] \in H
        BY <4>1, <1>2
      <4> QED BY <3>1, <3>2, <4>2
    <3> QED BY <2>2, <3>1, <3>2
  <2>5. g = [k \in 1 .. n |-> g[k]]
    BY <2>3
  <2> HIDE DEF g, H
  <2>6. g \in [1 .. n -> H]
    BY <2>4, <2>5
  <2>7. g \in Seq(H)
    BY <2>1, <2>6
  <2> QED BY <2>7 DEF OnHeaderValue, Parsers, Keeps, g, H
<1>6. OnBody(p, text) \in Parsers /\ Keeps(OnBody(p, text), p)
      /\ OnBody(p, text).statusCode = p.statusCode
  <2>1. p.body \o text \in Seq(Nat)
    BY <1>2 DEF Parsers
  <2> QED BY <2>1 DEF OnBody, Parsers, Keeps
<1>7. Given(p, r, span, to) \in
          {p, OnStatus(p, r.code), OnHeaderField(p, text), OnHeaderValue(p, text), OnBody(p, text)}
  BY <1>1, Zenon DEF Given, Callback, SpanKinds, text, GivenText
<1>8. Keeps(p, p)
  BY DEF Keeps
<1> QED BY <1>3, <1>4, <1>5, <1>6, <1>7, <1>8, Zenon

(* How much is known of span j once the callbacks of the first i spans were   *)
(* called, in an execution from `from` to `to`.                              *)
Known(i, from, to, j) == IF j <= i THEN to ELSE from
Started(r, i, from, to, j) == r.spans[j].first <= Known(i, from, to, j)
HeldOf(r, kind, i, from, to) ==
    {u \in Nat : \E j \in SpansOf(r, kind) :
        u \in r.spans[j].first .. r.spans[j].last /\ u <= Known(i, from, to, j)}

Parsed(p, r, i, from, to) ==
    /\ p \in Parsers /\ p.at = from
    /\ p.statusCode = IF \E j \in SpansOf(r, "status") : Started(r, i, from, to, j)
                      THEN r.code ELSE 0
    /\ IsWhole(<<p.body>>, HeldOf(r, "body", i, from, to))
    /\ IsWhole(NamesOf(p.headers), HeldOf(r, "name", i, from, to))

(* The next span adds what is fresh of it, behind everything held so far.    *)
LEMMA HeldNext ==
    ASSUME NEW r, IsResponse(r), NEW i \in DOMAIN r.spans, NEW kind,
           NEW from \in Nat, NEW to \in Nat, from <= to
    PROVE  /\ HeldOf(r, kind, i, from, to) = HeldOf(r, kind, i - 1, from, to)
                 \cup (IF r.spans[i].kind = kind THEN Fresh(r.spans[i], from, to) ELSE {})
           /\ \A u \in HeldOf(r, kind, i - 1, from, to), v \in Fresh(r.spans[i], from, to) : u < v
<1> DEFINE span == r.spans[i]
<1>1. /\ \A j \in DOMAIN r.spans : j \in Nat /\ r.spans[j].first \in Nat /\ r.spans[j].last \in Nat
      /\ \A j \in DOMAIN r.spans : j < i => r.spans[j].last < span.first
      /\ i \in Nat \ {0} /\ span.first \in Nat /\ span.last \in Nat
  BY SpanTyped
<1>2. \A j \in SpansOf(r, kind) : j \in DOMAIN r.spans /\ r.spans[j].kind = kind
  BY DEF SpansOf
<1>3. ASSUME NEW u \in HeldOf(r, kind, i, from, to)
      PROVE  u \in HeldOf(r, kind, i - 1, from, to)
             \/ (span.kind = kind /\ u \in Fresh(span, from, to))
  <2>1. PICK j \in SpansOf(r, kind) :
            u \in r.spans[j].first .. r.spans[j].last /\ u <= Known(i, from, to, j)
    BY DEF HeldOf
  <2>2. u \in Nat
    BY DEF HeldOf
  <2>3. CASE j = i /\ from < u
    BY <1>1, <1>2, <2>1, <2>3 DEF Fresh, Known
  <2>4. CASE ~(j = i /\ from < u)
    <3>1. u <= Known(i - 1, from, to, j)
      BY <1>1, <1>2, <2>1, <2>2, <2>4 DEF Known
    <3> QED BY <2>1, <2>2, <3>1 DEF HeldOf
  <2> QED BY <2>3, <2>4
<1>4. ASSUME NEW u \in HeldOf(r, kind, i - 1, from, to) PROVE u \in HeldOf(r, kind, i, from, to)
  <2>1. PICK j \in SpansOf(r, kind) :
            u \in r.spans[j].first .. r.spans[j].last /\ u <= Known(i - 1, from, to, j)
    BY DEF HeldOf
  <2>2. u \in Nat
    BY DEF HeldOf
  <2>3. u <= Known(i, from, to, j)
    BY <1>1, <1>2, <2>1, <2>2 DEF Known
  <2> QED BY <2>1, <2>2, <2>3 DEF HeldOf
<1>5. ASSUME NEW u \in Fresh(span, from, to), span.kind = kind
      PROVE  u \in HeldOf(r, kind, i, from, to)
  <2>1. i \in SpansOf(r, kind) /\ u \in span.first .. span.last /\ u <= Known(i, from, to, i)
    BY <1>1, <1>5 DEF SpansOf, Fresh, Known
  <2>2. u \in Nat
    BY <1>1, <2>1
  <2> QED BY <2>1, <2>2, Zenon DEF HeldOf
<1>6. ASSUME NEW u \in HeldOf(r, kind, i - 1, from, to), NEW v \in Fresh(span, from, to)
      PROVE  u < v
  <2>1. PICK j \in SpansOf(r, kind) :
            u \in r.spans[j].first .. r.spans[j].last /\ u <= Known(i - 1, from, to, j)
    BY DEF HeldOf
  <2>2. u \in Nat /\ v \in Nat /\ v >= span.first /\ from < v
    BY <1>1 DEF HeldOf, Fresh
  <2> QED BY <1>1, <1>2, <2>1, <2>2 DEF Known
<1> QED BY <1>3, <1>4, <1>5, <1>6

LEMMA NoneFresh ==
    ASSUME NEW r, IsResponse(r), NEW i \in DOMAIN r.spans, NEW from \in Nat, NEW to \in Nat,
           ~IsGiven(r.spans[i], from, to)
    PROVE  Fresh(r.spans[i], from, to) = {}
BY SpanTyped DEF IsGiven, Fresh

LEMMA StartedNext ==
    ASSUME NEW r, IsResponse(r), NEW i \in DOMAIN r.spans,
           NEW from \in Nat, NEW to \in Nat, from <= to
    PROVE  /\ \A j \in DOMAIN r.spans : j # i =>
                 (Started(r, i, from, to, j) <=> Started(r, i - 1, from, to, j))
           /\ r.spans[i].kind # "body" /\ ~IsGiven(r.spans[i], from, to) =>
                 (Started(r, i, from, to, i) <=> Started(r, i - 1, from, to, i))
           /\ IsGiven(r.spans[i], from, to) => Started(r, i, from, to, i)
<1>1. \A j \in DOMAIN r.spans : j \in Nat /\ r.spans[j].first \in Nat
                                /\ r.spans[j].last \in Nat /\ r.spans[j].first <= r.spans[j].last
  BY SpanTyped
<1>2. ASSUME NEW j \in DOMAIN r.spans, j # i
      PROVE  Started(r, i, from, to, j) <=> Started(r, i - 1, from, to, j)
  BY <1>1, <1>2 DEF Started, Known
<1>3. r.spans[i].kind # "body" /\ ~IsGiven(r.spans[i], from, to) =>
         (Started(r, i, from, to, i) <=> Started(r, i - 1, from, to, i))
  BY <1>1 DEF Started, Known, IsGiven
<1>4. IsGiven(r.spans[i], from, to) => Started(r, i, from, to, i)
  BY <1>1 DEF Started, Known, IsGiven
<1> QED BY <1>2, <1>3, <1>4

(* What each callback makes of the names, the body and the code.             *)
LEMMA CallbackEffect ==
    ASSUME NEW p \in Parsers, NEW code \in Nat, NEW text \in Seq(Nat)
    PROVE  /\ OnStatus(p, code).statusCode = code
           /\ OnStatus(p, code).body = p.body
           /\ OnStatus(p, code).headers = p.headers
           /\ OnHeaderField(p, text).statusCode = p.statusCode
           /\ OnHeaderField(p, text).body = p.body
           /\ OnHeaderField(p, text).headers = Append(p.headers, [name |-> text, value |-> <<>>])
           /\ NamesOf(OnHeaderField(p, text).headers) = Append(NamesOf(p.headers), text)
           /\ OnHeaderValue(p, text).statusCode = p.statusCode
           /\ OnHeaderValue(p, text).body = p.body
           /\ NamesOf(OnHeaderValue(p, text).headers) = NamesOf(p.headers)
           /\ OnBody(p, text).statusCode = p.statusCode
           /\ OnBody(p, text).body = p.body \o text
           /\ OnBody(p, text).headers = p.headers
           /\ NamesOf(p.headers) \in Seq(Seq(Nat))
<1> DEFINE H == [name : Seq(Nat), value : Seq(Nat)]
           h == p.headers
           n == Len(h)
<1>1. h \in Seq(H) /\ n \in Nat /\ DOMAIN h = 1 .. n /\ \A k \in 1 .. n : h[k] \in H
  <2>1. h \in Seq(H)
    BY DEF Parsers
  <2> HIDE DEF H
  <2> QED BY <2>1
<1>2. /\ OnStatus(p, code).statusCode = code /\ OnStatus(p, code).body = p.body
      /\ OnStatus(p, code).headers = p.headers
  BY DEF OnStatus, Parsers
<1>3. /\ OnHeaderField(p, text).statusCode = p.statusCode
      /\ OnHeaderField(p, text).body = p.body
      /\ OnHeaderField(p, text).headers = Append(p.headers, [name |-> text, value |-> <<>>])
  BY DEF OnHeaderField, Parsers
<1>4. /\ OnBody(p, text).statusCode = p.statusCode /\ OnBody(p, text).body = p.body \o text
      /\ OnBody(p, text).headers = p.headers
  BY DEF OnBody, Parsers
<1>5. /\ OnHeaderValue(p, text).statusCode = p.statusCode
      /\ OnHeaderValue(p, text).body = p.body
      /\ OnHeaderValue(p, text).headers = [h EXCEPT ![n].value = text]
  BY DEF OnHeaderValue, Parsers
<1>6. NamesOf([h EXCEPT ![n].value = text]) = NamesOf(h)
  <2> DEFINE g == [h EXCEPT ![n].value = text]
  <2>1. DOMAIN g = DOMAIN h
    OBVIOUS
  <2>2. ASSUME NEW k \in DOMAIN h PROVE g[k].name = h[k].name
    <3>1. g[k] = IF k = n THEN [h[n] EXCEPT !.value = text] ELSE h[k]
      BY <1>1
    <3>2. k = n => h[n] \in H
      BY <1>1
    <3> QED BY <3>1, <3>2
  <2> HIDE DEF g
  <2> QED BY <2>1, <2>2, Zenon DEF NamesOf, g
<1>7. NamesOf(h) \in Seq(Seq(Nat))
  <2>1. \A k \in 1 .. n : h[k].name \in Seq(Nat)
    BY <1>1
  <2>2. NamesOf(h) = [k \in 1 .. n |-> h[k].name]
    BY <1>1, Zenon DEF NamesOf
  <2> QED BY <1>1, <2>1, <2>2
<1>8. NamesOf(Append(h, [name |-> text, value |-> <<>>])) = Append(NamesOf(h), text)
  <2> DEFINE x == [name |-> text, value |-> <<>>]
             g == Append(h, x)
             a == Append(NamesOf(h), text)
  <2>1. x \in H /\ x.name = text
    OBVIOUS
  <2> HIDE DEF x, H
  <2>2. DOMAIN g = 1 .. n + 1 /\ g[n + 1] = x /\ \A k \in 1 .. n : g[k] = h[k]
    BY <1>1, <2>1
  <2>3. DOMAIN NamesOf(h) = 1 .. n /\ \A k \in 1 .. n : NamesOf(h)[k] = h[k].name
    BY <1>1, Zenon DEF NamesOf
  <2>4. Len(NamesOf(h)) = n
    BY <1>1, <1>7, <2>3
  <2>5. /\ DOMAIN a = 1 .. n + 1 /\ a[n + 1] = text /\ \A k \in 1 .. n : a[k] = NamesOf(h)[k]
        /\ a = [k \in 1 .. n + 1 |-> a[k]]
    BY <1>1, <1>7, <2>4
  <2> HIDE DEF g, a
  <2>6. NamesOf(g) = [k \in 1 .. n + 1 |-> g[k].name]
    BY <2>2, Zenon DEF NamesOf
  <2>7. ASSUME NEW k \in 1 .. n + 1 PROVE g[k].name = a[k]
    <3>1. CASE k \in 1 .. n
      BY <2>2, <2>3, <2>5, <3>1
    <3>2. CASE k = n + 1
      BY <2>1, <2>2, <2>5, <3>2
    <3> QED BY <1>1, <3>1, <3>2
  <2>8. NamesOf(g) = a
    BY <2>5, <2>6, <2>7, Zenon
  <2> QED BY <2>8 DEF g, a, x
<1> QED BY <1>2, <1>3, <1>4, <1>5, <1>6, <1>7, <1>8, Zenon

(* One span more.                                                            *)
LEMMA ParsedNext ==
    ASSUME NEW r, IsResponse(r), NEW i \in DOMAIN r.spans, NEW from \in Nat, NEW to \in Nat,
           from <= to, NEW p, Parsed(p, r, i - 1, from, to)
    PROVE  Parsed(Given(p, r, r.spans[i], to), r, i, from, to)
<1> DEFINE span == r.spans[i]
           text == GivenText(span, from, to)
           q == Given(p, r, span, to)
           SaysCode(n) == \E j \in SpansOf(r, "status") : Started(r, n, from, to, j)
           CodeAt(n) == IF SaysCode(n) THEN r.code ELSE 0
<1>1. /\ p \in Parsers /\ p.at = from /\ p.statusCode = CodeAt(i - 1)
      /\ IsWhole(<<p.body>>, HeldOf(r, "body", i - 1, from, to))
      /\ IsWhole(NamesOf(p.headers), HeldOf(r, "name", i - 1, from, to))
  BY Zenon DEF Parsed
<1>2. /\ span.kind \in SpanKinds /\ span.first \in Nat \ {0} /\ span.last \in Nat
      /\ r.code \in Nat
  BY SpanTyped DEF IsResponse
<1>3. text \in Seq(Nat) /\ Range(text) = Fresh(span, from, to) /\ InOrder(text)
  BY <1>2, GivenTextIs, Zenon
<1>4. q \in Parsers /\ q.at = from
  BY <1>1, GivenTyped DEF Keeps
<1>5. q = IF IsGiven(span, from, to) THEN Callback(p, r, span.kind, text) ELSE p
  BY <1>1, Zenon DEF Given, GivenText
<1> HIDE DEF text, q
<1>6. /\ \A kind : HeldOf(r, kind, i, from, to) = HeldOf(r, kind, i - 1, from, to)
                      \cup (IF span.kind = kind THEN Fresh(span, from, to) ELSE {})
      /\ \A kind : \A u \in HeldOf(r, kind, i - 1, from, to), v \in Fresh(span, from, to) : u < v
  BY HeldNext
<1>7. \A kind : span.kind # kind \/ Fresh(span, from, to) = {} =>
         HeldOf(r, kind, i, from, to) = HeldOf(r, kind, i - 1, from, to)
  BY <1>6
<1>8. span.kind # "status" \/ ~IsGiven(span, from, to) => (SaysCode(i) <=> SaysCode(i - 1))
  <2>1. \A j \in SpansOf(r, "status") : j \in DOMAIN r.spans /\ r.spans[j].kind = "status"
    BY DEF SpansOf
  <2>2. ASSUME span.kind # "status" \/ ~IsGiven(span, from, to), NEW j \in SpansOf(r, "status")
        PROVE  Started(r, i, from, to, j) <=> Started(r, i - 1, from, to, j)
    <3>1. CASE j # i
      BY <2>1, <3>1, StartedNext
    <3>2. CASE j = i
      BY <2>1, <2>2, <3>2, StartedNext
    <3> QED BY <3>1, <3>2
  <2> QED BY <2>2
<1>9. CASE ~IsGiven(span, from, to)
  <2>1. q = p /\ Fresh(span, from, to) = {}
    BY <1>5, <1>9, NoneFresh
  <2>2. CodeAt(i) = CodeAt(i - 1)
    BY <1>8, <1>9
  <2> QED BY <1>1, <1>4, <1>7, <2>1, <2>2, Zenon DEF Parsed, q
<1>10. CASE IsGiven(span, from, to) /\ span.kind = "status"
  <2>1. q = OnStatus(p, r.code)
    BY <1>5, <1>10, Zenon DEF Callback
  <2>2. SaysCode(i)
    BY <1>10, StartedNext DEF SpansOf
  <2>3. q.statusCode = r.code /\ q.body = p.body /\ q.headers = p.headers
    BY <1>1, <1>2, <1>3, <2>1, CallbackEffect
  <2>4. span.kind # "body" /\ span.kind # "name"
    BY <1>10
  <2> QED BY <1>1, <1>4, <1>7, <2>2, <2>3, <2>4, Zenon DEF Parsed, q
<1>11. CASE IsGiven(span, from, to) /\ span.kind = "name"
  <2>1. q = OnHeaderField(p, text)
    BY <1>5, <1>11, Zenon DEF Callback
  <2>2. CodeAt(i) = CodeAt(i - 1)
    BY <1>8, <1>11
  <2>3. /\ q.statusCode = p.statusCode /\ q.body = p.body
        /\ NamesOf(q.headers) = Append(NamesOf(p.headers), text)
        /\ NamesOf(p.headers) \in Seq(Seq(Nat))
    BY <1>1, <1>2, <1>3, <2>1, CallbackEffect
  <2>4. IsWhole(NamesOf(q.headers), HeldOf(r, "name", i - 1, from, to) \cup Range(text))
    <3>1. \A u \in HeldOf(r, "name", i - 1, from, to), v \in Range(text) : u < v
      BY <1>3, <1>6
    <3> QED BY <1>1, <1>3, <2>3, <3>1, PieceAdded
  <2>5. HeldOf(r, "name", i, from, to) = HeldOf(r, "name", i - 1, from, to) \cup Range(text)
    BY <1>3, <1>6, <1>11
  <2>6. span.kind # "body"
    BY <1>11
  <2> QED BY <1>1, <1>4, <1>7, <2>2, <2>3, <2>4, <2>5, <2>6, Zenon DEF Parsed, q
<1>12. CASE IsGiven(span, from, to) /\ span.kind = "value"
  <2>1. q = OnHeaderValue(p, text)
    BY <1>5, <1>12, Zenon DEF Callback
  <2>2. CodeAt(i) = CodeAt(i - 1)
    BY <1>8, <1>12
  <2>3. q.statusCode = p.statusCode /\ q.body = p.body /\ NamesOf(q.headers) = NamesOf(p.headers)
    BY <1>1, <1>2, <1>3, <2>1, CallbackEffect
  <2>4. span.kind # "body" /\ span.kind # "name"
    BY <1>12
  <2> QED BY <1>1, <1>4, <1>7, <2>2, <2>3, <2>4, Zenon DEF Parsed, q
<1>13. CASE IsGiven(span, from, to) /\ span.kind = "body"
  <2>1. q = OnBody(p, text)
    BY <1>5, <1>13, Zenon DEF Callback
  <2>2. CodeAt(i) = CodeAt(i - 1)
    BY <1>8, <1>13
  <2>3. q.statusCode = p.statusCode /\ q.body = p.body \o text /\ q.headers = p.headers
    BY <1>1, <1>2, <1>3, <2>1, CallbackEffect
  <2>4. IsWhole(<<q.body>>, HeldOf(r, "body", i - 1, from, to) \cup Range(text))
    <3>1. \A u \in HeldOf(r, "body", i - 1, from, to), v \in Range(text) : u < v
      BY <1>3, <1>6
    <3>2. p.body \in Seq(Nat)
      BY <1>1 DEF Parsers
    <3> QED BY <1>1, <1>3, <2>3, <3>1, <3>2, TextAdded
  <2>5. HeldOf(r, "body", i, from, to) = HeldOf(r, "body", i - 1, from, to) \cup Range(text)
    BY <1>3, <1>6, <1>13
  <2>6. span.kind # "name"
    BY <1>13
  <2> QED BY <1>1, <1>4, <1>7, <2>2, <2>3, <2>4, <2>5, <2>6, Zenon DEF Parsed, q
<1> QED BY <1>2, <1>9, <1>10, <1>11, <1>12, <1>13 DEF SpanKinds

-----------------------------------------------------------------------------
(* Headers that are not cut.  `names` are the places of the names among the   *)
(* spans, in their order.                                                    *)

HeaderKnown(r, i, from, to, j) ==
    [name |-> TextOf(r.spans[j]),
     value |-> IF Started(r, i, from, to, j + 1) THEN TextOf(r.spans[j + 1]) ELSE <<>>]
ExactBy(names, headers, r, i, from, to) ==
    /\ names \in Seq(SpansOf(r, "name")) /\ InOrder(names)
    /\ Range(names) = {j \in SpansOf(r, "name") : Started(r, i, from, to, j)}
    /\ headers = [k \in DOMAIN names |-> HeaderKnown(r, i, from, to, names[k])]
Exact(headers, r, i, from, to) == \E names : ExactBy(names, headers, r, i, from, to)

LEMMA NameSpan ==
    ASSUME NEW r, IsResponse(r), NEW j \in SpansOf(r, "name")
    PROVE  /\ j \in DOMAIN r.spans /\ j + 1 \in DOMAIN r.spans /\ j \in Nat
           /\ r.spans[j].kind = "name" /\ r.spans[j + 1].kind = "value"
<1>1. j \in DOMAIN r.spans /\ r.spans[j].kind = "name"
  BY DEF SpansOf
<1>2. j \in Nat \ {0} /\ DOMAIN r.spans = 1 .. Len(r.spans) /\ Len(r.spans) \in Nat
  BY <1>1, SpanTyped
<1>3. j < Len(r.spans) /\ r.spans[j + 1].kind = "value"
  BY <1>1 DEF IsResponse
<1> QED BY <1>1, <1>2, <1>3

(* A text that starts and is not cut is given in full.                       *)
LEMMA GivenInFull ==
    ASSUME NEW r, IsResponse(r), NEW i \in DOMAIN r.spans, NEW from \in Nat, NEW to \in Nat,
           from <= to, r.spans[i].kind \in {"name", "value"},
           ~CutsHeader(r, from), ~CutsHeader(r, to), IsGiven(r.spans[i], from, to)
    PROVE  /\ from < r.spans[i].first
           /\ GivenText(r.spans[i], from, to) = TextOf(r.spans[i])
<1> DEFINE span == r.spans[i]
<1>1. span.first \in Nat \ {0} /\ span.last \in Nat /\ span.first <= span.last
  BY SpanTyped
<1>2. from \notin span.first .. span.last /\ to \notin span.first .. span.last
  BY DEF CutsHeader
<1>3. span.first <= to /\ from <= span.last
  BY DEF IsGiven
<1>4. from < span.first /\ to > span.last
  BY <1>1, <1>2, <1>3
<1>5. Max({from + 1, span.first}) = span.first /\ Min({to, span.last}) = span.last
  <2>1. from + 1 \in Nat
    OBVIOUS
  <2> QED BY <1>1, <1>4, <2>1, MaxOfTwo, MinOfTwo
<1> QED BY <1>4, <1>5, Zenon DEF GivenText, TextOf

(* Until span i all names that started stand before it.                      *)
LEMMA StartedBefore ==
    ASSUME NEW r, IsResponse(r), NEW i \in DOMAIN r.spans, NEW j \in DOMAIN r.spans,
           NEW from \in Nat, NEW to \in Nat, from < r.spans[i].first,
           Started(r, i - 1, from, to, j)
    PROVE  j < i
<1>1. SUFFICES ASSUME j >= i PROVE FALSE
  BY SpanTyped
<1>2. j \in Nat /\ i \in Nat /\ r.spans[j].first \in Nat /\ r.spans[i].first \in Nat
  BY SpanTyped
<1>3. r.spans[j].first <= from
  BY <1>1, <1>2 DEF Started, Known
<1>4. j = i \/ r.spans[i].last < r.spans[j].first
  BY <1>1, <1>2, SpanTyped
<1>5. r.spans[i].first <= r.spans[i].last /\ r.spans[i].last \in Nat
  BY SpanTyped
<1> QED BY <1>2, <1>3, <1>4, <1>5

LEMMA ExactNext ==
    ASSUME NEW r, IsResponse(r), NEW i \in DOMAIN r.spans, NEW from \in Nat, NEW to \in Nat,
           from <= to, ~CutsHeader(r, from), ~CutsHeader(r, to),
           NEW p \in Parsers, p.at = from, Exact(p.headers, r, i - 1, from, to)
    PROVE  Exact(Given(p, r, r.spans[i], to).headers, r, i, from, to)
<1> DEFINE span == r.spans[i]
           text == GivenText(span, from, to)
           q == Given(p, r, span, to)
           Names == SpansOf(r, "name")
<1>1. PICK names : ExactBy(names, p.headers, r, i - 1, from, to)
  BY DEF Exact
<1>2. /\ span.kind \in SpanKinds /\ span.first \in Nat \ {0} /\ span.last \in Nat
      /\ r.code \in Nat /\ i \in Nat \ {0}
      /\ DOMAIN r.spans = 1 .. Len(r.spans) /\ Len(r.spans) \in Nat
  BY SpanTyped DEF IsResponse
<1>3. text \in Seq(Nat)
  BY <1>2, GivenTextIs, Zenon
<1>4. q = IF IsGiven(span, from, to) THEN Callback(p, r, span.kind, text) ELSE p
  BY Zenon DEF Given, GivenText
<1> DEFINE n == Len(names)
<1>5. /\ names \in Seq(Names) /\ n \in Nat /\ DOMAIN names = 1 .. n
      /\ \A k \in 1 .. n : names[k] \in Names
      /\ \A k, l \in 1 .. n : k < l => names[k] < names[l]
      /\ \A j : j \in Range(names) <=> j \in Names /\ Started(r, i - 1, from, to, j)
      /\ p.headers = [k \in 1 .. n |-> HeaderKnown(r, i - 1, from, to, names[k])]
  <2>1. names \in Seq(Names)
    BY <1>1 DEF ExactBy
  <2>2. n \in Nat /\ DOMAIN names = 1 .. n /\ \A k \in 1 .. n : names[k] \in Names
    <3> HIDE DEF Names
    <3> QED BY <2>1
  <2>3. \A k, l \in 1 .. n : k < l => names[k] < names[l]
    BY <1>1, <2>2, Zenon DEF ExactBy, InOrder
  <2>4. p.headers = [k \in 1 .. n |-> HeaderKnown(r, i - 1, from, to, names[k])]
    BY <1>1, <2>2, Zenon DEF ExactBy
  <2>5. \A j : j \in Range(names) <=> j \in Names /\ Started(r, i - 1, from, to, j)
    BY <1>1 DEF ExactBy
  <2> QED BY <2>1, <2>2, <2>3, <2>4, <2>5
<1> HIDE DEF text, q, n
<1>6. \A j \in Names : /\ j \in DOMAIN r.spans /\ j + 1 \in DOMAIN r.spans /\ j \in Nat
                       /\ r.spans[j].kind = "name" /\ r.spans[j + 1].kind = "value"
  BY NameSpan
<1>7. /\ \A j \in DOMAIN r.spans : j # i =>
            (Started(r, i, from, to, j) <=> Started(r, i - 1, from, to, j))
      /\ span.kind # "body" /\ ~IsGiven(span, from, to) =>
            (Started(r, i, from, to, i) <=> Started(r, i - 1, from, to, i))
      /\ IsGiven(span, from, to) => Started(r, i, from, to, i)
  BY StartedNext
<1>8. CASE ~(span.kind \in {"name", "value"} /\ IsGiven(span, from, to))
  <2>1. q.headers = p.headers
    <3>1. CASE ~IsGiven(span, from, to)
      BY <1>4, <3>1, Zenon
    <3>2. CASE IsGiven(span, from, to) /\ span.kind = "status"
      <4>1. q = OnStatus(p, r.code)
        BY <1>4, <3>2, Zenon DEF Callback
      <4> QED BY <1>2, <1>3, <4>1, CallbackEffect
    <3>3. CASE IsGiven(span, from, to) /\ span.kind = "body"
      <4>1. q = OnBody(p, text)
        BY <1>4, <3>3, Zenon DEF Callback
      <4> QED BY <1>2, <1>3, <4>1, CallbackEffect
    <3> QED BY <1>2, <1>8, <3>1, <3>2, <3>3 DEF SpanKinds
  <2>2. \A j \in DOMAIN r.spans : r.spans[j].kind \in {"name", "value"} =>
            (Started(r, i, from, to, j) <=> Started(r, i - 1, from, to, j))
    BY <1>7, <1>8
  <2>3. \A j \in Names : /\ Started(r, i, from, to, j) <=> Started(r, i - 1, from, to, j)
                         /\ Started(r, i, from, to, j + 1) <=> Started(r, i - 1, from, to, j + 1)
    BY <1>6, <2>2
  <2>4. \A j \in Names : HeaderKnown(r, i, from, to, j) = HeaderKnown(r, i - 1, from, to, j)
    BY <2>3, Zenon DEF HeaderKnown
  <2>5. p.headers = [k \in 1 .. n |-> HeaderKnown(r, i, from, to, names[k])]
    BY <1>5, <2>4, Zenon
  <2>6. Range(names) = {j \in Names : Started(r, i, from, to, j)}
    BY <1>5, <2>3
  <2>7. InOrder(names)
    BY <1>1 DEF ExactBy
  <2>8. ExactBy(names, q.headers, r, i, from, to)
    BY <1>5, <2>1, <2>5, <2>6, <2>7, Zenon DEF ExactBy
  <2> QED BY <2>8, Zenon DEF Exact, q
<1>9. CASE span.kind = "name" /\ IsGiven(span, from, to)
  <2> DEFINE more == Append(names, i)
             x == [name |-> text, value |-> <<>>]
  <2>1. from < span.first /\ text = TextOf(span)
    BY <1>9, GivenInFull DEF text
  <2>2. i \in Names
    BY <1>9 DEF SpansOf
  <2>3. q.headers = Append(p.headers, x)
    <3>1. q = OnHeaderField(p, text)
      BY <1>4, <1>9, Zenon DEF Callback
    <3> QED BY <1>2, <1>3, <3>1, CallbackEffect
  <2>4. /\ more \in Seq(Names) /\ DOMAIN more = 1 .. n + 1 /\ more[n + 1] = i
        /\ \A k \in 1 .. n : more[k] = names[k]
    <3> HIDE DEF Names
    <3> QED BY <1>5, <2>2 DEF n
  <2>5. \A k \in 1 .. n : names[k] \in Range(names)
    BY <1>5, Zenon DEF Range
  <2>6. \A j \in Names : Started(r, i - 1, from, to, j) => j < i
    BY <1>6, <2>1, StartedBefore
  <2>7. \A k \in 1 .. n : names[k] < i /\ names[k] \in Nat
    BY <1>5, <1>6, <2>5, <2>6
  <2> HIDE DEF more
  <2>8. InOrder(more)
    <3>1. ASSUME NEW k \in 1 .. n + 1, NEW l \in 1 .. n + 1, k < l PROVE more[k] < more[l]
      <4>1. CASE l \in 1 .. n
        <5>1. k \in 1 .. n
          BY <1>5, <3>1, <4>1
        <5> QED BY <1>5, <2>4, <3>1, <4>1, <5>1
      <4>2. CASE l = n + 1
        <5>1. k \in 1 .. n
          BY <1>5, <3>1, <4>2
        <5> QED BY <2>4, <2>7, <4>2, <5>1
      <4> QED BY <1>5, <4>1, <4>2
    <3> QED BY <2>4, <3>1 DEF InOrder
  <2>9. Range(more) = {j \in Names : Started(r, i, from, to, j)}
    <3>1. \A j : j \in Range(more) <=> j \in Range(names) \/ j = i
      <4>1. ASSUME NEW j \in Range(more) PROVE j \in Range(names) \/ j = i
        <5>1. PICK k \in 1 .. n + 1 : j = more[k]
          BY <2>4 DEF Range
        <5>2. CASE k \in 1 .. n
          BY <2>4, <2>5, <5>1, <5>2
        <5>3. CASE k = n + 1
          BY <2>4, <5>1, <5>3
        <5> QED BY <1>5, <5>2, <5>3
      <4>2. ASSUME NEW j \in Range(names) PROVE j \in Range(more)
        <5>1. PICK k \in 1 .. n : j = names[k]
          BY <1>5 DEF Range
        <5>2. more[k] = j /\ k \in DOMAIN more
          BY <1>5, <2>4, <5>1
        <5> QED BY <5>2, Zenon DEF Range
      <4>3. i \in Range(more)
        <5>1. n + 1 \in DOMAIN more
          BY <1>5, <2>4
        <5> QED BY <2>4, <5>1 DEF Range
      <4> QED BY <4>1, <4>2, <4>3
    <3>2. \A j \in Names : Started(r, i, from, to, j) <=> Started(r, i - 1, from, to, j) \/ j = i
      BY <1>6, <1>7, <1>9
    <3> QED BY <1>5, <2>2, <3>1, <3>2
  <2>10. ~Started(r, i, from, to, i + 1)
    <3>1. i + 1 \in DOMAIN r.spans
      BY <1>6, <2>2
    <3>2. span.last < r.spans[i + 1].first /\ r.spans[i + 1].first \in Nat /\ span.first <= span.last
      BY <1>2, <3>1, SpanTyped
    <3>3. Known(i, from, to, i + 1) = from
      BY <1>2 DEF Known
    <3>4. span.first \in Nat /\ span.last \in Nat
      BY <1>2
    <3>5. from < r.spans[i + 1].first
      BY <2>1, <3>2, <3>4
    <3>6. ~(r.spans[i + 1].first <= from)
      BY <3>2, <3>5
    <3> QED BY <3>3, <3>6, Zenon DEF Started
  <2>11. HeaderKnown(r, i, from, to, i) = x
    BY <2>1, <2>10, Zenon DEF HeaderKnown
  <2>12. \A k \in 1 .. n : HeaderKnown(r, i, from, to, names[k]) = HeaderKnown(r, i - 1, from, to, names[k])
    <3>1. ASSUME NEW k \in 1 .. n
          PROVE  Started(r, i, from, to, names[k] + 1) <=> Started(r, i - 1, from, to, names[k] + 1)
      <4>1. names[k] + 1 \in DOMAIN r.spans /\ r.spans[names[k] + 1].kind = "value"
        BY <1>5, <1>6
      <4>2. names[k] + 1 # i
        BY <1>9, <4>1
      <4> QED BY <1>7, <4>1, <4>2
    <3> QED BY <3>1, Zenon DEF HeaderKnown
  <2>13. q.headers = [k \in 1 .. n + 1 |-> HeaderKnown(r, i, from, to, more[k])]
    <3> DEFINE g == Append(p.headers, x)
    <3>1. Len(p.headers) = n /\ \A k \in 1 .. n : p.headers[k] = HeaderKnown(r, i - 1, from, to, names[k])
      BY <1>5
    <3>2. /\ g = [k \in 1 .. n + 1 |-> g[k]] /\ g[n + 1] = x
          /\ \A k \in 1 .. n : g[k] = p.headers[k]
      <4>1. PICK H : p.headers \in Seq(H)
        BY DEF Parsers
      <4> HIDE DEF x
      <4> QED BY <1>5, <3>1, <4>1
    <3> HIDE DEF g, x
    <3>3. ASSUME NEW k \in 1 .. n + 1 PROVE g[k] = HeaderKnown(r, i, from, to, more[k])
      <4>1. CASE k \in 1 .. n
        BY <2>4, <2>12, <3>1, <3>2, <4>1
      <4>2. CASE k = n + 1
        BY <2>4, <2>11, <3>2, <4>2
      <4> QED BY <1>5, <4>1, <4>2
    <3>4. g = [k \in 1 .. n + 1 |-> HeaderKnown(r, i, from, to, more[k])]
      BY <3>2, <3>3, Zenon
    <3> QED BY <2>3, <3>4 DEF g, x
  <2>14. ExactBy(more, q.headers, r, i, from, to)
    BY <2>4, <2>8, <2>9, <2>13, Zenon DEF ExactBy
  <2> QED BY <2>14, Zenon DEF Exact, q
<1>10. CASE span.kind = "value" /\ IsGiven(span, from, to)
  <2>1. from < span.first /\ text = TextOf(span)
    BY <1>10, GivenInFull DEF text
  <2>2. i - 1 \in Names /\ Started(r, i - 1, from, to, i - 1)
    <3>1. i > 1 /\ r.spans[i - 1].kind = "name"
      BY <1>10 DEF IsResponse
    <3>2. i - 1 \in DOMAIN r.spans
      BY <1>2, <3>1
    <3>3. r.spans[i - 1].last < span.first
      BY <1>2, <3>2, SpanTyped
    <3>4. r.spans[i - 1].first <= r.spans[i - 1].last
          /\ r.spans[i - 1].first \in Nat /\ r.spans[i - 1].last \in Nat
      BY <3>2, SpanTyped
    <3>5. span.first <= to
      BY <1>10 DEF IsGiven
    <3> QED BY <1>2, <3>1, <3>2, <3>3, <3>4, <3>5 DEF SpansOf, Started, Known
  <2>3. \A j \in Names : Started(r, i - 1, from, to, j) => j < i
    BY <1>6, <2>1, StartedBefore
  <2>4. \A k \in 1 .. n : names[k] \in Range(names)
    BY <1>5, Zenon DEF Range
  <2>5. \A k \in 1 .. n : names[k] < i /\ names[k] \in Nat
    BY <1>5, <1>6, <2>3, <2>4
  <2>6. n \in 1 .. n /\ names[n] = i - 1
    <3>1. PICK k \in 1 .. n : names[k] = i - 1
      <4>1. i - 1 \in Range(names)
        BY <1>5, <2>2
      <4> QED BY <1>5, <4>1 DEF Range
    <3>2. k = n
      <4>1. SUFFICES ASSUME k < n PROVE FALSE
        BY <1>5, <3>1
      <4>2. names[k] < names[n] /\ n \in 1 .. n
        BY <1>5, <3>1, <4>1
      <4> QED BY <1>2, <2>5, <3>1, <4>2
    <3> QED BY <3>1, <3>2
  <2>7. \A k \in 1 .. n : k # n => names[k] + 1 # i
    <3>1. ASSUME NEW k \in 1 .. n, k # n PROVE names[k] + 1 # i
      <4>1. k < n
        BY <1>5, <3>1
      <4>2. names[k] < names[n]
        BY <1>5, <2>6, <4>1
      <4>3. names[k] < i - 1 /\ names[k] \in Nat
        BY <2>5, <2>6, <4>2
      <4> QED BY <1>2, <4>3
    <3> QED BY <3>1
  <2>8. \A j \in Names : Started(r, i, from, to, j) <=> Started(r, i - 1, from, to, j)
    BY <1>6, <1>7, <1>10
  <2>9. \A k \in 1 .. n : k # n =>
            HeaderKnown(r, i, from, to, names[k]) = HeaderKnown(r, i - 1, from, to, names[k])
    <3>1. ASSUME NEW k \in 1 .. n, k # n
          PROVE  Started(r, i, from, to, names[k] + 1) <=> Started(r, i - 1, from, to, names[k] + 1)
      <4>1. names[k] + 1 \in DOMAIN r.spans
        BY <1>5, <1>6
      <4> QED BY <1>7, <2>7, <3>1, <4>1
    <3> QED BY <3>1, Zenon DEF HeaderKnown
  <2>10. HeaderKnown(r, i, from, to, i - 1)
           = [HeaderKnown(r, i - 1, from, to, i - 1) EXCEPT !.value = text]
    <3>1. Started(r, i, from, to, i) /\ (i - 1) + 1 = i
      BY <1>2, <1>7, <1>10
    <3> QED BY <2>1, <3>1 DEF HeaderKnown
  <2>11. q.headers = [p.headers EXCEPT ![n].value = text]
    <3>1. q = OnHeaderValue(p, text)
      BY <1>4, <1>10, Zenon DEF Callback
    <3>2. Len(p.headers) = n
      BY <1>5
    <3> QED BY <3>1, <3>2 DEF OnHeaderValue, Parsers
  <2>12. q.headers = [k \in 1 .. n |-> HeaderKnown(r, i, from, to, names[k])]
    <3> DEFINE g == [p.headers EXCEPT ![n].value = text]
    <3>1. DOMAIN p.headers = 1 .. n
          /\ \A k \in 1 .. n : p.headers[k] = HeaderKnown(r, i - 1, from, to, names[k])
      BY <1>5
    <3>2. /\ g = [k \in 1 .. n |-> g[k]] /\ g[n] = [p.headers[n] EXCEPT !.value = text]
          /\ \A k \in 1 .. n : k # n => g[k] = p.headers[k]
      BY <2>6, <3>1
    <3> HIDE DEF g
    <3>3. ASSUME NEW k \in 1 .. n PROVE g[k] = HeaderKnown(r, i, from, to, names[k])
      <4>1. CASE k = n
        BY <2>6, <2>10, <3>1, <3>2, <4>1, Zenon
      <4>2. CASE k # n
        BY <2>9, <3>1, <3>2, <4>2, Zenon
      <4> QED BY <4>1, <4>2
    <3>4. g = [k \in 1 .. n |-> HeaderKnown(r, i, from, to, names[k])]
      BY <3>2, <3>3, Zenon
    <3> QED BY <2>11, <3>4 DEF g
  <2>13. Range(names) = {j \in Names : Started(r, i, from, to, j)}
    BY <1>5, <2>8
  <2>14. InOrder(names)
    BY <1>1 DEF ExactBy
  <2>15. ExactBy(names, q.headers, r, i, from, to)
    BY <1>5, <2>12, <2>13, <2>14, Zenon DEF ExactBy
  <2> QED BY <2>15, Zenon DEF Exact, q
<1> QED BY <1>8, <1>9, <1>10

-----------------------------------------------------------------------------
(* An execution.                                                             *)

LEMMA AfterSpansTyped ==
    ASSUME NEW r, IsResponse(r), NEW p \in Parsers, NEW to \in Nat
    PROVE  \A i \in 0 .. Len(r.spans) :
              /\ AfterSpans(p, r, to)[i] \in Parsers
              /\ Keeps(AfterSpans(p, r, to)[i], p)
              /\ AfterSpans(p, r, to)[i].statusCode \in {p.statusCode, r.code}
<1> DEFINE a == AfterSpans(p, r, to)
           n == Len(r.spans)
           Good(i) == a[i] \in Parsers /\ Keeps(a[i], p) /\ a[i].statusCode \in {p.statusCode, r.code}
           S == {i \in Nat : i <= n => Good(i)}
<1>1. n \in Nat /\ DOMAIN r.spans = 1 .. n
  BY DEF IsResponse
<1>2. a[0] = p /\ \A i \in 1 .. n : a[i] = Given(a[i - 1], r, r.spans[i], to)
  BY <1>1, AfterSpansIs
<1> HIDE DEF a, n
<1>3. 0 \in S
  BY <1>2 DEF Keeps
<1>4. ASSUME NEW i \in Nat, i \in S PROVE i + 1 \in S
  <2>1. SUFFICES ASSUME i + 1 <= n PROVE Good(i + 1)
    BY <1>1
  <2>2. Good(i) /\ i + 1 \in DOMAIN r.spans /\ (i + 1) - 1 = i
    BY <1>1, <1>4, <2>1
  <2>3. a[i + 1] = Given(a[i], r, r.spans[i + 1], to)
    BY <1>1, <1>2, <2>2
  <2>4. /\ a[i + 1] \in Parsers /\ Keeps(a[i + 1], a[i])
        /\ a[i + 1].statusCode \in {a[i].statusCode, r.code}
    BY <2>2, <2>3, GivenTyped
  <2> QED BY <2>2, <2>4 DEF Keeps
<1> HIDE DEF S
<1>5. Nat \subseteq S
  BY <1>3, <1>4, NumbersFrom
<1>6. \A i \in 0 .. n : Good(i)
  BY <1>1, <1>5 DEF S
<1> QED BY <1>6 DEF a, n

LEMMA ExecuteIs ==
    ASSUME NEW r, IsResponse(r), NEW p \in Parsers, NEW to \in Nat,
           NEW q, q = AfterSpans(p, r, to)[Len(r.spans)], NEW x, x = Execute(p, r, to)
    PROVE  /\ x \in Parsers /\ x.at = to /\ x.failed = p.failed
           /\ x.isComplete <=> p.isComplete \/ to = r.units
           /\ x.statusCode = q.statusCode /\ x.headers = q.headers /\ x.body = q.body
           /\ x.statusCode \in {p.statusCode, r.code}
<1>1. Len(r.spans) \in 0 .. Len(r.spans)
  BY DEF IsResponse
<1>2. q \in Parsers /\ Keeps(q, p) /\ q.statusCode \in {p.statusCode, r.code}
  BY <1>1, AfterSpansTyped
<1> DEFINE g == [q EXCEPT !.at = to]
<1>3. /\ g \in Parsers /\ g.at = to /\ g.failed = q.failed /\ g.isComplete = q.isComplete
      /\ g.statusCode = q.statusCode /\ g.headers = q.headers /\ g.body = q.body
  BY <1>2 DEF Parsers
<1>4. x = IF to = r.units THEN OnMessageComplete(g) ELSE g
  BY Zenon DEF Execute
<1> HIDE DEF g
<1>5. CASE to = r.units
  <2>1. x = [g EXCEPT !.isComplete = TRUE]
    BY <1>4, <1>5 DEF OnMessageComplete
  <2>2. /\ x \in Parsers /\ x.at = g.at /\ x.failed = g.failed /\ x.isComplete = TRUE
        /\ x.statusCode = g.statusCode /\ x.headers = g.headers /\ x.body = g.body
    BY <1>3, <2>1 DEF Parsers
  <2> QED BY <1>2, <1>3, <1>5, <2>2, Zenon DEF Keeps
<1>6. CASE to # r.units
  <2>1. x = g
    BY <1>4, <1>6, Zenon
  <2> QED BY <1>2, <1>3, <1>6, <2>1, Zenon DEF Keeps
<1> QED BY <1>5, <1>6

(* A parser that was given a response up to `from` holds that part of it.     *)
LEMMA SameKnown ==
    ASSUME NEW r, IsResponse(r), NEW i, NEW from, NEW to, NEW k, NEW at,
           \A j \in DOMAIN r.spans : Known(i, from, to, j) = Known(k, at, at, j)
    PROVE  /\ \A kind : HeldOf(r, kind, i, from, to) = HeldOf(r, kind, k, at, at)
           /\ \A j \in DOMAIN r.spans : Started(r, i, from, to, j) <=> Started(r, k, at, at, j)
           /\ \A headers : Exact(headers, r, i, from, to) <=> Exact(headers, r, k, at, at)
<1>1. \A kind : \A j \in SpansOf(r, kind) : j \in DOMAIN r.spans
  BY DEF SpansOf
<1>2. ASSUME NEW kind PROVE HeldOf(r, kind, i, from, to) = HeldOf(r, kind, k, at, at)
  <2>1. \A j \in SpansOf(r, kind) : Known(i, from, to, j) = Known(k, at, at, j)
    BY <1>1
  <2>2. ASSUME NEW u PROVE u \in HeldOf(r, kind, i, from, to) <=> u \in HeldOf(r, kind, k, at, at)
    BY <2>1, Zenon DEF HeldOf
  <2> QED BY <2>2
<1>3. \A j \in DOMAIN r.spans : Started(r, i, from, to, j) <=> Started(r, k, at, at, j)
  BY Zenon DEF Started
<1>4. \A j \in SpansOf(r, "name") : HeaderKnown(r, i, from, to, j) = HeaderKnown(r, k, at, at, j)
  <2>1. ASSUME NEW j \in SpansOf(r, "name")
        PROVE  Started(r, i, from, to, j + 1) <=> Started(r, k, at, at, j + 1)
    <3>1. j + 1 \in DOMAIN r.spans
      BY NameSpan
    <3> QED BY <1>3, <3>1, Zenon
  <2> QED BY <2>1, Zenon DEF HeaderKnown
<1>5. ASSUME NEW headers, NEW names
      PROVE  ExactBy(names, headers, r, i, from, to) <=> ExactBy(names, headers, r, k, at, at)
  <2>1. SUFFICES ASSUME names \in Seq(SpansOf(r, "name"))
                 PROVE  ExactBy(names, headers, r, i, from, to)
                          <=> ExactBy(names, headers, r, k, at, at)
    BY DEF ExactBy
  <2>2. \A l \in DOMAIN names : names[l] \in SpansOf(r, "name")
    <3>1. PICK S : S = SpansOf(r, "name")
      OBVIOUS
    <3> QED BY <2>1, <3>1
  <2>3. [l \in DOMAIN names |-> HeaderKnown(r, i, from, to, names[l])]
           = [l \in DOMAIN names |-> HeaderKnown(r, k, at, at, names[l])]
    BY <1>4, <2>2, Zenon
  <2>4. {j \in SpansOf(r, "name") : Started(r, i, from, to, j)}
           = {j \in SpansOf(r, "name") : Started(r, k, at, at, j)}
    BY <1>1, <1>3, Zenon
  <2> QED BY <2>3, <2>4, Zenon DEF ExactBy
<1>6. \A headers : Exact(headers, r, i, from, to) <=> Exact(headers, r, k, at, at)
  BY <1>5, Zenon DEF Exact
<1> QED BY <1>2, <1>3, <1>6

(* The parser after data that ends behind unit p.at.                         *)
Holds(p, r) == Parsed(p, r, 0, p.at, p.at)
HoldsExactly(p, r) == ~CutsHeader(r, p.at) /\ Exact(p.headers, r, 0, p.at, p.at)

LEMMA ExecuteHolds ==
    ASSUME NEW r, IsResponse(r), NEW p, Holds(p, r), NEW to \in Nat, p.at <= to,
           NEW x, x = Execute(p, r, to)
    PROVE  /\ Holds(x, r) /\ x.at = to
           /\ HoldsExactly(p, r) /\ ~CutsHeader(r, to) => HoldsExactly(x, r)
<1> DEFINE a == AfterSpans(p, r, to)
           n == Len(r.spans)
           from == p.at
           Exactly == HoldsExactly(p, r) /\ ~CutsHeader(r, to)
           Good(i) == /\ Parsed(a[i], r, i, from, to)
                      /\ Exactly => Exact(a[i].headers, r, i, from, to)
           S == {i \in Nat : i <= n => Good(i)}
<1>1. n \in Nat /\ DOMAIN r.spans = 1 .. n
  BY DEF IsResponse
<1>2. a[0] = p /\ \A i \in 1 .. n : a[i] = Given(a[i - 1], r, r.spans[i], to)
  BY <1>1, AfterSpansIs
<1>3. p \in Parsers /\ from \in Nat
  BY DEF Holds, Parsed, Parsers
<1> HIDE DEF n
<1>4. 0 \in S
  <2>1. \A j \in DOMAIN r.spans : Known(0, from, to, j) = Known(0, from, from, j)
    BY <1>1 DEF Known
  <2>2. /\ \A kind : HeldOf(r, kind, 0, from, to) = HeldOf(r, kind, 0, from, from)
        /\ \A j \in DOMAIN r.spans : Started(r, 0, from, to, j) <=> Started(r, 0, from, from, j)
        /\ \A headers : Exact(headers, r, 0, from, to) <=> Exact(headers, r, 0, from, from)
    BY <2>1, SameKnown
  <2>3. \A j \in SpansOf(r, "status") : j \in DOMAIN r.spans
    BY DEF SpansOf
  <2>4. Parsed(p, r, 0, from, to)
    BY <2>2, <2>3, Zenon DEF Holds, Parsed
  <2>5. Exactly => Exact(p.headers, r, 0, from, to)
    BY <2>2, Zenon DEF HoldsExactly
  <2> QED BY <1>2, <2>4, <2>5
<1> HIDE DEF a
<1>5. ASSUME NEW i \in Nat, i \in S PROVE i + 1 \in S
  <2>1. SUFFICES ASSUME i + 1 <= n PROVE Good(i + 1)
    BY <1>1
  <2>2. Good(i) /\ i + 1 \in DOMAIN r.spans /\ (i + 1) - 1 = i
    BY <1>1, <1>5, <2>1
  <2>3. a[i + 1] = Given(a[i], r, r.spans[i + 1], to)
    BY <1>1, <1>2, <2>2
  <2>4. Parsed(a[i + 1], r, i + 1, from, to)
    BY <1>3, <2>2, <2>3, ParsedNext
  <2>5. ASSUME Exactly PROVE Exact(a[i + 1].headers, r, i + 1, from, to)
    <3>1. a[i] \in Parsers /\ a[i].at = from
      BY <2>2, Zenon DEF Parsed
    <3>2. ~CutsHeader(r, from) /\ ~CutsHeader(r, to)
      BY <2>5, Zenon DEF HoldsExactly
    <3>3. Exact(a[i].headers, r, (i + 1) - 1, from, to)
      BY <2>2, <2>5
    <3> QED BY <1>3, <2>2, <2>3, <3>1, <3>2, <3>3, ExactNext
  <2> QED BY <2>4, <2>5
<1> HIDE DEF S
<1>6. Nat \subseteq S
  BY <1>4, <1>5, NumbersFrom
<1>7. Good(n)
  BY <1>1, <1>6 DEF S
<1>8. /\ x \in Parsers /\ x.at = to /\ x.statusCode = a[n].statusCode
      /\ x.headers = a[n].headers /\ x.body = a[n].body
  BY <1>3, ExecuteIs DEF a, n
<1>9. \A j \in DOMAIN r.spans : Known(n, from, to, j) = Known(0, to, to, j)
  BY <1>1 DEF Known
<1>10. /\ \A kind : HeldOf(r, kind, n, from, to) = HeldOf(r, kind, 0, to, to)
       /\ \A j \in DOMAIN r.spans : Started(r, n, from, to, j) <=> Started(r, 0, to, to, j)
       /\ \A headers : Exact(headers, r, n, from, to) <=> Exact(headers, r, 0, to, to)
  BY <1>9, SameKnown
<1>11. \A j \in SpansOf(r, "status") : j \in DOMAIN r.spans
  BY DEF SpansOf
<1>12. Holds(x, r)
  BY <1>7, <1>8, <1>10, <1>11, Zenon DEF Holds, Parsed
<1>13. Exactly => HoldsExactly(x, r)
  BY <1>7, <1>8, <1>10, Zenon DEF HoldsExactly
<1> QED BY <1>8, <1>12, <1>13

(* A new parser, and one that was given all of a response.                   *)
LEMMA NewHolds ==
    ASSUME NEW r, IsResponse(r)
    PROVE  Holds(NewParser, r) /\ HoldsExactly(NewParser, r)
<1> DEFINE p == NewParser
<1>1. p \in Parsers /\ p.at = 0 /\ p.statusCode = 0 /\ p.headers = <<>> /\ p.body = <<>>
  BY DEF NewParser, Parsers
<1> HIDE DEF p
<1>2. \A j \in DOMAIN r.spans : r.spans[j].first \in Nat \ {0} /\ r.spans[j].last \in Nat
  BY SpanTyped
<1>3. \A j \in DOMAIN r.spans : ~Started(r, 0, 0, 0, j)
  BY <1>2 DEF Started, Known
<1>4. \A kind : HeldOf(r, kind, 0, 0, 0) = {}
  BY <1>2 DEF HeldOf, Known, SpansOf
<1>5. \A kind : \A j \in SpansOf(r, kind) : j \in DOMAIN r.spans
  BY DEF SpansOf
<1>6. IsWhole(<<<<>>>>, {})
  BY DEF IsWhole, Range
<1>7. NamesOf(<<>>) = <<>> /\ IsWhole(<<>>, {})
  BY DEF NamesOf, IsWhole, Range
<1>8. Parsed(p, r, 0, 0, 0)
  BY <1>1, <1>3, <1>4, <1>5, <1>6, <1>7, Zenon DEF Parsed
<1>9. ~CutsHeader(r, 0)
  BY <1>2 DEF CutsHeader
<1>10. ExactBy(<<>>, <<>>, r, 0, 0, 0)
  <2>1. InOrder(<<>>) /\ Range(<<>>) = {} /\ <<>> \in Seq(SpansOf(r, "name"))
    BY DEF InOrder, Range
  <2>2. {j \in SpansOf(r, "name") : Started(r, 0, 0, 0, j)} = {}
    BY <1>3, <1>5, Zenon
  <2>3. <<>> = [k \in DOMAIN <<>> |-> HeaderKnown(r, 0, 0, 0, <<>>[k])]
    OBVIOUS
  <2> QED BY <2>1, <2>2, <2>3, Zenon DEF ExactBy
<1> QED BY <1>1, <1>8, <1>9, <1>10, Zenon DEF Holds, HoldsExactly, Exact, p

LEMMA WholeIsHeld ==
    ASSUME NEW r, IsResponse(r), NEW p, Holds(p, r), p.at = r.units
    PROVE  /\ p.statusCode = CodeOf(r)
           /\ IsWhole(<<p.body>>, Places(r, "body"))
           /\ IsWhole(NamesOf(p.headers), Places(r, "name"))
           /\ HoldsExactly(p, r) => Range(p.headers) = HeadersOf(r)
<1> DEFINE at == r.units
<1>1. /\ \A j \in DOMAIN r.spans : /\ r.spans[j].first \in Nat /\ r.spans[j].last \in Nat
                                   /\ r.spans[j].first <= r.spans[j].last
                                   /\ r.spans[j].last <= at
      /\ \A kind : \A j \in SpansOf(r, kind) : j \in DOMAIN r.spans
      /\ at \in Nat
  <2>1. at \in Nat
    BY DEF IsResponse
  <2> QED BY <2>1, SpanTyped DEF SpansOf
<1>2. \A j \in DOMAIN r.spans : Started(r, 0, at, at, j)
  BY <1>1 DEF Started, Known
<1>3. \A kind : HeldOf(r, kind, 0, at, at) = Places(r, kind)
  <2>1. ASSUME NEW kind, NEW u \in Places(r, kind) PROVE u \in HeldOf(r, kind, 0, at, at)
    <3>1. PICK j \in SpansOf(r, kind) : u \in r.spans[j].first .. r.spans[j].last
      BY DEF Places
    <3>2. u \in Nat /\ u <= Known(0, at, at, j)
      BY <1>1, <3>1 DEF Known
    <3> QED BY <3>1, <3>2 DEF HeldOf
  <2>2. ASSUME NEW kind, NEW u \in HeldOf(r, kind, 0, at, at) PROVE u \in Places(r, kind)
    BY DEF HeldOf, Places
  <2> HIDE DEF at
  <2>3. ASSUME NEW kind PROVE HeldOf(r, kind, 0, at, at) = Places(r, kind)
    <3>1. \A u \in Places(r, kind) : u \in HeldOf(r, kind, 0, at, at)
      BY <2>1
    <3>2. \A u \in HeldOf(r, kind, 0, at, at) : u \in Places(r, kind)
      BY <2>2
    <3> QED BY <3>1, <3>2
  <2> QED BY <2>3
<1>4. p.statusCode = CodeOf(r)
  BY <1>1, <1>2, Zenon DEF Holds, Parsed, CodeOf
<1>5. IsWhole(<<p.body>>, Places(r, "body")) /\ IsWhole(NamesOf(p.headers), Places(r, "name"))
  BY <1>3, Zenon DEF Holds, Parsed
<1>6. ASSUME HoldsExactly(p, r) PROVE Range(p.headers) = HeadersOf(r)
  <2>1. PICK names : ExactBy(names, p.headers, r, 0, at, at)
    BY <1>6, Zenon DEF HoldsExactly, Exact
  <2>2. \A j \in SpansOf(r, "name") : j \in DOMAIN r.spans /\ j + 1 \in DOMAIN r.spans
    BY NameSpan
  <2>3. Range(names) = SpansOf(r, "name")
    BY <1>2, <2>1, <2>2, Zenon DEF ExactBy
  <2>4. \A j \in SpansOf(r, "name") : HeaderKnown(r, 0, at, at, j)
           = [name |-> TextOf(r.spans[j]), value |-> TextOf(r.spans[j + 1])]
    BY <1>2, <2>2, Zenon DEF HeaderKnown
  <2>5. p.headers = [k \in DOMAIN names |-> HeaderKnown(r, 0, at, at, names[k])]
    BY <2>1, Zenon DEF ExactBy
  <2>6. \A k \in DOMAIN names : names[k] \in SpansOf(r, "name")
    BY <2>3, Zenon DEF Range
  <2>7. DOMAIN p.headers = DOMAIN names /\ \A k \in DOMAIN names :
           p.headers[k] = [name |-> TextOf(r.spans[names[k]]), value |-> TextOf(r.spans[names[k] + 1])]
    BY <2>4, <2>5, <2>6, Zenon
  <2>8. ASSUME NEW h \in Range(p.headers) PROVE h \in HeadersOf(r)
    BY <2>6, <2>7, Zenon DEF Range, HeadersOf
  <2>9. ASSUME NEW h \in HeadersOf(r) PROVE h \in Range(p.headers)
    <3>1. PICK j \in SpansOf(r, "name") :
              h = [name |-> TextOf(r.spans[j]), value |-> TextOf(r.spans[j + 1])]
      BY Zenon DEF HeadersOf
    <3>2. PICK k \in DOMAIN names : names[k] = j
      BY <2>3, Zenon DEF Range
    <3> QED BY <2>7, <3>1, <3>2, Zenon DEF Range
  <2> QED BY <2>8, <2>9
<1> QED BY <1>4, <1>5, <1>6
=============================================================================
