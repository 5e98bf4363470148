-------------------------- MODULE HttpClientProofs --------------------------
(***************************************************************************)
(* Proofs about HttpClient, for any number of get() calls, any responses and *)
(* any way to cut them: what the pending flag says, which timeouts are       *)
(* published, who speaks, and that a response is given out as it was sent.   *)
(*                                                                           *)
(* Each step of the specification has one of five effects on what these      *)
(* properties see: none, an error that is published, the response of the     *)
(* current get(), a get() of the user, a get() from the response listener.   *)
(* The invariant is kept by the effects; the steps are shown to have them.   *)
(* That of the response is kept by the executions of the parser, about which *)
(* HttpResponseParserProofs says what is needed.                             *)
(***************************************************************************)
EXTENDS HttpClient, HttpResponseParserProofs

Entry == [kind : {"response", "error", "timeout"}, get : Nat]
EventsOf(p) == {p[i] : i \in 1 .. Len(p)}
Events == EventsOf(published)
New(kind, get) == [kind |-> kind, get |-> get]

Shape ==
    /\ gets \in Nat /\ pending \in BOOLEAN
    /\ forget \subseteq 1 .. gets /\ nested \subseteq 1 .. gets
    /\ published \in Seq(Entry)
    /\ listening \in [Sessions -> BOOLEAN]

(* Only the current session has listeners, and nothing is published about a  *)
(* get() that was not made yet; a timeout is about one that was replaced.    *)
OnlyCurrentListens == \A s \in Sessions : listening[s] => s = gets
EventsOfThePast ==
    \A e \in Events : e.get <= gets /\ (e.kind = "timeout" => e.get < gets)

(* A flag that is set never lies, not even after a get() from a listener.    *)
PendingIsTrue == pending => gets > 0 /\ New("response", gets) \notin Events

(* The properties, of the set of events.                                     *)
Unanswered ==
    gets \in nested
    \/ (pending <=> gets > 0 /\ gets \notin forget /\ New("response", gets) \notin Events)
TimeoutsHeld ==
    \A g \in Nat : New("timeout", g) \in Events =>
        g + 1 \in nested \/ New("response", g) \notin Events
Told ==
    \A g \in 1 .. gets - 1 :
        g \in forget \cup nested \/ New("response", g) \in Events \/ New("timeout", g) \in Events

IInv ==
    /\ Shape /\ OnlyCurrentListens /\ EventsOfThePast /\ PendingIsTrue
    /\ Unanswered /\ TimeoutsHeld /\ Told

-----------------------------------------------------------------------------
(* What is published, as a set.                                              *)

LEMMA Appended ==
    ASSUME NEW p \in Seq(Entry), NEW e \in Entry, NEW q, q = p \o <<e>>
    PROVE  /\ q \in Seq(Entry) /\ Len(q) = Len(p) + 1
           /\ \A i \in 1 .. Len(p) : q[i] = p[i]
           /\ q[Len(p) + 1] = e
           /\ EventsOf(q) = EventsOf(p) \cup {e}
<1>1. /\ q \in Seq(Entry) /\ Len(q) = Len(p) + 1
      /\ \A i \in 1 .. Len(p) : q[i] = p[i]
      /\ q[Len(p) + 1] = e
  OBVIOUS
<1>2. 1 .. Len(q) = (1 .. Len(p)) \cup {Len(p) + 1}
  BY <1>1
<1>3. EventsOf(q) = EventsOf(p) \cup {e}
  <2>1. \A i \in 1 .. Len(q) : q[i] \in EventsOf(p) \cup {e}
    BY <1>1, <1>2, Zenon DEF EventsOf
  <2>2. \A i \in 1 .. Len(p) : p[i] \in EventsOf(q)
    BY <1>1, <1>2, Zenon DEF EventsOf
  <2>3. e \in EventsOf(q)
    BY <1>1, <1>2, Zenon DEF EventsOf
  <2> QED BY <2>1, <2>2, <2>3, Zenon DEF EventsOf
<1> QED BY <1>1, <1>3, Zenon

LEMMA HeardIsEvent ==
    ASSUME NEW kind, NEW get
    PROVE  Heard(kind, get) <=> New(kind, get) \in Events
BY Zenon DEF Heard, New, Events, EventsOf

-----------------------------------------------------------------------------
(* The effects, and that each keeps the invariant.                           *)

SpeaksOfCurrent ==
    \A i \in Len(published) + 1 .. Len(published') : published'[i].get \in {0, gets}
Kept ==
    /\ published' \in Seq(Entry)
    /\ listening' \in [Sessions -> BOOLEAN]
    /\ OnlyCurrentListens'
    /\ SpeaksOfCurrent
TimeoutEvents == IF pending THEN {New("timeout", gets)} ELSE {}
ForgetAfter(f) == IF f THEN forget \cup {gets + 1} ELSE forget

Says(events) ==
    UNCHANGED <<gets, forget, nested, pending>> /\ Events' = Events \cup events
SaysError == \E g \in 0 .. gets : Says({New("error", g)})
SaysResponse ==
    /\ UNCHANGED <<gets, forget, nested>> /\ gets > 0 /\ pending' = FALSE
    /\ Events' = Events \cup {New("response", gets)}
GetsNext(f) ==
    /\ gets' = gets + 1 /\ forget' = ForgetAfter(f) /\ nested' = nested
    /\ pending' = ~f
    /\ Events' = Events \cup TimeoutEvents
GetsInListener(f) ==
    /\ gets > 0 /\ gets' = gets + 1
    /\ forget' = ForgetAfter(f) /\ nested' = nested \cup {gets + 1}
    /\ pending' \in BOOLEAN
    /\ Events' = Events \cup {New("response", gets)} \cup TimeoutEvents

LEMMA NewIsEntry ==
    /\ \A kind, get : New(kind, get).kind = kind /\ New(kind, get).get = get
    /\ \A kind \in {"response", "error", "timeout"}, get \in Nat : New(kind, get) \in Entry
BY DEF New, Entry

LEMMA NewAreDistinct ==
    /\ \A g, h : /\ New("response", g) # New("error", h)
                 /\ New("response", g) # New("timeout", h)
                 /\ New("error", g) # New("timeout", h)
    /\ \A g, h : /\ New("response", g) = New("response", h) => g = h
                 /\ New("timeout", g) = New("timeout", h) => g = h
BY DEF New

(* Old events stay what they are while gets grows.                           *)
LEMMA PastStays ==
    ASSUME IInv, gets' \in Nat, gets <= gets', NEW e \in Events
    PROVE  e.get <= gets' /\ (e.kind = "timeout" => e.get < gets')
<1>1. e.get <= gets /\ (e.kind = "timeout" => e.get < gets)
  BY Zenon DEF IInv, EventsOfThePast
<1>2. e.get \in Nat
  <2>1. PICK i \in 1 .. Len(published) : e = published[i]
    BY Zenon DEF Events, EventsOf
  <2>2. published \in Seq(Entry)
    BY DEF IInv, Shape
  <2>3. published[i] \in Entry
    BY <2>2
  <2> QED BY <2>1, <2>3 DEF Entry
<1> QED BY <1>1, <1>2 DEF IInv, Shape

LEMMA QuietKeeps == IInv /\ Kept /\ Says({}) => IInv'
<1> SUFFICES ASSUME IInv, Kept, Says({}) PROVE IInv'
  OBVIOUS
<1>1. Events' = Events /\ gets' = gets /\ forget' = forget /\ nested' = nested /\ pending' = pending
  BY DEF Says
<1> QED BY <1>1, Zenon DEF IInv, Kept, Shape, EventsOfThePast, PendingIsTrue, Unanswered,
        TimeoutsHeld, Told

LEMMA ErrorKeeps == IInv /\ Kept /\ SaysError => IInv'
<1> SUFFICES ASSUME IInv, Kept, NEW g \in 0 .. gets, Says({New("error", g)}) PROVE IInv'
  BY DEF SaysError
<1>1. /\ gets' = gets /\ forget' = forget /\ nested' = nested /\ pending' = pending
      /\ Events' = Events \cup {New("error", g)}
  BY DEF Says
<1>2. gets \in Nat /\ g \in Nat /\ g <= gets
  BY DEF IInv, Shape
<1>3. \A get : /\ New("response", get) \in Events' <=> New("response", get) \in Events
               /\ New("timeout", get) \in Events' <=> New("timeout", get) \in Events
  BY <1>1, NewAreDistinct, Zenon
<1>4. Shape' /\ OnlyCurrentListens'
  BY <1>1, Zenon DEF IInv, Shape, Kept
<1>5. EventsOfThePast'
  <2> SUFFICES ASSUME NEW e \in Events'
               PROVE  e.get <= gets' /\ (e.kind = "timeout" => e.get < gets')
    BY Zenon DEF EventsOfThePast
  <2>1. CASE e \in Events
    BY <2>1, <1>1, <1>2, PastStays
  <2>2. CASE e = New("error", g)
    BY <2>2, <1>1, <1>2, NewIsEntry
  <2> QED BY <2>1, <2>2, <1>1, Zenon
<1>6. PendingIsTrue' /\ Unanswered' /\ TimeoutsHeld' /\ Told'
  BY <1>1, <1>3, Zenon DEF IInv, PendingIsTrue, Unanswered, TimeoutsHeld, Told
<1> QED BY <1>4, <1>5, <1>6, Zenon DEF IInv

(* No timeout was published of the current get().                            *)
LEMMA CurrentNotTimedOut ==
    ASSUME IInv, NEW get \in Nat, New("timeout", get) \in Events PROVE get < gets
<1>1. New("timeout", get).get < gets
  BY NewIsEntry, Zenon DEF IInv, EventsOfThePast
<1> QED BY <1>1, NewIsEntry, Zenon

LEMMA ResponseKeeps == IInv /\ Kept /\ SaysResponse => IInv'
<1> SUFFICES ASSUME IInv, Kept, SaysResponse PROVE IInv'
  OBVIOUS
<1>1. /\ gets' = gets /\ forget' = forget /\ nested' = nested /\ pending' = FALSE
      /\ Events' = Events \cup {New("response", gets)} /\ gets > 0
  BY DEF SaysResponse
<1>2. gets \in Nat
  BY DEF IInv, Shape
<1>3. \A get : /\ New("response", get) \in Events' <=> New("response", get) \in Events \/ get = gets
               /\ New("timeout", get) \in Events' <=> New("timeout", get) \in Events
  BY <1>1, NewAreDistinct, Zenon
<1>4. Shape' /\ OnlyCurrentListens'
  BY <1>1, Zenon DEF IInv, Shape, Kept
<1>5. EventsOfThePast'
  <2> SUFFICES ASSUME NEW e \in Events'
               PROVE  e.get <= gets' /\ (e.kind = "timeout" => e.get < gets')
    BY Zenon DEF EventsOfThePast
  <2>1. CASE e \in Events
    BY <2>1, <1>1, <1>2, PastStays
  <2>2. CASE e = New("response", gets)
    BY <2>2, <1>1, <1>2, NewIsEntry
  <2> QED BY <2>1, <2>2, <1>1, Zenon
<1>6. PendingIsTrue' /\ Unanswered' /\ Told'
  BY <1>1, <1>3, Zenon DEF IInv, PendingIsTrue, Unanswered, Told
<1>7. TimeoutsHeld'
  <2>1. \A get \in Nat : New("timeout", get) \in Events => get # gets
    BY <1>2, CurrentNotTimedOut
  <2> QED BY <1>1, <1>3, <2>1, Zenon DEF IInv, TimeoutsHeld
<1> QED BY <1>4, <1>5, <1>6, <1>7, Zenon DEF IInv

(* A get() of the user.                                                      *)
LEMMA GetsNextKeeps == ASSUME NEW f \in BOOLEAN PROVE IInv /\ Kept /\ GetsNext(f) => IInv'
<1> SUFFICES ASSUME IInv, Kept, GetsNext(f) PROVE IInv'
  OBVIOUS
<1>1. /\ gets' = gets + 1 /\ forget' = ForgetAfter(f) /\ nested' = nested /\ pending' = ~f
      /\ Events' = Events \cup TimeoutEvents
  BY DEF GetsNext
<1>2. gets \in Nat /\ gets' \in Nat /\ gets <= gets' /\ gets < gets' /\ gets' > 0
  BY <1>1 DEF IInv, Shape
<1>3. forget \subseteq 1 .. gets /\ nested \subseteq 1 .. gets
  BY DEF IInv, Shape
<1>4. \A get : New("response", get) \in Events' <=> New("response", get) \in Events
  BY <1>1, NewAreDistinct, Zenon DEF TimeoutEvents
<1>5. \A get : New("timeout", get) \in Events' <=>
                  New("timeout", get) \in Events \/ (pending /\ get = gets)
  BY <1>1, NewAreDistinct, Zenon DEF TimeoutEvents
<1>6. Shape' /\ OnlyCurrentListens'
  <2>1. forget' \subseteq 1 .. gets' /\ nested' \subseteq 1 .. gets'
    BY <1>1, <1>2, <1>3 DEF ForgetAfter
  <2>2. pending' \in BOOLEAN
    BY <1>1
  <2> QED BY <1>2, <2>1, <2>2, Zenon DEF Shape, Kept
<1>7. EventsOfThePast'
  <2> SUFFICES ASSUME NEW e \in Events'
               PROVE  e.get <= gets' /\ (e.kind = "timeout" => e.get < gets')
    BY Zenon DEF EventsOfThePast
  <2>1. CASE e \in Events
    BY <2>1, <1>2, PastStays
  <2>2. CASE e = New("timeout", gets)
    BY <2>2, <1>2, NewIsEntry
  <2> QED BY <2>1, <2>2, <1>1, Zenon DEF TimeoutEvents
<1>8. New("response", gets') \notin Events'
  <2>1. SUFFICES ASSUME New("response", gets') \in Events PROVE FALSE
    BY <1>4, Zenon
  <2>2. New("response", gets').get <= gets
    BY <2>1, Zenon DEF IInv, EventsOfThePast
  <2>3. New("response", gets').get = gets'
    BY NewIsEntry, Zenon
  <2> QED BY <2>2, <2>3, <1>2
<1>9. PendingIsTrue'
  BY <1>2, <1>8, Zenon DEF PendingIsTrue
<1>10. Unanswered'
  <2>1. gets' \in forget' <=> f
    BY <1>1, <1>2, <1>3 DEF ForgetAfter
  <2> QED BY <1>1, <1>2, <1>8, <2>1, Zenon DEF Unanswered
<1>11. TimeoutsHeld'
  <2>1. pending => New("response", gets) \notin Events
    BY Zenon DEF IInv, PendingIsTrue
  <2> QED BY <1>1, <1>4, <1>5, <2>1, Zenon DEF IInv, TimeoutsHeld
<1>12. Told'
  <2> SUFFICES ASSUME NEW g \in 1 .. gets' - 1
               PROVE  \/ g \in forget' \cup nested'
                      \/ New("response", g) \in Events' \/ New("timeout", g) \in Events'
    BY Zenon DEF Told
  <2>0. forget \subseteq forget'
    BY <1>1, Zenon DEF ForgetAfter
  <2>1. CASE g \in 1 .. gets - 1
    BY <2>1, <2>0, <1>1, <1>4, <1>5, Zenon DEF IInv, Told
  <2>2. CASE g = gets
    <3>1. gets > 0
      BY <2>2, <1>1, <1>2
    <3> QED BY <2>0, <2>2, <3>1, <1>1, <1>4, <1>5, Zenon DEF IInv, Unanswered
  <2> QED BY <2>1, <2>2, <1>1, <1>2
<1> QED BY <1>6, <1>7, <1>9, <1>10, <1>11, <1>12, Zenon DEF IInv

(* A get() from the response listener.                                       *)
LEMMA GetsInListenerKeeps ==
    ASSUME NEW f \in BOOLEAN
    PROVE  IInv /\ Kept /\ GetsInListener(f) => IInv'
<1> SUFFICES ASSUME IInv, Kept, GetsInListener(f) PROVE IInv'
  OBVIOUS
<1>1. /\ gets' = gets + 1 /\ forget' = ForgetAfter(f) /\ nested' = nested \cup {gets + 1}
      /\ Events' = Events \cup {New("response", gets)} \cup TimeoutEvents
      /\ pending' \in BOOLEAN
  BY DEF GetsInListener
<1>2. gets \in Nat /\ gets' \in Nat /\ gets <= gets' /\ gets < gets' /\ gets' > 0
  BY <1>1 DEF IInv, Shape
<1>3. forget \subseteq 1 .. gets /\ nested \subseteq 1 .. gets
  BY DEF IInv, Shape
<1>4. \A get : New("response", get) \in Events' <=>
                  New("response", get) \in Events \/ get = gets
  BY <1>1, NewAreDistinct, Zenon DEF TimeoutEvents
<1>5. \A get : New("timeout", get) \in Events' <=>
                  New("timeout", get) \in Events \/ (pending /\ get = gets)
  BY <1>1, NewAreDistinct, Zenon DEF TimeoutEvents
<1>6. Shape' /\ OnlyCurrentListens'
  <2>1. forget' \subseteq 1 .. gets' /\ nested' \subseteq 1 .. gets'
    BY <1>1, <1>2, <1>3 DEF ForgetAfter
  <2> QED BY <1>1, <1>2, <2>1, Zenon DEF Shape, Kept
<1>7. EventsOfThePast'
  <2> SUFFICES ASSUME NEW e \in Events'
               PROVE  e.get <= gets' /\ (e.kind = "timeout" => e.get < gets')
    BY Zenon DEF EventsOfThePast
  <2>1. CASE e \in Events
    BY <2>1, <1>2, PastStays
  <2>2. CASE e = New("response", gets)
    BY <2>2, <1>2, NewIsEntry
  <2>3. CASE e = New("timeout", gets)
    BY <2>3, <1>2, NewIsEntry
  <2> QED BY <2>1, <2>2, <2>3, <1>1, Zenon DEF TimeoutEvents
<1>8. New("response", gets') \notin Events'
  <2>1. SUFFICES ASSUME New("response", gets') \in Events PROVE FALSE
    BY <1>2, <1>4
  <2>2. New("response", gets').get <= gets
    BY <2>1, Zenon DEF IInv, EventsOfThePast
  <2>3. New("response", gets').get = gets'
    BY NewIsEntry, Zenon
  <2> QED BY <2>2, <2>3, <1>2
<1>9. PendingIsTrue'
  BY <1>2, <1>8, Zenon DEF PendingIsTrue
<1>10. Unanswered'
  BY <1>1, Zenon DEF Unanswered
<1>11. TimeoutsHeld'
  <2> SUFFICES ASSUME NEW g \in Nat, New("timeout", g) \in Events'
               PROVE  g + 1 \in nested' \/ New("response", g) \notin Events'
    BY Zenon DEF TimeoutsHeld
  <2>1. CASE g = gets
    BY <2>1, <1>1, Zenon
  <2>2. CASE g # gets
    BY <2>2, <1>1, <1>4, <1>5, Zenon DEF IInv, TimeoutsHeld
  <2> QED BY <2>1, <2>2, Zenon
<1>12. Told'
  <2> SUFFICES ASSUME NEW g \in 1 .. gets' - 1
               PROVE  \/ g \in forget' \cup nested'
                      \/ New("response", g) \in Events' \/ New("timeout", g) \in Events'
    BY Zenon DEF Told
  <2>0. forget \subseteq forget'
    BY <1>1, Zenon DEF ForgetAfter
  <2>1. CASE g \in 1 .. gets - 1
    BY <2>1, <2>0, <1>1, <1>4, <1>5, Zenon DEF IInv, Told
  <2>2. CASE g = gets
    BY <2>2, <1>4, Zenon
  <2> QED BY <2>1, <2>2, <1>1, <1>2
<1> QED BY <1>6, <1>7, <1>9, <1>10, <1>11, <1>12, Zenon DEF IInv

-----------------------------------------------------------------------------
(* The steps have these effects.                                             *)

Effect ==
    \/ Says({}) \/ SaysError \/ SaysResponse
    \/ \E f \in BOOLEAN : GetsNext(f) \/ GetsInListener(f)

LEMMA NothingPublished ==
    ASSUME IInv, published' = published
    PROVE  published' \in Seq(Entry) /\ Events' = Events /\ SpeaksOfCurrent
<1>1. published \in Seq(Entry)
  BY DEF IInv, Shape
<1>2. Len(published) \in Nat
  BY <1>1
<1>3. SpeaksOfCurrent
  BY <1>2 DEF SpeaksOfCurrent
<1> QED BY <1>1, <1>3, Zenon DEF Events

LEMMA OnePublished ==
    ASSUME IInv, NEW kind \in {"response", "error", "timeout"}, NEW g \in {0, gets},
           published' = published \o Event(kind, g)
    PROVE  published' \in Seq(Entry) /\ Events' = Events \cup {New(kind, g)} /\ SpeaksOfCurrent
<1>1. published \in Seq(Entry) /\ g \in Nat
  BY DEF IInv, Shape
<1>2. New(kind, g) \in Entry
  BY <1>1, NewIsEntry
<1>3. published' = published \o <<New(kind, g)>>
  BY Zenon DEF Event, New
<1>4. /\ published' \in Seq(Entry) /\ Len(published') = Len(published) + 1
      /\ published'[Len(published) + 1] = New(kind, g)
      /\ Events' = Events \cup {New(kind, g)}
  BY <1>1, <1>2, <1>3, Appended DEF Events
<1>5. Len(published) \in Nat
  BY <1>1
<1>6. New(kind, g).get \in {0, gets}
  BY NewIsEntry, Zenon
<1>7. SpeaksOfCurrent
  BY <1>4, <1>5, <1>6 DEF SpeaksOfCurrent
<1> QED BY <1>4, <1>7, Zenon

LEMMA SameListen ==
    ASSUME IInv, listening' = listening, gets' = gets
    PROVE  listening' \in [Sessions -> BOOLEAN] /\ OnlyCurrentListens'
BY Zenon DEF IInv, Shape, OnlyCurrentListens

(* The session that listens is the current one.                              *)
LEMMA ListenerIsCurrent ==
    ASSUME IInv, NEW s \in Sessions, listening[s] PROVE s = gets /\ gets > 0
<1>1. s = gets
  BY Zenon DEF IInv, OnlyCurrentListens
<1> QED BY <1>1, GetsAssumption DEF Sessions

LEMMA GetMakesSession ==
    ASSUME IInv, NEW f \in BOOLEAN, Get(f)
    PROVE  /\ gets' = gets + 1 /\ forget' = ForgetAfter(f)
           /\ listening' \in [Sessions -> BOOLEAN] /\ OnlyCurrentListens'
<1>1. gets' = gets + 1 /\ forget' = ForgetAfter(f)
  BY DEF Get, ForgetAfter
<1>2. listening' = [t \in Sessions |->
                       IF t = gets + 1 THEN TRUE
                       ELSE IF t = gets THEN FALSE ELSE listening[t]]
  BY DEF Get, Destroyed
<1>3. listening' \in [Sessions -> BOOLEAN]
  BY <1>2, Zenon DEF IInv, Shape
<1>4. OnlyCurrentListens'
  BY <1>1, <1>2, Zenon DEF IInv, OnlyCurrentListens
<1> QED BY <1>1, <1>3, <1>4

LEMMA QuietEffect ==
    ASSUME IInv, UNCHANGED <<gets, forget, nested, pending, listening, published>>
    PROVE  Kept /\ Effect
<1>1. Events' = Events /\ published' \in Seq(Entry) /\ SpeaksOfCurrent
  BY NothingPublished, Zenon
<1>2. Kept
  BY <1>1, SameListen, Zenon DEF Kept
<1>3. Says({})
  BY <1>1 DEF Says
<1> QED BY <1>2, <1>3 DEF Effect

LEMMA ErrorEffect ==
    ASSUME IInv, NEW g \in {0, gets}, published' = published \o Event("error", g),
           UNCHANGED <<gets, forget, nested, pending, listening>>
    PROVE  Kept /\ Effect
<1>1. /\ published' \in Seq(Entry) /\ Events' = Events \cup {New("error", g)}
      /\ SpeaksOfCurrent
  BY OnePublished
<1>2. Kept
  BY <1>1, SameListen, Zenon DEF Kept
<1>3. Says({New("error", g)})
  BY <1>1 DEF Says
<1>4. g \in 0 .. gets
  BY DEF IInv, Shape
<1> QED BY <1>2, <1>3, <1>4 DEF Effect, SaysError

LEMMA ResponseEffect ==
    ASSUME IInv, NEW s \in Sessions, listening[s], pending' = FALSE,
           published' = published \o Event("response", s),
           UNCHANGED <<gets, forget, nested, listening>>
    PROVE  Kept /\ Effect
<1>0. s = gets /\ gets > 0
  BY ListenerIsCurrent
<1>1. /\ published' \in Seq(Entry) /\ Events' = Events \cup {New("response", gets)}
      /\ SpeaksOfCurrent
  BY <1>0, OnePublished
<1>2. Kept
  BY <1>1, SameListen, Zenon DEF Kept
<1>3. SaysResponse
  BY <1>0, <1>1 DEF SaysResponse
<1> QED BY <1>2, <1>3 DEF Effect

LEMMA UserGetEffect == IInv /\ UserGet => Kept /\ Effect
<1> SUFFICES ASSUME IInv, UserGet PROVE Kept /\ Effect
  OBVIOUS
<1>1. PICK f \in BOOLEAN : Get(f) /\ pending' = PendingAfter(f)
  BY Zenon DEF UserGet
<1>2. /\ gets' = gets + 1 /\ forget' = ForgetAfter(f)
      /\ listening' \in [Sessions -> BOOLEAN] /\ OnlyCurrentListens'
  BY <1>1, GetMakesSession
<1>3. nested' = nested /\ pending' = ~f
  BY <1>1, Zenon DEF UserGet, PendingAfter
<1>4. /\ published' \in Seq(Entry) /\ Events' = Events \cup TimeoutEvents
      /\ SpeaksOfCurrent
  <2>0. published' = published \o Timeout
    BY DEF UserGet
  <2>1. CASE pending
    BY <2>0, <2>1, OnePublished DEF Timeout, TimeoutEvents
  <2>2. CASE ~pending
    <3>1. published' = published \o <<>> /\ TimeoutEvents = {}
      BY <2>0, <2>2 DEF Timeout, TimeoutEvents
    <3>2. published \in Seq(Entry)
      BY DEF IInv, Shape
    <3>3. published' = published
      BY <3>1, <3>2
    <3> QED BY <3>1, <3>3, NothingPublished
  <2> QED BY <2>1, <2>2
<1>5. Kept
  BY <1>2, <1>4, Zenon DEF Kept
<1>6. GetsNext(f)
  BY <1>2, <1>3, <1>4 DEF GetsNext
<1> QED BY <1>5, <1>6 DEF Effect

LEMMA ResponseAndGetEffect ==
    ASSUME NEW s \in Sessions PROVE IInv /\ ResponseAndGet(s) => Kept /\ Effect
<1> SUFFICES ASSUME IInv, ResponseAndGet(s) PROVE Kept /\ Effect
  OBVIOUS
<1>0. s = gets /\ gets > 0
  BY ListenerIsCurrent, Zenon DEF ResponseAndGet, DataEvent
<1>1. PICK f \in BOOLEAN : Get(f) /\ pending' \in {FALSE, PendingAfter(f)}
  BY Zenon DEF ResponseAndGet
<1>2. /\ gets' = gets + 1 /\ forget' = ForgetAfter(f)
      /\ listening' \in [Sessions -> BOOLEAN] /\ OnlyCurrentListens'
  BY <1>1, GetMakesSession
<1>3. nested' = nested \cup {gets + 1} /\ pending' \in BOOLEAN
  BY <1>1, <1>2 DEF ResponseAndGet, PendingAfter
<1>4. /\ published' \in Seq(Entry) /\ SpeaksOfCurrent
      /\ Events' = Events \cup {New("response", gets)} \cup TimeoutEvents
  <2>0. published' = published \o Event("response", gets) \o Timeout
    BY <1>0 DEF ResponseAndGet
  <2>1. published \in Seq(Entry) /\ gets \in Nat
    BY DEF IInv, Shape
  <2>2. New("response", gets) \in Entry /\ New("timeout", gets) \in Entry
    BY <2>1, NewIsEntry
  <2>3. PICK p : p = published \o <<New("response", gets)>>
    OBVIOUS
  <2>4. /\ p \in Seq(Entry) /\ Len(p) = Len(published) + 1
        /\ p[Len(published) + 1] = New("response", gets)
        /\ EventsOf(p) = Events \cup {New("response", gets)}
    BY <2>1, <2>2, <2>3, Appended DEF Events
  <2>5. Len(published) \in Nat
    BY <2>1
  <2>6. New("response", gets).get = gets /\ New("timeout", gets).get = gets
    BY NewIsEntry, Zenon
  <2>7. CASE pending
    <3>1. published' = p \o <<New("timeout", gets)>>
      BY <2>0, <2>3, <2>7, Zenon DEF Event, Timeout, New
    <3>2. /\ published' \in Seq(Entry) /\ Len(published') = Len(p) + 1
          /\ \A i \in 1 .. Len(p) : published'[i] = p[i]
          /\ published'[Len(p) + 1] = New("timeout", gets)
          /\ Events' = EventsOf(p) \cup {New("timeout", gets)}
      <4>1. PICK q : q = p \o <<New("timeout", gets)>>
        OBVIOUS
      <4>2. /\ q \in Seq(Entry) /\ Len(q) = Len(p) + 1
            /\ \A i \in 1 .. Len(p) : q[i] = p[i]
            /\ q[Len(p) + 1] = New("timeout", gets)
            /\ EventsOf(q) = EventsOf(p) \cup {New("timeout", gets)}
        <5>1. p \in Seq(Entry) /\ New("timeout", gets) \in Entry
          BY <2>2, <2>4, Zenon
        <5>2. /\ q \in Seq(Entry) /\ Len(q) = Len(p) + 1
              /\ q[Len(p) + 1] = New("timeout", gets)
              /\ EventsOf(q) = EventsOf(p) \cup {New("timeout", gets)}
          BY <5>1, <4>1, Appended
        <5>3. ASSUME NEW i \in 1 .. Len(p) PROVE q[i] = p[i]
          BY <5>1, <4>1
        <5> QED BY <5>2, <5>3
      <4>3. published' = q
        BY <3>1, <4>1, Zenon
      <4> QED BY <4>2, <4>3, Zenon DEF Events
    <3>3. SpeaksOfCurrent
      <4> SUFFICES ASSUME NEW i \in Len(published) + 1 .. Len(published')
                   PROVE  published'[i].get = gets
        BY Zenon DEF SpeaksOfCurrent
      <4>1. i = Len(p) \/ i = Len(p) + 1
        BY <2>4, <2>5, <3>2
      <4>2. CASE i = Len(p)
        <5>1. i \in 1 .. Len(p)
          BY <4>2, <2>4, <2>5
        <5> QED BY <5>1, <4>2, <2>4, <2>6, <3>2, Zenon
      <4> QED BY <4>1, <4>2, <2>6, <3>2, Zenon
    <3> QED BY <2>4, <2>7, <3>2, <3>3, Zenon DEF TimeoutEvents
  <2>8. CASE ~pending
    <3>1. published' = p \o <<>>
      BY <2>0, <2>3, <2>8, Zenon DEF Event, Timeout, New
    <3>2. published' = p
      BY <2>4, <3>1
    <3>3. SpeaksOfCurrent
      BY <2>4, <2>5, <2>6, <3>2 DEF SpeaksOfCurrent
    <3> QED BY <2>4, <2>8, <3>2, <3>3, Zenon DEF TimeoutEvents, Events
  <2> QED BY <2>7, <2>8
<1>5. Kept
  BY <1>2, <1>4, Zenon DEF Kept
<1>6. GetsInListener(f)
  BY <1>0, <1>2, <1>3, <1>4 DEF GetsInListener
<1> QED BY <1>5, <1>6 DEF Effect

LEMMA StepHasEffect == IInv /\ [Next]_vars => Kept /\ Effect
<1> SUFFICES ASSUME IInv, [Next]_vars PROVE Kept /\ Effect
  OBVIOUS
<1>1. CASE AddrInfo
  BY <1>1, QuietEffect DEF AddrInfo, made, sessions
<1>2. CASE ResolverError
  BY <1>2, ErrorEffect DEF ResolverError, made, sessions
<1>3. CASE UserGet
  BY <1>3, UserGetEffect
<1>4. ASSUME NEW s \in Sessions, ConnectEvent(s) PROVE Kept /\ Effect
  BY <1>4, QuietEffect DEF ConnectEvent, client, made
<1>5. ASSUME NEW s \in Sessions, WriteEvent(s) PROVE Kept /\ Effect
  BY <1>5, QuietEffect DEF WriteEvent, client, made
<1>6. ASSUME NEW s \in Sessions, ErrorEvent(s) PROVE Kept /\ Effect
  <2>1. UNCHANGED <<gets, forget, nested, pending, listening>>
    BY <1>6 DEF ErrorEvent, client, made
  <2>2. CASE listening[s]
    <3>1. published' = published \o Event("error", gets)
      BY <1>6, <2>2, ListenerIsCurrent DEF ErrorEvent
    <3> QED BY <2>1, <3>1, ErrorEffect
  <2>3. CASE ~listening[s]
    <3>1. published' = published
      BY <1>6, <2>3 DEF ErrorEvent
    <3> QED BY <2>1, <3>1, QuietEffect
  <2> QED BY <2>2, <2>3
<1>7. ASSUME NEW s \in Sessions, PartialData(s) PROVE Kept /\ Effect
  BY <1>7, QuietEffect DEF PartialData, client, made, sessions
<1>8. ASSUME NEW s \in Sessions, RejectedData(s) PROVE Kept /\ Effect
  BY <1>8, QuietEffect DEF RejectedData, client, made, sessions
<1>9. ASSUME NEW s \in Sessions, Response(s) PROVE Kept /\ Effect
  <2>1. listening[s]
    BY <1>9, Zenon DEF Response, DataEvent
  <2>2. /\ pending' = FALSE /\ published' = published \o Event("response", s)
        /\ UNCHANGED <<gets, forget, nested, listening>>
    BY <1>9 DEF Response, Publish, Answered, made, sessions
  <2> QED BY <2>1, <2>2, ResponseEffect
<1>10. ASSUME NEW s \in Sessions, ResponseAndGet(s) PROVE Kept /\ Effect
  BY <1>10, ResponseAndGetEffect
<1>11. ASSUME NEW s \in Sessions, TrailingData(s) PROVE Kept /\ Effect
  <2>1. listening[s]
    BY <1>11, Zenon DEF TrailingData
  <2>2. /\ pending' = FALSE /\ published' = published \o Event("response", s)
        /\ UNCHANGED <<gets, forget, nested, listening>>
    BY <1>11 DEF TrailingData, Publish, Answered, made
  <2> QED BY <2>1, <2>2, ResponseEffect
<1>12. ASSUME NEW s \in Sessions, EndEvent(s) PROVE Kept /\ Effect
  BY <1>12, QuietEffect DEF EndEvent, client, made
<1>13. CASE UNCHANGED vars
  BY <1>13, QuietEffect DEF vars, client, made, sessions
<1> QED BY <1>1, <1>2, <1>3, <1>4, <1>5, <1>6, <1>7, <1>8, <1>9, <1>10, <1>11, <1>12, <1>13
        DEF Next

-----------------------------------------------------------------------------
(* The theorems.                                                             *)

LEMMA InitIInv == Init => IInv
<1> SUFFICES ASSUME Init PROVE IInv
  OBVIOUS
<1>1. Events = {}
  BY DEF Init, Events, EventsOf
<1>2. gets = 0 /\ ~pending /\ forget = {} /\ nested = {} /\ published = <<>>
  BY DEF Init
<1>3. Shape /\ OnlyCurrentListens
  <2>1. listening \in [Sessions -> BOOLEAN] /\ OnlyCurrentListens
    BY Zenon DEF Init, OnlyCurrentListens
  <2>2. published \in Seq(Entry)
    BY <1>2
  <2>3. gets \in Nat /\ forget \subseteq 1 .. gets /\ nested \subseteq 1 .. gets
    BY <1>2
  <2>4. pending \in BOOLEAN
    BY Zenon DEF Init
  <2> QED BY <2>1, <2>2, <2>3, <2>4, Zenon DEF Shape
<1>4. EventsOfThePast /\ PendingIsTrue /\ Unanswered /\ TimeoutsHeld
  BY <1>1, <1>2 DEF EventsOfThePast, PendingIsTrue, Unanswered, TimeoutsHeld
<1>5. Told
  BY <1>2 DEF Told
<1> QED BY <1>3, <1>4, <1>5 DEF IInv

LEMMA StepIInv == IInv /\ [Next]_vars => IInv'
<1> SUFFICES ASSUME IInv, [Next]_vars PROVE IInv'
  OBVIOUS
<1>1. Kept /\ Effect
  BY StepHasEffect
<1> QED BY <1>1, QuietKeeps, ErrorKeeps, ResponseKeeps, GetsNextKeeps, GetsInListenerKeeps
        DEF Effect

LEMMA Inductive == Spec => []IInv
BY InitIInv, StepIInv, PTL DEF Spec

(* _isRequestPending, which get() looks at and the response listener clears, *)
(* says that the current request is still to be answered.                    *)
THEOREM PendingHolds == Spec => []PendingIsUnanswered
<1>1. IInv => PendingIsUnanswered
  BY HeardIsEvent, Zenon DEF IInv, Unanswered, PendingIsUnanswered
<1> QED BY <1>1, Inductive, PTL

(* get() publishes a timeout only of a request that was not answered, or is  *)
(* called by the listener of its response.                                   *)
THEOREM TimeoutsHold == Spec => []TimeoutsAreTrue
<1>1. IInv => TimeoutsAreTrue
  <2> SUFFICES ASSUME IInv, NEW i \in 1 .. Len(published), published[i].kind = "timeout"
               PROVE  \/ published[i].get + 1 \in nested
                      \/ ~Heard("response", published[i].get)
    BY Zenon DEF TimeoutsAreTrue
  <2>1. published[i] \in Entry
    BY DEF IInv, Shape
  <2>2. published[i].get \in Nat
    BY <2>1 DEF Entry
  <2>3. published[i] = New("timeout", published[i].get)
    BY <2>1 DEF Entry, New
  <2>4. New("timeout", published[i].get) \in Events
    BY <2>3, Zenon DEF Events, EventsOf
  <2> QED BY <2>2, <2>4, HeardIsEvent, Zenon DEF IInv, TimeoutsHeld
<1> QED BY <1>1, Inductive, PTL

(* A request that a new get() gives up has been answered or is reported.     *)
THEOREM GivenUpHolds == Spec => []GivenUpIsTold
<1>1. IInv => GivenUpIsTold
  BY HeardIsEvent, Zenon DEF IInv, Told, GivenUpIsTold
<1> QED BY <1>1, Inductive, PTL

(* A session that ~HttpSession() destroyed publishes nothing more.           *)
THEOREM OnlyCurrentHolds == Spec => OnlyCurrentSpeaks
<1>1. IInv /\ [Next]_vars =>
        [\A i \in Len(published) + 1 .. Len(published') : published'[i].get \in {0, gets}]_vars
  BY StepHasEffect, Zenon DEF Kept, SpeaksOfCurrent
<1> QED BY <1>1, Inductive, PTL DEF Spec, OnlyCurrentSpeaks

-----------------------------------------------------------------------------
(* The response.  A parser that has not seen the end holds what arrived, and *)
(* all of its headers as they were sent unless one was cut; that it does     *)
(* after its last execution too is what is published.                        *)

ParserHolds(p, isCut) ==
    /\ p \in Parsers /\ p.at <= sending.units
    /\ p.statusCode \in {0, sending.code} /\ isCut \in BOOLEAN
    /\ ~p.isComplete => Holds(p, sending) /\ (~isCut => HoldsExactly(p, sending))

Typed ==
    /\ addr \in {"resolving", "known", "failed"}
    /\ gets <= MaxGets /\ addrless \subseteq Sessions
    /\ phase \in [Sessions -> Phases]
    /\ sending \in Responses

PInv == Typed /\ ParserHolds(parser, cut) /\ ResponseIsWhole

LEMMA SendingIs ==
    ASSUME PInv PROVE sending \in Responses /\ IsResponse(sending) /\ sending.units \in Nat \ {0}
<1>1. sending \in Responses
  BY DEF PInv, Typed
<1>2. IsResponse(sending)
  BY <1>1, ResponsesAssumption, Zenon
<1> QED BY <1>1, <1>2, Zenon DEF IsResponse

LEMMA DataEndIs ==
    ASSUME PInv, NEW to \in DataEnds
    PROVE  to \in Nat /\ to <= sending.units
BY SendingIs DEF DataEnds

(* A parser that is given more, before the end.                              *)
LEMMA MoreHolds ==
    ASSUME PInv, ~parser.isComplete, NEW to \in Nat, parser.at < to, to <= sending.units,
           NEW x, x = Execute(parser, sending, to)
    PROVE  /\ ParserHolds(x, CutBy(to))
           /\ Holds(x, sending) /\ (~CutBy(to) => HoldsExactly(x, sending))
           /\ x.isComplete <=> to = sending.units
           /\ x.at = to
<1>0. PICK q : q = AfterSpans(parser, sending, to)[Len(sending.spans)]
  OBVIOUS
<1>1. /\ parser \in Parsers /\ Holds(parser, sending)
      /\ ~cut => HoldsExactly(parser, sending)
      /\ parser.statusCode \in {0, sending.code} /\ cut \in BOOLEAN
  BY Zenon DEF PInv, ParserHolds
<1>2. parser.at <= to /\ parser.at \in Nat
  BY <1>1 DEF Parsers
<1>3. /\ x \in Parsers /\ x.at = to
      /\ x.isComplete <=> parser.isComplete \/ to = sending.units
      /\ x.statusCode \in {parser.statusCode, sending.code}
  BY <1>0, <1>1, SendingIs, ExecuteIs
<1>4. /\ Holds(x, sending)
      /\ HoldsExactly(parser, sending) /\ ~CutsHeader(sending, to) => HoldsExactly(x, sending)
  BY <1>1, <1>2, SendingIs, ExecuteHolds
<1>5. CutBy(to) \in BOOLEAN /\ (~CutBy(to) => HoldsExactly(x, sending))
  BY <1>1, <1>4, Zenon DEF CutBy, CutsHeader
<1>6. x.statusCode \in {0, sending.code}
  BY <1>1, <1>3, Zenon
<1> QED BY <1>3, <1>4, <1>5, <1>6, Zenon DEF ParserHolds

(* The last unit is in no header.                                            *)
LEMMA EndCutsNothing == ASSUME PInv PROVE ~CutsHeader(sending, sending.units)
<1> SUFFICES ASSUME NEW i \in DOMAIN sending.spans,
                    sending.spans[i].kind \in {"name", "value"},
                    sending.units \in sending.spans[i].first .. sending.spans[i].last
             PROVE  FALSE
  BY Zenon DEF CutsHeader
<1>1. sending.spans[i].first \in Nat /\ sending.spans[i].last \in Nat /\ sending.units \in Nat
  BY SendingIs, SpanTyped
<1>2. sending.spans[i].last < sending.units
  BY SendingIs DEF IsResponse
<1> QED BY <1>1, <1>2

(* What is published of a parser that saw the end.                           *)
LEMMA PublishedIsWhole ==
    ASSUME PInv, NEW p, Holds(p, sending), p.at = sending.units, NEW isCut \in BOOLEAN,
           ~isCut => HoldsExactly(p, sending), sending' = sending,
           response' = [statusCode |-> p.statusCode, headers |-> p.headers,
                        body |-> p.body, cut |-> isCut, again |-> FALSE]
    PROVE  ResponseIsWhole'
<1>1. /\ p.statusCode = CodeOf(sending)
      /\ IsWhole(<<p.body>>, Places(sending, "body"))
      /\ IsWhole(NamesOf(p.headers), Places(sending, "name"))
      /\ HoldsExactly(p, sending) => Range(p.headers) = HeadersOf(sending)
  BY SendingIs, WholeIsHeld
<1>2. /\ response'.statusCode = p.statusCode /\ response'.headers = p.headers
      /\ response'.body = p.body /\ response'.cut = isCut
  OBVIOUS
<1> QED BY <1>1, <1>2, Zenon DEF ResponseIsWhole

(* What is published again says nothing of the response that was sent.       *)
LEMMA AgainSaysNothing ==
    ASSUME response'.again = TRUE PROVE ResponseIsWhole'
BY DEF ResponseIsWhole

(* The steps.                                                                *)
LEMMA QuietHolds ==
    ASSUME PInv, Typed', UNCHANGED <<message, response>> PROVE PInv'
<1>1. parser' = parser /\ sending' = sending /\ cut' = cut /\ response' = response
  BY DEF message
<1> QED BY <1>1, Zenon DEF PInv, ParserHolds, ResponseIsWhole

LEMMA MoveTyped ==
    ASSUME PInv, NEW s \in Sessions, NEW from, NEW to \in Phases, Move(s, from, to)
    PROVE  phase' \in [Sessions -> Phases]
BY DEF PInv, Typed, Move

LEMMA GetTyped ==
    ASSUME IInv, PInv, NEW f \in BOOLEAN, Get(f)
    PROVE  /\ gets' <= MaxGets /\ addrless' \subseteq Sessions
           /\ phase' \in [Sessions -> Phases]
           /\ sending' = sending => ParserHolds(parser, cut)'
<1>1. gets' = gets + 1 /\ gets < MaxGets /\ gets \in Nat /\ MaxGets \in Nat
  BY GetsAssumption DEF Get, IInv, Shape
<1>2. gets' <= MaxGets /\ gets + 1 \in Sessions
  BY <1>1 DEF Sessions
<1>3. addrless' \subseteq Sessions
  BY <1>2 DEF Get, PInv, Typed
<1>4. phase' \in [Sessions -> Phases]
  <2>1. PICK first \in AfterConnect :
           phase' = [t \in Sessions |-> IF t = gets + 1 THEN first
                                        ELSE IF t = gets THEN "closed" ELSE phase[t]]
    BY DEF Get, Destroyed
  <2>2. first \in Phases /\ "closed" \in Phases
    BY DEF AfterConnect, Phases
  <2> QED BY <2>1, <2>2 DEF PInv, Typed
<1>5. ASSUME sending' = sending PROVE ParserHolds(parser, cut)'
  <2>1. parser' = NewParser /\ cut' = FALSE
    BY DEF Get
  <2>2. /\ NewParser \in Parsers /\ NewParser.at = 0 /\ NewParser.statusCode = 0
    BY DEF NewParser, Parsers
  <2>3. Holds(NewParser, sending) /\ HoldsExactly(NewParser, sending)
    BY SendingIs, NewHolds
  <2>4. 0 <= sending.units
    BY SendingIs
  <2> QED BY <1>5, <2>1, <2>2, <2>3, <2>4, Zenon DEF ParserHolds
<1> QED BY <1>2, <1>3, <1>4, <1>5

LEMMA UserGetHolds == IInv /\ PInv /\ UserGet => PInv'
<1> SUFFICES ASSUME IInv, PInv, UserGet PROVE PInv'
  OBVIOUS
<1>1. PICK f \in BOOLEAN : Get(f)
  BY Zenon DEF UserGet
<1>2. sending' = sending /\ addr' = addr /\ response' = NoResponse
  BY DEF UserGet
<1>3. Typed' /\ ParserHolds(parser, cut)'
  BY <1>1, <1>2, GetTyped, Zenon DEF PInv, Typed
<1>4. ResponseIsWhole'
  BY <1>2 DEF ResponseIsWhole, NoResponse
<1> QED BY <1>3, <1>4 DEF PInv

LEMMA ResponseAndGetHolds ==
    ASSUME NEW s \in Sessions PROVE IInv /\ PInv /\ ResponseAndGet(s) => PInv'
<1> SUFFICES ASSUME IInv, PInv, ResponseAndGet(s) PROVE PInv'
  OBVIOUS
<1>1. PICK f \in BOOLEAN : Get(f)
  BY Zenon DEF ResponseAndGet
<1>2. sending' = sending /\ addr' = addr
  BY DEF ResponseAndGet
<1>3. Typed' /\ ParserHolds(parser, cut)'
  BY <1>1, <1>2, GetTyped, Zenon DEF PInv, Typed
<1>4. ResponseIsWhole'
  <2>1. PICK p : p = Execute(parser, sending, sending.units)
    OBVIOUS
  <2>2. response' = [statusCode |-> p.statusCode, headers |-> p.headers,
                     body |-> p.body, cut |-> cut, again |-> FALSE]
    BY <2>1, Zenon DEF ResponseAndGet
  <2>3. ~parser.isComplete /\ parser.at < sending.units
    <3>1. ~parser.isComplete /\ sending.units > parser.at
      BY Zenon DEF ResponseAndGet, DataEvent
    <3> QED BY <3>1
  <2>4. CutBy(sending.units) <=> cut
    BY EndCutsNothing, Zenon DEF CutBy
  <2>5. sending.units \in Nat /\ sending.units <= sending.units
    BY SendingIs
  <2>6. /\ p.at = sending.units /\ Holds(p, sending)
        /\ ~cut => HoldsExactly(p, sending)
    <3>1. /\ Holds(p, sending) /\ (~CutBy(sending.units) => HoldsExactly(p, sending))
          /\ p.at = sending.units
      BY <2>1, <2>3, <2>5, MoreHolds
    <3> QED BY <2>4, <3>1, Zenon
  <2>7. cut \in BOOLEAN
    BY DEF PInv, ParserHolds
  <2> QED BY <1>2, <2>2, <2>6, <2>7, PublishedIsWhole
<1> QED BY <1>3, <1>4 DEF PInv

(* Data that is taken: PartialData and Response.                             *)
LEMMA DataHolds ==
    ASSUME PInv, NEW s \in Sessions, NEW to \in DataEnds, DataEvent(s, to),
           ~parser.isComplete, parser' = Execute(parser, sending, to), cut' = CutBy(to),
           sending' = sending
    PROVE  /\ ParserHolds(parser, cut)'
           /\ GivesOut(parser') =>
                 /\ Holds(parser', sending) /\ parser'.at = sending.units
                 /\ cut' \in BOOLEAN /\ (~cut' => HoldsExactly(parser', sending))
<1>1. to \in Nat /\ to <= sending.units
  BY DataEndIs
<1>2. parser.at < to
  <2>1. to > parser.at
    BY Zenon DEF DataEvent
  <2> QED BY <2>1
<1>3. PICK x : x = Execute(parser, sending, to)
  OBVIOUS
<1>4. /\ ParserHolds(x, CutBy(to))
      /\ Holds(x, sending) /\ (~CutBy(to) => HoldsExactly(x, sending))
      /\ x.isComplete <=> to = sending.units
      /\ x.at = to
  BY <1>1, <1>2, <1>3, MoreHolds
<1>5. parser' = x
  BY <1>3
<1>6. ParserHolds(parser, cut)'
  BY <1>4, <1>5, Zenon DEF ParserHolds
<1> QED BY <1>4, <1>5, <1>6, Zenon DEF GivesOut, ParserHolds

LEMMA PartialDataHolds == ASSUME NEW s \in Sessions PROVE PInv /\ PartialData(s) => PInv'
<1> SUFFICES ASSUME PInv, PartialData(s) PROVE PInv'
  OBVIOUS
<1>1. PICK to \in DataEnds :
         /\ DataEvent(s, to) /\ ~parser.isComplete
         /\ parser' = Execute(parser, sending, to) /\ cut' = CutBy(to)
  BY Zenon DEF PartialData
<1>2. UNCHANGED <<client, sessions, sending, response>>
  BY DEF PartialData
<1>3. Typed' /\ response' = response /\ sending' = sending
  BY <1>2 DEF PInv, Typed, client, made, sessions
<1>4. ParserHolds(parser, cut)'
  BY <1>1, <1>3, DataHolds
<1>5. ResponseIsWhole'
  BY <1>3, Zenon DEF PInv, ResponseIsWhole
<1> QED BY <1>3, <1>4, <1>5 DEF PInv

LEMMA ResponseStepHolds == ASSUME NEW s \in Sessions PROVE PInv /\ Response(s) => PInv'
<1> SUFFICES ASSUME PInv, Response(s) PROVE PInv'
  OBVIOUS
<1>1. PICK to \in DataEnds :
         /\ DataEvent(s, to) /\ ~parser.isComplete
         /\ parser' = Execute(parser, sending, to) /\ cut' = CutBy(to)
  BY Zenon DEF Response
<1>2. UNCHANGED <<addr, made, sessions, sending>> /\ GivesOut(parser')
  BY DEF Response
<1>3. Typed' /\ sending' = sending
  BY <1>2 DEF PInv, Typed, made, sessions
<1>4. response' = [statusCode |-> parser'.statusCode, headers |-> parser'.headers,
                   body |-> parser'.body, cut |-> cut', again |-> FALSE]
  BY Zenon DEF Response, Publish
<1>5. /\ ParserHolds(parser, cut)'
      /\ Holds(parser', sending) /\ parser'.at = sending.units
      /\ cut' \in BOOLEAN /\ (~cut' => HoldsExactly(parser', sending))
  BY <1>1, <1>2, <1>3, DataHolds
<1>6. PICK p, isCut : p = parser' /\ isCut = cut'
  OBVIOUS
<1>7. ResponseIsWhole'
  BY <1>3, <1>4, <1>5, <1>6, PublishedIsWhole
<1> QED BY <1>3, <1>5, <1>7 DEF PInv

LEMMA RejectedDataHolds == ASSUME NEW s \in Sessions PROVE PInv /\ RejectedData(s) => PInv'
<1> SUFFICES ASSUME PInv, RejectedData(s) PROVE PInv'
  OBVIOUS
<1>1. /\ parser' = [parser EXCEPT !.failed = TRUE]
      /\ UNCHANGED <<client, sessions, sending, cut, response>>
  BY DEF RejectedData
<1>2. Typed' /\ response' = response /\ sending' = sending /\ cut' = cut
  BY <1>1 DEF PInv, Typed, client, made, sessions
<1>3. parser \in Parsers
  BY DEF PInv, ParserHolds
<1>4. PICK p : p = [parser EXCEPT !.failed = TRUE]
  OBVIOUS
<1>5. /\ p \in Parsers /\ p.at = parser.at /\ p.statusCode = parser.statusCode
      /\ p.headers = parser.headers /\ p.body = parser.body
      /\ p.isComplete = parser.isComplete
  BY <1>3, <1>4 DEF Parsers
<1>6. /\ Holds(parser, sending) => Holds(p, sending)
      /\ HoldsExactly(parser, sending) => HoldsExactly(p, sending)
  BY <1>5, Zenon DEF Holds, HoldsExactly, Parsed
<1>7. ParserHolds(p, cut)
  BY <1>5, <1>6, Zenon DEF PInv, ParserHolds
<1>8. ParserHolds(parser, cut)'
  <2>1. parser' = p
    BY <1>1, <1>4
  <2> QED BY <1>2, <1>7, <2>1, Zenon DEF ParserHolds
<1>9. ResponseIsWhole'
  BY <1>2, Zenon DEF PInv, ResponseIsWhole
<1> QED BY <1>2, <1>8, <1>9 DEF PInv

(* A complete parser stays complete, and is published again.                 *)
LEMMA TrailingDataHolds == ASSUME NEW s \in Sessions PROVE PInv /\ TrailingData(s) => PInv'
<1> SUFFICES ASSUME PInv, TrailingData(s) PROVE PInv'
  OBVIOUS
<1>1. PICK to \in DataEnds : parser' = Execute([parser EXCEPT !.at = 0], sending, to)
  BY Zenon DEF TrailingData
<1>2. /\ parser.isComplete /\ phase' = [phase EXCEPT ![s] = "ended"]
      /\ UNCHANGED <<addr, made, sending, cut>> /\ response'.again = TRUE
  BY DEF TrailingData, GivesOut, Publish
<1>3. Typed' /\ sending' = sending /\ cut' = cut
  BY <1>2 DEF PInv, Typed, made, Phases
<1>4. parser \in Parsers /\ parser.statusCode \in {0, sending.code} /\ cut \in BOOLEAN
  BY Zenon DEF PInv, ParserHolds
<1>5. PICK p : p = [parser EXCEPT !.at = 0]
  OBVIOUS
<1>6. p \in Parsers /\ p.statusCode = parser.statusCode /\ p.isComplete = parser.isComplete
  BY <1>4, <1>5 DEF Parsers
<1>7. PICK x, q : x = Execute(p, sending, to)
                  /\ q = AfterSpans(p, sending, to)[Len(sending.spans)]
  OBVIOUS
<1>8. to \in Nat /\ to <= sending.units
  BY DataEndIs
<1>9. /\ x \in Parsers /\ x.at = to
      /\ x.isComplete <=> p.isComplete \/ to = sending.units
      /\ x.statusCode \in {p.statusCode, sending.code}
  BY <1>6, <1>7, <1>8, SendingIs, ExecuteIs
<1>10. parser' = x
  BY <1>1, <1>5, <1>7, Zenon
<1>11. x.isComplete /\ x.at <= sending.units /\ x.statusCode \in {0, sending.code}
  BY <1>2, <1>4, <1>6, <1>8, <1>9, Zenon
<1>12. ParserHolds(parser, cut)'
  BY <1>3, <1>4, <1>9, <1>10, <1>11, Zenon DEF ParserHolds
<1>13. ResponseIsWhole'
  BY <1>2, AgainSaysNothing
<1> QED BY <1>3, <1>12, <1>13 DEF PInv

LEMMA InitPInv == Init => PInv
<1> SUFFICES ASSUME Init PROVE PInv
  OBVIOUS
<1>1. /\ addr = "resolving" /\ gets = 0 /\ addrless = {} /\ parser = NewParser /\ cut = FALSE
      /\ sending \in Responses /\ response = NoResponse
      /\ phase = [s \in Sessions |-> "none"]
  BY DEF Init
<1>2. Typed
  <2>1. gets <= MaxGets
    BY <1>1, GetsAssumption
  <2>2. phase \in [Sessions -> Phases]
    BY <1>1 DEF Phases
  <2> QED BY <1>1, <2>1, <2>2 DEF Typed
<1>3. IsResponse(sending) /\ sending.units \in Nat
  <2>1. IsResponse(sending)
    BY <1>1, ResponsesAssumption, Zenon
  <2> QED BY <2>1 DEF IsResponse
<1>4. ParserHolds(parser, cut)
  <2>1. NewParser \in Parsers /\ NewParser.at = 0 /\ NewParser.statusCode = 0
    BY DEF NewParser, Parsers
  <2>2. Holds(NewParser, sending) /\ HoldsExactly(NewParser, sending)
    BY <1>3, NewHolds
  <2>3. 0 <= sending.units
    BY <1>3
  <2> QED BY <1>1, <2>1, <2>2, <2>3, Zenon DEF ParserHolds
<1>5. ResponseIsWhole
  BY <1>1, Zenon DEF ResponseIsWhole
<1> QED BY <1>2, <1>4, <1>5 DEF PInv

LEMMA StepPInv == IInv /\ PInv /\ [Next]_vars => PInv'
<1> SUFFICES ASSUME IInv, PInv, [Next]_vars PROVE PInv'
  OBVIOUS
<1>1. CASE AddrInfo
  <2>1. Typed' /\ UNCHANGED <<message, response>>
    BY <1>1 DEF AddrInfo, PInv, Typed, made, sessions, message
  <2> QED BY <2>1, QuietHolds
<1>2. CASE ResolverError
  <2>1. Typed' /\ UNCHANGED <<message, response>>
    BY <1>2 DEF ResolverError, PInv, Typed, made, sessions, message
  <2> QED BY <2>1, QuietHolds
<1>3. CASE UserGet
  BY <1>3, UserGetHolds
<1>4. ASSUME NEW s \in Sessions, NEW from, NEW to \in Phases, Move(s, from, to),
             UNCHANGED <<client, listening, message, response>>
      PROVE  PInv'
  <2>1. phase' \in [Sessions -> Phases]
    BY <1>4, MoveTyped
  <2>2. addr' = addr /\ gets' = gets /\ addrless' = addrless /\ sending' = sending
    BY <1>4 DEF client, made, message
  <2>3. Typed'
    BY <2>1, <2>2, Zenon DEF PInv, Typed
  <2> QED BY <1>4, <2>3, QuietHolds
<1>5. ASSUME NEW s \in Sessions, ConnectEvent(s) PROVE PInv'
  <2>1. PICK to \in AfterCall(s, "writing") : Move(s, "connecting", to)
    BY <1>5, Zenon DEF ConnectEvent
  <2>2. to \in Phases
    BY DEF AfterCall, Phases
  <2>3. UNCHANGED <<client, listening, message, response>>
    BY <1>5 DEF ConnectEvent
  <2> QED BY <1>4, <2>1, <2>2, <2>3
<1>6. ASSUME NEW s \in Sessions, WriteEvent(s) PROVE PInv'
  <2>1. PICK to \in AfterCall(s, "reading") : Move(s, "writing", to)
    BY <1>6, Zenon DEF WriteEvent, ReadAfterWrite
  <2>2. to \in Phases
    BY DEF AfterCall, Phases
  <2>3. UNCHANGED <<client, listening, message, response>>
    BY <1>6 DEF WriteEvent
  <2> QED BY <1>4, <2>1, <2>2, <2>3
<1>7. ASSUME NEW s \in Sessions, ErrorEvent(s) PROVE PInv'
  BY <1>4, <1>7 DEF ErrorEvent, Phases
<1>8. ASSUME NEW s \in Sessions, PartialData(s) PROVE PInv'
  BY <1>8, PartialDataHolds
<1>9. ASSUME NEW s \in Sessions, RejectedData(s) PROVE PInv'
  BY <1>9, RejectedDataHolds
<1>10. ASSUME NEW s \in Sessions, Response(s) PROVE PInv'
  BY <1>10, ResponseStepHolds
<1>11. ASSUME NEW s \in Sessions, ResponseAndGet(s) PROVE PInv'
  BY <1>11, ResponseAndGetHolds
<1>12. ASSUME NEW s \in Sessions, TrailingData(s) PROVE PInv'
  BY <1>12, TrailingDataHolds
<1>13. ASSUME NEW s \in Sessions, EndEvent(s) PROVE PInv'
  BY <1>4, <1>13 DEF EndEvent, Phases
<1>14. CASE UNCHANGED vars
  <2>1. Typed' /\ UNCHANGED <<message, response>>
    BY <1>14 DEF vars, PInv, Typed, client, made, sessions, message
  <2> QED BY <2>1, QuietHolds
<1> QED BY <1>1, <1>2, <1>3, <1>5, <1>6, <1>7, <1>8, <1>9, <1>10, <1>11, <1>12, <1>13, <1>14
        DEF Next

LEMMA InductiveResponse == Spec => [](IInv /\ PInv)
<1>1. Init => IInv /\ PInv
  BY InitIInv, InitPInv
<1>2. (IInv /\ PInv) /\ [Next]_vars => (IInv /\ PInv)'
  BY StepIInv, StepPInv
<1> QED BY <1>1, <1>2, PTL DEF Spec

(* Of HttpClient and its sessions: what is published is about a get() that   *)
(* was made, and the parser never is beyond the response nor has a code that *)
(* is not of it.                                                             *)
THEOREM TypeHolds == Spec => []TypeOK
<1>1. IInv /\ PInv => TypeOK
  <2> SUFFICES ASSUME IInv, PInv PROVE TypeOK
    OBVIOUS
  <2>1. gets \in 0 .. MaxGets
    BY GetsAssumption DEF IInv, Shape, PInv, Typed
  <2>2. forget \subseteq Sessions /\ nested \subseteq Sessions
    BY <2>1, GetsAssumption DEF IInv, Shape, Sessions
  <2>3. published \in Seq([kind : {"response", "error", "timeout"}, get : 0 .. MaxGets])
    <3>1. published \in Seq(Entry)
      BY DEF IInv, Shape
    <3>2. ASSUME NEW i \in 1 .. Len(published)
          PROVE  published[i] \in [kind : {"response", "error", "timeout"}, get : 0 .. MaxGets]
      <4>1. published[i] \in Entry
        BY <3>1
      <4>2. published[i].get <= gets
        BY Zenon DEF IInv, EventsOfThePast, Events, EventsOf
      <4> QED BY <2>1, <4>1, <4>2, GetsAssumption DEF Entry
    <3> DEFINE E == [kind : {"response", "error", "timeout"}, get : 0 .. MaxGets]
    <3>3. \A i \in 1 .. Len(published) : published[i] \in E
      BY <3>2
    <3> HIDE DEF E
    <3>4. published \in Seq(E)
      BY <3>1, <3>3
    <3> QED BY <3>4 DEF E
  <2>4. /\ parser.at \in 0 .. sending.units
        /\ parser.isComplete \in BOOLEAN /\ parser.failed \in BOOLEAN
    <3>1. parser \in Parsers /\ parser.at <= sending.units
      BY DEF PInv, ParserHolds
    <3>2. sending.units \in Nat
      BY SendingIs
    <3> QED BY <3>1, <3>2 DEF Parsers
  <2> QED BY <2>1, <2>2, <2>3, <2>4, Zenon DEF TypeOK, IInv, PInv, Shape, Typed, ParserHolds
<1> QED BY <1>1, InductiveResponse, PTL

(* HttpResponseParser and the sessions: what the response listener is given  *)
(* is what the server sent, in however many pieces it came.                  *)
THEOREM ResponseHolds == Spec => []ResponseIsWhole
<1>1. PInv => ResponseIsWhole
  BY DEF PInv
<1> QED BY <1>1, InductiveResponse, PTL
=============================================================================
