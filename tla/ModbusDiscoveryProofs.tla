----------------------- MODULE ModbusDiscoveryProofs ------------------------
(***************************************************************************)
(* Proofs about ModbusDiscovery, for any hosts, users and number of clients: *)
(* who listens to a client, that a live connection has an owner, and that a  *)
(* host whose user reads at once is never connected to twice.                *)
(*                                                                           *)
(* The clients of a host are numbered without gaps, so that Made(h) + 1 is   *)
(* one that was not made; and a client of a user who reads at once is taken  *)
(* out of the map only when it is not connected any more.                    *)
(***************************************************************************)
EXTENDS ModbusDiscovery, FiniteSetTheorems, TLAPS

NoGaps ==
    \A h \in Hosts : \E n \in 0 .. MaxClients :
        /\ \A g \in 1 .. MaxClients : link[<<h, g>>] # "none" <=> g <= n
        /\ candidates[h] <= n
NotMade == \A c \in Clients : link[c] = "none" => listeners[c] = "none" /\ c \notin held
ReadingIsConnected == \A c \in Clients : reading[c] => link[c] = "connected"
EagerReads ==
    \A c \in Clients : c[1] \in EagerHosts =>
        /\ link[c] = "connected" => reading[c]
        /\ Live(c) => InMap(c)

IInv ==
    /\ TypeOK /\ NoGaps /\ NotMade /\ ReadingIsConnected /\ EagerReads
    /\ ListenersOfOwner /\ NoOrphan

-----------------------------------------------------------------------------
(* The clients of a host.                                                    *)

LEMMA ClientOf ==
    ASSUME NEW c \in Clients
    PROVE  /\ c[1] \in Hosts /\ c[2] \in 1 .. MaxClients /\ c = <<c[1], c[2]>>
           /\ c[2] \in Nat /\ c[2] # 0
BY ClientsAssumption DEF Clients

LEMMA CountsMade ==
    ASSUME NoGaps, NEW h \in Hosts
    PROVE  /\ Made(h) \in 0 .. MaxClients /\ candidates[h] <= Made(h)
           /\ \A g \in 1 .. MaxClients : link[<<h, g>>] # "none" <=> g <= Made(h)
<1>1. PICK n \in 0 .. MaxClients :
         /\ \A g \in 1 .. MaxClients : link[<<h, g>>] # "none" <=> g <= n
         /\ candidates[h] <= n
  BY DEF NoGaps
<1>2. {g \in 1 .. MaxClients : link[<<h, g>>] # "none"} = 1 .. n
  BY <1>1, ClientsAssumption
<1>3. Cardinality(1 .. n) = n
  BY <1>1, ClientsAssumption, FS_Interval
<1>4. Made(h) = n
  BY <1>2, <1>3 DEF Made
<1> QED BY <1>1, <1>4

-----------------------------------------------------------------------------
(* discover().                                                               *)

LEMMA DiscoverKeeps ==
    ASSUME IInv, NEW subnet \in SUBSET Hosts, Discover(subnet) PROVE IInv'
<1> DEFINE made(c) == New(c, subnet)
<1>1. /\ candidates' = [h \in Hosts |-> IF h \in Scanned(subnet) THEN Made(h) + 1
                                        ELSE IF Erased(h) THEN 0 ELSE candidates[h]]
      /\ link' = [c \in Clients |-> IF New(c, subnet) THEN "connecting"
                                    ELSE IF Dies(c) THEN "closed" ELSE link[c]]
      /\ listeners' = [c \in Clients |-> IF New(c, subnet) THEN "discovery"
                                         ELSE IF Dies(c) THEN "none" ELSE listeners[c]]
      /\ reading' = reading /\ held' = held
  BY DEF Discover
<1>2. TypeOK /\ NoGaps /\ NotMade /\ ReadingIsConnected /\ EagerReads
      /\ ListenersOfOwner /\ NoOrphan
  BY DEF IInv
<1>3. ASSUME NEW h \in Scanned(subnet)
      PROVE  h \in Hosts /\ Made(h) + 1 \in 1 .. MaxClients
  BY <1>2, CountsMade, ClientsAssumption DEF Scanned
<1>4. ASSUME NEW c \in Clients, New(c, subnet)
      PROVE  /\ link[c] = "none" /\ c \notin held /\ ~reading[c] /\ ~InMap(c)
             /\ candidates'[c[1]] = c[2]
  <2>1. c[1] \in Hosts /\ c[2] = Made(c[1]) + 1 /\ Made(c[1]) \in Nat
        /\ candidates[c[1]] <= Made(c[1]) /\ candidates[c[1]] \in Nat
    BY <1>2, <1>4, ClientOf, CountsMade, ClientsAssumption DEF New, TypeOK
  <2>2. link[c] = "none"
    <3>1. link[<<c[1], c[2]>>] # "none" <=> c[2] <= Made(c[1])
      BY <1>2, <2>1, ClientOf, CountsMade
    <3> QED BY <3>1, <2>1, ClientOf
  <2>3. candidates'[c[1]] = c[2]
    BY <1>1, <1>4, <2>1 DEF New
  <2>4. ~InMap(c)
    BY <2>1 DEF InMap
  <2> QED BY <1>2, <2>2, <2>3, <2>4 DEF NotMade, ReadingIsConnected
<1>5. ASSUME NEW c \in Clients, ~New(c, subnet), InMap(c)
      PROVE  \/ InMap(c)' /\ ~Erased(c[1]) /\ ~Dies(c)
             \/ Erased(c[1]) /\ ~reading[c] /\ (Dies(c) \/ c \in held)
  <2>1. c[1] \in Hosts /\ candidates[c[1]] = c[2] /\ c[2] # 0 /\ c = <<c[1], c[2]>>
    BY <1>5, ClientOf DEF InMap
  <2>2. CASE Erased(c[1])
    BY <2>1, <2>2, <1>5 DEF Erased, Dies
  <2>3. CASE ~Erased(c[1])
    <3>1. c[1] \notin Scanned(subnet)
      BY <2>1, <2>3 DEF Scanned
    <3> QED BY <1>1, <2>1, <2>3, <3>1 DEF InMap, Dies
  <2> QED BY <2>2, <2>3
<1>6. ASSUME NEW c \in Clients, ~New(c, subnet), ~InMap(c) PROVE ~Dies(c)
  BY <1>6 DEF Dies
<1>7. TypeOK'
  <2>1. candidates' \in [Hosts -> 0 .. MaxClients]
    <3>1. ASSUME NEW h \in Hosts PROVE candidates'[h] \in 0 .. MaxClients
      BY <1>1, <1>2, <1>3, ClientsAssumption DEF TypeOK
    <3> QED BY <1>1, <3>1
  <2>2. link' \in [Clients -> {"none", "connecting", "connected", "failed", "closed"}]
    BY <1>1, <1>2 DEF TypeOK
  <2>3. listeners' \in [Clients -> {"none", "discovery", "user"}]
    BY <1>1, <1>2 DEF TypeOK
  <2> QED BY <1>1, <1>2, <2>1, <2>2, <2>3 DEF TypeOK
<1>8. NoGaps'
  <2> SUFFICES ASSUME NEW h \in Hosts
               PROVE  \E n \in 0 .. MaxClients :
                         /\ \A g \in 1 .. MaxClients : link'[<<h, g>>] # "none" <=> g <= n
                         /\ candidates'[h] <= n
    BY DEF NoGaps
  <2>1. /\ Made(h) \in 0 .. MaxClients /\ candidates[h] <= Made(h)
        /\ \A g \in 1 .. MaxClients : link[<<h, g>>] # "none" <=> g <= Made(h)
    BY <1>2, CountsMade
  <2>2. ASSUME NEW g \in 1 .. MaxClients
        PROVE  link'[<<h, g>>] # "none" <=>
                  link[<<h, g>>] # "none" \/ (h \in Scanned(subnet) /\ g = Made(h) + 1)
    <3>1. <<h, g>> \in Clients /\ <<h, g>>[1] = h /\ <<h, g>>[2] = g
      BY DEF Clients
    <3>2. Dies(<<h, g>>) => link[<<h, g>>] # "none"
      <4> SUFFICES ASSUME Dies(<<h, g>>) PROVE link[<<h, g>>] # "none"
        OBVIOUS
      <4>1. candidates[h] = g
        BY <3>1 DEF Dies, InMap
      <4> QED BY <2>1, <4>1
    <3> QED BY <1>1, <3>1, <3>2 DEF New
  <2>3. CASE h \in Scanned(subnet)
    <3>1. Made(h) + 1 \in 0 .. MaxClients /\ candidates'[h] = Made(h) + 1
      BY <1>1, <1>3, <2>3
    <3>2. \A g \in 1 .. MaxClients : link'[<<h, g>>] # "none" <=> g <= Made(h) + 1
      BY <2>1, <2>2, <2>3, ClientsAssumption
    <3> QED BY <3>1, <3>2, ClientsAssumption
  <2>4. CASE h \notin Scanned(subnet)
    <3>1. candidates'[h] <= Made(h)
      BY <1>1, <2>1, <2>4
    <3>2. \A g \in 1 .. MaxClients : link'[<<h, g>>] # "none" <=> g <= Made(h)
      BY <2>1, <2>2, <2>4
    <3> QED BY <2>1, <3>1, <3>2
  <2> QED BY <2>3, <2>4
<1>9. NotMade' /\ ReadingIsConnected'
  <2> SUFFICES ASSUME NEW c \in Clients
               PROVE  /\ link'[c] = "none" => listeners'[c] = "none" /\ c \notin held'
                      /\ reading'[c] => link'[c] = "connected"
    BY <1>1 DEF NotMade, ReadingIsConnected
  <2>1. CASE New(c, subnet)
    BY <2>1, <1>1, <1>4
  <2>2. CASE ~New(c, subnet)
    <3>1. Dies(c) => ~reading[c]
      BY <2>2, <1>5, <1>6
    <3> QED BY <2>2, <3>1, <1>1, <1>2 DEF NotMade, ReadingIsConnected
  <2> QED BY <2>1, <2>2
<1>10. ListenersOfOwner'
  <2> SUFFICES ASSUME NEW c \in Clients
               PROVE  /\ c \in held' => listeners'[c] = "user" /\ link'[c] # "connecting"
                      /\ listeners'[c] = "discovery" => InMap(c)' /\ link'[c] = "connecting"
                      /\ listeners'[c] = "user" => c \in held'
    BY DEF ListenersOfOwner
  <2>1. CASE New(c, subnet)
    BY <2>1, <1>1, <1>4 DEF InMap
  <2>2. CASE ~New(c, subnet) /\ Dies(c)
    BY <2>2, <1>1 DEF Dies
  <2>3. CASE ~New(c, subnet) /\ ~Dies(c)
    <3>1. listeners'[c] = listeners[c] /\ link'[c] = link[c] /\ held' = held
      BY <2>3, <1>1
    <3>2. /\ c \in held => listeners[c] = "user" /\ link[c] # "connecting"
          /\ listeners[c] = "discovery" => InMap(c) /\ link[c] = "connecting"
          /\ listeners[c] = "user" => c \in held
      BY <1>2 DEF ListenersOfOwner
    <3>3. listeners[c] = "discovery" => InMap(c)'
      BY <2>3, <3>2, <1>5
    <3> QED BY <3>1, <3>2, <3>3
  <2> QED BY <2>1, <2>2, <2>3
<1>11. NoOrphan' /\ EagerReads'
  <2> SUFFICES ASSUME NEW c \in Clients
               PROVE  /\ Live(c)' => InMap(c)' \/ c \in held'
                      /\ c[1] \in EagerHosts =>
                            /\ link'[c] = "connected" => reading'[c]
                            /\ Live(c)' => InMap(c)'
    BY DEF NoOrphan, EagerReads
  <2>1. CASE New(c, subnet)
    BY <2>1, <1>1, <1>4 DEF InMap
  <2>2. CASE ~New(c, subnet) /\ Dies(c)
    BY <2>2, <1>1 DEF Live
  <2>3. CASE ~New(c, subnet) /\ ~Dies(c)
    <3>1. link'[c] = link[c] /\ held' = held /\ reading'[c] = reading[c]
      BY <2>3, <1>1
    <3>2. /\ Live(c) => InMap(c) \/ c \in held
          /\ c \in held => link[c] # "connecting"
          /\ c[1] \in EagerHosts => /\ link[c] = "connected" => reading[c]
                                    /\ Live(c) => InMap(c)
      BY <1>2 DEF NoOrphan, ListenersOfOwner, EagerReads
    <3>3. Live(c)' <=> Live(c)
      BY <3>1 DEF Live
    <3>4. InMap(c) => InMap(c)' \/ (c \in held /\ ~reading[c])
      BY <2>3, <1>5
    <3>5. Live(c) <=> link[c] = "connecting" \/ link[c] = "connected"
      BY DEF Live
    <3> QED BY <3>1, <3>2, <3>3, <3>4, <3>5
  <2> QED BY <2>1, <2>2, <2>3
<1> QED BY <1>7, <1>8, <1>9, <1>10, <1>11 DEF IInv

-----------------------------------------------------------------------------
(* The other steps change one client and leave the map alone.                *)

OfOne(c) ==
    /\ candidates' = candidates /\ TypeOK'
    /\ \A d \in Clients : d # c =>
          /\ link'[d] = link[d] /\ reading'[d] = reading[d]
          /\ listeners'[d] = listeners[d] /\ (d \in held' <=> d \in held)

LEMMA OneKeeps ==
    ASSUME IInv, NEW c \in Clients, OfOne(c),
           link[c] # "none", link'[c] # "none",
           reading'[c] => link'[c] = "connected",
           c[1] \in EagerHosts /\ link'[c] = "connected" => reading'[c],
           Live(c)' => Live(c),
           c \in held' => listeners'[c] = "user" /\ link'[c] # "connecting",
           listeners'[c] = "discovery" => InMap(c) /\ link'[c] = "connecting",
           listeners'[c] = "user" => c \in held',
           Live(c)' => InMap(c) \/ c \in held'
    PROVE  IInv'
<1>1. NoGaps'
  <2> SUFFICES ASSUME NEW h \in Hosts
               PROVE  \E n \in 0 .. MaxClients :
                         /\ \A g \in 1 .. MaxClients : link'[<<h, g>>] # "none" <=> g <= n
                         /\ candidates'[h] <= n
    BY DEF NoGaps
  <2>1. PICK n \in 0 .. MaxClients :
           /\ \A g \in 1 .. MaxClients : link[<<h, g>>] # "none" <=> g <= n
           /\ candidates[h] <= n
    BY DEF IInv, NoGaps
  <2>2. ASSUME NEW g \in 1 .. MaxClients
        PROVE  link'[<<h, g>>] # "none" <=> link[<<h, g>>] # "none"
    <3>1. <<h, g>> \in Clients
      BY DEF Clients
    <3> QED BY <3>1 DEF OfOne
  <2> QED BY <2>1, <2>2 DEF OfOne
<1>2. \A d \in Clients : InMap(d)' <=> InMap(d)
  BY DEF OfOne, InMap
<1>3. \A d \in Clients : d # c => (Live(d)' <=> Live(d))
  BY DEF OfOne, Live
<1>4. NotMade' /\ ReadingIsConnected'
  BY DEF IInv, OfOne, NotMade, ReadingIsConnected
<1>5. EagerReads'
  BY <1>2, <1>3, Zenon DEF IInv, OfOne, EagerReads
<1>6. ListenersOfOwner'
  BY <1>2, Zenon DEF IInv, OfOne, ListenersOfOwner
<1>7. NoOrphan'
  BY <1>2, <1>3, Zenon DEF IInv, OfOne, NoOrphan
<1> QED BY <1>1, <1>4, <1>5, <1>6, <1>7, Zenon DEF IInv, OfOne

LEMMA StepKeeps == IInv /\ [Next]_vars => IInv'
<1> SUFFICES ASSUME IInv, [Next]_vars PROVE IInv'
  OBVIOUS
<1>0. TypeOK /\ ReadingIsConnected /\ EagerReads /\ ListenersOfOwner /\ NoOrphan /\ NotMade
  BY DEF IInv
<1>1. ASSUME NEW subnet \in {Hosts, {}}, Discover(subnet) PROVE IInv'
  BY <1>1, DiscoverKeeps
<1>2. ASSUME NEW c \in Clients, ConnectEvent(c) PROVE IInv'
  <2>1. /\ link[c] = "connecting" /\ link'[c] = "connected" /\ listeners'[c] = "user"
        /\ c \in held' /\ (reading'[c] <=> c[1] \in EagerHosts)
    BY <1>0, <1>2 DEF ConnectEvent, HandedOver, TypeOK
  <2>2. TypeOK'
    BY <1>0, <1>2 DEF ConnectEvent, HandedOver, TypeOK
  <2>3. OfOne(c)
    BY <1>0, <1>2, <2>2 DEF ConnectEvent, OfOne, TypeOK
  <2> QED BY <2>1, <2>3, OneKeeps DEF Live
<1>3. ASSUME NEW c \in Clients, ErrorEvent(c) PROVE IInv'
  <2>1. /\ link[c] = "connecting" /\ link'[c] = "failed" /\ listeners'[c] = "none"
        /\ c \notin held' /\ ~reading'[c]
    BY <1>0, <1>3 DEF ErrorEvent, TypeOK, ListenersOfOwner, ReadingIsConnected
  <2>2. TypeOK'
    BY <1>0, <1>3 DEF ErrorEvent, TypeOK
  <2>3. OfOne(c)
    BY <1>0, <1>3, <2>2 DEF ErrorEvent, OfOne, TypeOK
  <2> QED BY <2>1, <2>3, OneKeeps DEF Live
<1>4. ASSUME NEW c \in Clients, FirstRequest(c) PROVE IInv'
  <2>1. /\ link[c] = "connected" /\ link' = link /\ listeners'[c] = "user"
        /\ c \in held' /\ reading'[c]
    BY <1>0, <1>4 DEF FirstRequest, TypeOK, ListenersOfOwner
  <2>2. TypeOK'
    BY <1>0, <1>4 DEF FirstRequest, TypeOK
  <2>3. OfOne(c)
    BY <1>0, <1>4, <2>2 DEF FirstRequest, OfOne, TypeOK
  <2> QED BY <2>1, <2>3, OneKeeps DEF Live
<1>5. ASSUME NEW c \in Clients, Release(c) PROVE IInv'
  <2>0. c \in held /\ link[c] # "none" /\ link[c] # "connecting"
    BY <1>0, <1>5 DEF Release, ResetListeners, NotMade, ListenersOfOwner
  <2>1. listeners'[c] = "none" /\ c \notin held'
    BY <1>0, <1>5 DEF Release, ResetListeners, TypeOK
  <2>2. \/ InMap(c) /\ link'[c] = link[c] /\ reading'[c] = reading[c]
        \/ link'[c] = "closed" /\ ~reading'[c]
    BY <1>0, <1>5 DEF Release, ResetListeners, TypeOK
  <2>3. TypeOK'
    BY <1>0, <1>5 DEF Release, ResetListeners, TypeOK
  <2>4. OfOne(c)
    BY <1>0, <1>5, <2>3 DEF Release, ResetListeners, OfOne, TypeOK
  <2>5. reading'[c] => link'[c] = "connected"
    BY <1>0, <2>2 DEF ReadingIsConnected
  <2>6. c[1] \in EagerHosts /\ link'[c] = "connected" => reading'[c]
    BY <1>0, <2>2 DEF EagerReads
  <2>7. Live(c)' => Live(c) /\ InMap(c)
    BY <2>2 DEF Live
  <2> QED BY <2>0, <2>1, <2>2, <2>4, <2>5, <2>6, <2>7, OneKeeps
<1>6. ASSUME NEW c \in Clients, ConnectionLost(c) PROVE IInv'
  <2>1. /\ link[c] = "connected" /\ link'[c] = "closed" /\ listeners'[c] = listeners[c]
        /\ (c \in held' <=> c \in held) /\ ~reading'[c]
    BY <1>0, <1>6 DEF ConnectionLost, TypeOK
  <2>2. TypeOK'
    BY <1>0, <1>6 DEF ConnectionLost, TypeOK
  <2>3. OfOne(c)
    BY <1>0, <1>6, <2>2 DEF ConnectionLost, OfOne, TypeOK
  <2>4. /\ c \in held => listeners[c] = "user"
        /\ listeners[c] = "discovery" => link[c] = "connecting"
        /\ listeners[c] = "user" => c \in held
    BY <1>0 DEF ListenersOfOwner
  <2> QED BY <2>1, <2>3, <2>4, OneKeeps DEF Live
<1>7. CASE UNCHANGED vars
  BY <1>7, Zenon DEF IInv, vars, TypeOK, NoGaps, NotMade, ReadingIsConnected, EagerReads,
        ListenersOfOwner, NoOrphan, Live, InMap
<1> QED BY <1>1, <1>2, <1>3, <1>4, <1>5, <1>6, <1>7 DEF Next

LEMMA InitHolds == Init => IInv
<1> SUFFICES ASSUME Init PROVE IInv
  OBVIOUS
<1>1. TypeOK
  BY ClientsAssumption DEF Init, TypeOK
<1>2. NoGaps
  <2> SUFFICES ASSUME NEW h \in Hosts
               PROVE  /\ \A g \in 1 .. MaxClients : link[<<h, g>>] # "none" <=> g <= 0
                      /\ candidates[h] <= 0
    BY ClientsAssumption DEF NoGaps
  <2>1. \A g \in 1 .. MaxClients : <<h, g>> \in Clients
    BY DEF Clients
  <2> QED BY <2>1 DEF Init
<1>3. NotMade /\ ReadingIsConnected /\ EagerReads /\ ListenersOfOwner /\ NoOrphan
  BY DEF Init, NotMade, ReadingIsConnected, EagerReads, ListenersOfOwner, NoOrphan, Live
<1> QED BY <1>1, <1>2, <1>3 DEF IInv

LEMMA Inductive == Spec => []IInv
BY InitHolds, StepKeeps, PTL DEF Spec

-----------------------------------------------------------------------------
(* The theorems.                                                             *)

(* The map, the connections and the listeners keep their types.              *)
THEOREM DiscoveryTypeCorrect == Spec => []TypeOK
<1>1. IInv => TypeOK
  BY DEF IInv
<1> QED BY <1>1, Inductive, PTL

(* The listeners of discover() are on no client that was handed over, those  *)
(* of the user on every client that it holds and on no other: none on a       *)
(* client that failed, was let go of or was given up.                        *)
THEOREM ListenersCorrect == Spec => []ListenersOfOwner
<1>1. IInv => ListenersOfOwner
  BY DEF IInv
<1> QED BY <1>1, Inductive, PTL

(* No connection is left open that nobody can close.                         *)
THEOREM NoOrphanCorrect == Spec => []NoOrphan
<1>1. IInv => NoOrphan
  BY DEF IInv
<1> QED BY <1>1, Inductive, PTL

(* A device of a user who reads at once has one connection at most.          *)
THEOREM OneConnectionCorrect == Spec => []OneConnection
<1>1. IInv => OneConnection
  <2> SUFFICES ASSUME IInv, NEW h \in EagerHosts,
                      NEW g \in 1 .. MaxClients, NEW k \in 1 .. MaxClients,
                      Live(<<h, g>>), Live(<<h, k>>)
               PROVE  g = k
    BY DEF OneConnection, Alone
  <2>1. <<h, g>> \in Clients /\ <<h, k>> \in Clients
    BY UserAssumption DEF Clients
  <2>2. InMap(<<h, g>>) /\ InMap(<<h, k>>)
    BY <2>1 DEF IInv, EagerReads
  <2> QED BY <2>2 DEF InMap
<1> QED BY <1>1, Inductive, PTL
=============================================================================
