--------------------------- MODULE ModbusDiscovery ---------------------------
(***************************************************************************)
(* modbus::ModbusDiscovery: discover() runs again and again from the user's   *)
(* timer, connects a ModbusClient to every host of the subnet that has none,  *)
(* and publishes the client once it is connected; the user shares it with     *)
(* the map _candidates.  A ModbusClient lives as long as someone holds it.    *)
(*                                                                           *)
(* <<h, g>> is the g-th client made for host h.  isConnected() is active():   *)
(* libuv calls a TCP handle active while it reads, and reading starts with    *)
(* the first write_event (module ModbusClient).                              *)
(***************************************************************************)
EXTENDS Naturals, FiniteSets

CONSTANTS
    Hosts,        \* the addresses of the subnet
    MaxClients,   \* bound: clients made for one host
    EagerHosts    \* hosts whose client the user reads from in the callback that
                  \*   hands it over, as SunSpecDiscovery::discover() does

ASSUME ClientsAssumption == MaxClients \in Nat \ {0}
ASSUME UserAssumption == EagerHosts \subseteq Hosts

VARIABLES
    candidates,   \* _candidates: host -> the generation of its client, 0: none
    link,         \* of each client: its TCP connection
    reading,      \* of each client: isConnected()
    listeners,    \* of each client: whose listeners are set on it
    held          \* the clients the user holds

vars == <<candidates, link, reading, listeners, held>>

Clients == Hosts \X (1 .. MaxClients)

TypeOK ==
    /\ candidates \in [Hosts -> 0 .. MaxClients]
    /\ link \in [Clients -> {"none", "connecting", "connected", "failed", "closed"}]
    /\ reading \in [Clients -> BOOLEAN]
    /\ listeners \in [Clients -> {"none", "discovery", "user"}]
    /\ held \subseteq Clients

Init ==
    /\ candidates = [h \in Hosts |-> 0]
    /\ link = [c \in Clients |-> "none"]
    /\ reading = [c \in Clients |-> FALSE]
    /\ listeners = [c \in Clients |-> "none"]
    /\ held = {}

Made(h) == Cardinality({g \in 1 .. MaxClients : link[<<h, g>>] # "none"})
InMap(c) == candidates[c[1]] = c[2]

-----------------------------------------------------------------------------
(* discover().                                                               *)

(* Mutants of Erased: no client is thrown out of the map, or all of them.    *)
EraseNone(h) == FALSE
EraseAll(h) == candidates[h] # 0

(* erase_if(_candidates, !isConnected()).                                    *)
Erased(h) == candidates[h] # 0 /\ ~reading[<<h, candidates[h]>>]

(* The hosts that get a new client, of those the subnet has.                 *)
Scanned(subnet) ==
    {h \in subnet : (candidates[h] = 0 \/ Erased(h)) /\ Made(h) < MaxClients}

New(c, subnet) == c[1] \in Scanned(subnet) /\ c[2] = Made(c[1]) + 1

(* Mutant of Dies: ~ModbusClient() leaves the connection alone.              *)
NeverDies(c) == FALSE

(* A client nobody holds any more disconnects in its destructor.             *)
Dies(c) == Erased(c[1]) /\ InMap(c) /\ c \notin held

(* subnet: the hosts, or none when no interface has a netmask to scan.       *)
Discover(subnet) ==
    /\ candidates' = [h \in Hosts |-> IF h \in Scanned(subnet) THEN Made(h) + 1
                                      ELSE IF Erased(h) THEN 0 ELSE candidates[h]]
    /\ link' = [c \in Clients |-> IF New(c, subnet) THEN "connecting"
                                  ELSE IF Dies(c) THEN "closed" ELSE link[c]]
    /\ listeners' = [c \in Clients |-> IF New(c, subnet) THEN "discovery"
                                       ELSE IF Dies(c) THEN "none" ELSE listeners[c]]
    /\ UNCHANGED <<reading, held>>

-----------------------------------------------------------------------------
(* The listeners of discover().                                              *)

(* Mutants of HandedOver: publish, then reset; publish and do not reset.     *)
ResetAfterPublish == "none"
NotReset == "mixed"

(* reset, then publish: the user's listeners are set in the callback.        *)
HandedOver == "user"

ConnectEvent(c) ==
    /\ link[c] = "connecting"
    /\ link' = [link EXCEPT ![c] = "connected"]
    /\ listeners' = [listeners EXCEPT ![c] = HandedOver]
    /\ held' = held \cup {c}
    /\ reading' = [reading EXCEPT ![c] = c[1] \in EagerHosts]
    /\ UNCHANGED candidates

ErrorEvent(c) ==
    /\ link[c] = "connecting"
    /\ link' = [link EXCEPT ![c] = "failed"]
    /\ listeners' = [listeners EXCEPT ![c] = "none"]
    /\ UNCHANGED <<candidates, reading, held>>

-----------------------------------------------------------------------------
(* The user and the hosts.                                                   *)

(* The user's first request is written, and reading starts.                  *)
FirstRequest(c) ==
    /\ c \in held /\ link[c] = "connected" /\ ~reading[c]
    /\ reading' = [reading EXCEPT ![c] = TRUE]
    /\ UNCHANGED <<candidates, link, listeners, held>>

(* Mutant of ResetListeners: the user's listeners stay.                      *)
KeepListeners(c) == listeners

(* ~SunSpecClient() resets the ModbusClient.                                 *)
ResetListeners(c) == [listeners EXCEPT ![c] = "none"]

(* The user lets go of a client, having reset its listeners, as              *)
(* ~SunSpecClient does; the map may still hold it.                           *)
Release(c) ==
    /\ c \in held
    /\ held' = held \ {c}
    /\ listeners' = ResetListeners(c)
    /\ IF InMap(c) THEN UNCHANGED <<link, reading>>
       ELSE /\ link' = [link EXCEPT ![c] = "closed"]
            /\ reading' = [reading EXCEPT ![c] = FALSE]
    /\ UNCHANGED candidates

(* The host ends or loses a connection: only a client that reads notices.    *)
ConnectionLost(c) ==
    /\ link[c] = "connected" /\ reading[c]
    /\ link' = [link EXCEPT ![c] = "closed"]
    /\ reading' = [reading EXCEPT ![c] = FALSE]
    /\ UNCHANGED <<candidates, listeners, held>>

Next ==
    \/ \E subnet \in {Hosts, {}} : Discover(subnet)
    \/ \E c \in Clients :
          \/ ConnectEvent(c) \/ ErrorEvent(c) \/ FirstRequest(c)
          \/ Release(c) \/ ConnectionLost(c)

(* The user's timer calls discover() for ever, it finds a subnet to scan      *)
(* again and again, and a connect ends.                                      *)
Spec ==
    /\ Init /\ [][Next]_vars
    /\ WF_vars(Discover(Hosts))
    /\ \A c \in Clients : WF_vars(ConnectEvent(c) \/ ErrorEvent(c))

-----------------------------------------------------------------------------
(* Properties.                                                               *)

Live(c) == link[c] \in {"connecting", "connected"}

Alone(h) ==
    \A g, k \in 1 .. MaxClients : g # k => ~(Live(<<h, g>>) /\ Live(<<h, k>>))

(* A host is never connected to again while a client of it is connected or   *)
(* connects, so that a device that accepts one connection is not disturbed:  *)
(* if the user reads from a client at once.                                  *)
OneConnection == \A h \in EagerHosts : Alone(h)

(* The same of every user, as the comment in discover() has it.              *)
OneConnectionAnyUser == \A h \in Hosts : Alone(h)

(* The listeners on a client are those of who waits for its next event: of   *)
(* discover() only while the client is in the map and connects, of the user  *)
(* from the hand-over until the user lets go of it, none on a client that     *)
(* failed or was given up.                                                   *)
ListenersOfOwner ==
    \A c \in Clients :
        /\ c \in held => listeners[c] = "user" /\ link[c] # "connecting"
        /\ listeners[c] = "discovery" => InMap(c) /\ link[c] = "connecting"
        /\ listeners[c] = "user" => c \in held

(* A live connection always has an owner that can still close it.            *)
NoOrphan == \A c \in Clients : Live(c) => InMap(c) \/ c \in held

(* A host whose client failed or was closed is tried again.                  *)
TriedAgain ==
    \A h \in Hosts, g \in 1 .. MaxClients - 1 :
        candidates[h] = g /\ link[<<h, g>>] \in {"failed", "closed"}
            ~> link[<<h, g + 1>>] # "none"
=============================================================================
