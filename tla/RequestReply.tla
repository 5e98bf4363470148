---------------------------- MODULE RequestReply ----------------------------
(***************************************************************************)
(* What ModbusClient promises a caller that waits for the outcome of one    *)
(* readHoldingRegisters before it issues the next, as SunSpecClient does:   *)
(* the i-th outcome the caller hears answers its i-th request, a response    *)
(* carries the userData of that request, and once disconnect() was called    *)
(* no outcome is heard.  Transport, transaction ids and buffers do not       *)
(* appear here.                                                              *)
(***************************************************************************)
EXTENDS Naturals, Sequences

VARIABLES
    asked,      \* how many requests the caller has issued
    heard,      \* the outcomes it has heard, oldest first
    open        \* FALSE once the caller has disconnected

rrVars == <<asked, heard, open>>

(* userData 0 is what an exception carries; request r is issued with userData r. *)
Outcomes(r) == {[kind |-> "response", req |-> r, user |-> r],
                [kind |-> "exception", req |-> r, user |-> 0]}

RRInit == asked = 0 /\ heard = <<>> /\ open = TRUE

Ask ==
    /\ open
    /\ asked = Len(heard)
    /\ asked' = asked + 1
    /\ UNCHANGED <<heard, open>>

(* The caller hears the outcome, and may issue its next request from within *)
(* the callback that delivers it.                                            *)
Hear ==
    /\ open
    /\ Len(heard) < asked
    /\ \E outcome \in Outcomes(Len(heard) + 1) : heard' = Append(heard, outcome)
    /\ asked' \in {asked, asked + 1}
    /\ UNCHANGED open

Leave ==
    /\ open
    /\ open' = FALSE
    /\ UNCHANGED <<asked, heard>>

RRNext == Ask \/ Hear \/ Leave

RRSpec == RRInit /\ [][RRNext]_rrVars
=============================================================================
