---------------------------- MODULE DeliverySpec ----------------------------
(***************************************************************************)
(* What the delivery of messages promises, whichever side publishes: a     *)
(* message with quality of service 2 reaches its receiver once, one with   *)
(* quality of service 1 at least once before its sender is told that it    *)
(* has been delivered.  Only a crash of the client may add one arrival, or *)
(* let one sender be told of a message that never arrived.                 *)
(***************************************************************************)
EXTENDS Integers, FiniteSets

CONSTANT Messages

VARIABLES
    qos,        \* the quality of service of every message
    accepted,   \* the messages their sender has handed over
    arrived,    \* how often each message has reached its receiver
    told,       \* the messages whose sender knows them delivered
    crashes     \* how often the client has crashed

vars == <<qos, accepted, arrived, told, crashes>>

Init ==
    /\ qos \in [Messages -> 0..2]
    /\ accepted = {}
    /\ arrived = [m \in Messages |-> 0]
    /\ told = {}
    /\ crashes = 0

Accept ==
    /\ \E m \in Messages \ accepted : accepted' = accepted \cup {m}
    /\ UNCHANGED <<qos, arrived, told, crashes>>

\* Message m arrives once more, after n crashes.
Arrival(m, n) ==
    /\ m \in accepted
    /\ qos[m] = 2 => arrived[m] <= n
    /\ arrived' = [arrived EXCEPT ![m] = @ + 1]

Arrive ==
    /\ \E m \in Messages : Arrival(m, crashes)
    /\ UNCHANGED <<qos, accepted, told, crashes>>

\* The senders told of a message of quality 1 or 2 that has not arrived.
Misled(t) == {m \in t : qos[m] > 0 /\ arrived[m] = 0}

Tell ==
    /\ \E m \in accepted : told' = told \cup {m}
    /\ Cardinality(Misled(told')) <= crashes
    /\ UNCHANGED <<qos, accepted, arrived, crashes>>

\* A crash between two writes of one handler may leave the message delivered
\* and its record undeleted, so that it is delivered again later.
Crash ==
    /\ crashes' = crashes + 1
    /\ UNCHANGED arrived \/ \E m \in Messages : Arrival(m, crashes')
    /\ UNCHANGED <<qos, accepted, told>>

Next == Accept \/ Arrive \/ Tell \/ Crash

Spec == Init /\ [][Next]_vars
=============================================================================
