------------------------------- MODULE Cmqtt -------------------------------
(***************************************************************************)
(* The program: the Hall thread's start-up (core_init and core_do_test in  *)
(* core/core.c, init_mqtt_client in core/mqtta.c) composed with the client *)
(* library of AsyncClient and the message dispatch of Dispatch.            *)
(*                                                                         *)
(* Hall connects, sleeps, asserts that the client is connected, loads the  *)
(* topic table, and subscribes to its topics through the library.  The     *)
(* library's receive thread calls my_mqqta_recvmsg, which is               *)
(* decode_msg_handle, for every message the broker publishes.              *)
(***************************************************************************)
EXTENDS AsyncClient, Dispatch

\* The bound on subscriptions under way leaves room for the whole table.
ASSUME CmqttAssumption == Filters = BuiltIn /\ MaxSubs >= ctr_table_size + 2

VARIABLES boot  \* where Hall is before initTopicConf

cmqttVars == <<boot, clientVars, dispatchVars>>

running == alive /\ boot # "abort"

CmqttInit == boot = "connect" /\ ClientInit /\ DispatchInit

-----------------------------------------------------------------------------
(* The Hall thread. *)

\* init_mqtt_client up to its sleep(2).
init_mqtt_client ==
    /\ boot = "connect"
    /\ boot' = "sleep"
    /\ appConnect
    /\ UNCHANGED dispatchVars

\* Variant of assertConnected: connect once more instead of giving up.
assertConnectedRetry ==
    /\ boot = "sleep"
    /\ MutexFree
    /\ boot' = "conf"
    /\ commands' = IF connected THEN commands ELSE addCommand(commands, Connect(0, TRUE))
    /\ UNCHANGED <<connect, callback, linkVars, sessionVars, recvThreadVars, appVars,
                   budgetVars, dispatchVars>>

\* assert(MQTTAsync_isConnected(client)), some time later.
assertConnected ==
    /\ boot = "sleep"
    /\ MutexFree
    /\ boot' = IF connected THEN "conf" ELSE "abort"
    /\ UNCHANGED <<clientVars, dispatchVars>>

\* Variant of loadTable: the table is loaded again later, clearing the counters.
loadTableAgain ==
    /\ boot = "conf"
    /\ \/ initTopicConf \/ initTopicConfExit
       \/ /\ hall = "idle"
          /\ cnt' = [i \in 1..topicNumLocal |-> 0]
          /\ UNCHANGED <<hallVars, msgcnt, unregistered, pHandle, cur, lastCall>>
    /\ UNCHANGED <<boot, clientVars>>

loadTable ==
    /\ boot = "conf"
    /\ initTopicConf \/ initTopicConfExit
    /\ UNCHANGED <<boot, clientVars>>

\* my_subsribe_topic for the next entry of the table; the loop goes on when
\* MQTTAsync_subscribe has returned.
my_subsribe_topic == \E t \in BuiltIn : regTopic(t) /\ subscribeMany(t) /\ UNCHANGED boot

inSubscribe == (assignMsgId \/ subscribeAdd) /\ UNCHANGED <<boot, dispatchVars>>

core_do_test ==
    /\ app = "idle"
    /\ regDone \/ statsTotal \/ statsRow \/ statsDone
    /\ UNCHANGED <<boot, clientVars>>

hallStep ==
    \/ init_mqtt_client \/ assertConnected \/ loadTable
    \/ my_subsribe_topic \/ inSubscribe \/ core_do_test

-----------------------------------------------------------------------------
(* The receive thread delivers a message and decodes it. *)

\* Variant of my_mqqta_recvmsg: the message is read and never handed on.
my_mqqta_recvmsgDropped ==
    /\ reading("PUBLISH")
    /\ cycleResult("OK", NoPacket)
    /\ UNCHANGED <<commands, callback, pingOut, outb, boot, dispatchVars>>

my_mqqta_recvmsg ==
    /\ cyclePublish
    /\ recvMsg(Head(inb).topic) \/ recvMsgNoDb(Head(inb).topic)
    /\ UNCHANGED boot

decode_msg_handle == dispatchMsg /\ messageDone /\ UNCHANGED boot

clientStep(A) == A /\ UNCHANGED <<boot, dispatchVars>>

Stopped == ~running /\ UNCHANGED cmqttVars

CmqttNext ==
    \/ running /\ (\/ hallStep \/ my_mqqta_recvmsg \/ decode_msg_handle
                   \/ clientStep(libraryStep))
    \/ Stopped

\* Every thread goes on when it can; timers that are due fire; an established
\* connection is answered.  Failures need no fairness and are finitely many.
CmqttFairness ==
    /\ WF_cmqttVars(running /\ hallStep)
    /\ WF_cmqttVars(running /\ my_mqqta_recvmsg) /\ WF_cmqttVars(running /\ decode_msg_handle)
    /\ WF_cmqttVars(running /\ clientStep(processCommand))
    /\ WF_cmqttVars(running /\ clientStep(checkTimeouts))
    /\ WF_cmqttVars(running /\ clientStep(select))
    /\ WF_cmqttVars(running /\ clientStep(cycleIdle))
    /\ WF_cmqttVars(running /\ clientStep(cycleSocket))
    /\ WF_cmqttVars(running /\ clientStep(handleResult))
    /\ WF_cmqttVars(running /\ clientStep(reconnected))
    /\ WF_cmqttVars(running /\ clientStep(tcpUp))
    /\ WF_cmqttVars(running /\ clientStep(brokerConnect \/ brokerSubscribe \/ brokerPing))

CmqttSpec == CmqttInit /\ [][CmqttNext]_cmqttVars
CmqttFairSpec == CmqttSpec /\ CmqttFairness

-----------------------------------------------------------------------------
(* Properties. *)

\* The client library's part of every step is a step of its specification.
ImplementsClient == ClientSpec

\* Hall's and the receive thread's work on the table and the counters follows
\* the specification of the dispatcher, which takes for granted that no message
\* comes before the first subscription.
ImplementsDispatch == DispatchSpec

\* Once the failures end, the client is connected and stays so, whatever the
\* failures left in the command queue, unless the process ends.
ConnectedForGood == <>[](connected \/ ~running)

\* The topics the table enables.
enabledTopics == {ctr_handle_tab[handleTableLocal[k]] : k \in 1..topicNumLocal}

\* Every instance decodes the topics its configuration assigns to it: in the
\* end it is subscribed to all of them (or the process has ended).
SubscribedForGood == <>[]((hall = "idle" /\ subs = enabledTopics) \/ ~running)

\* It is as long as nothing fails.
SubscribedUnlessFailure ==
    <>[]((hall = "idle" /\ subs = enabledTopics) \/ ~running \/ faults > 0)

\* Every message the broker publishes is decoded in the end, as long as nothing
\* fails: QoS 0 promises no more.
EveryMessageDecoded ==
    <>[]((msgcnt = published /\ cur = None) \/ ~running \/ faults > 0)

\* The assertion of init_mqtt_client never fails.
AssertionHolds == boot # "abort"

=============================================================================
