---------------------------- MODULE CmqttProofs ----------------------------
(***************************************************************************)
(* The program implements its two components, for every table,             *)
(* configuration and bound, so what is proved of each of them holds of the *)
(* program.  Two facts are needed that neither component knows:            *)
(*                                                                         *)
(*  - the library never has more subscriptions under way than regTopicFrom *)
(*    Table has reached entries of the table (QueuedInv), so the bound of  *)
(*    AsyncClient is never in the way of MQTTAsync_subscribe;              *)
(*  - no message arrives before the first subscription, and only messages  *)
(*    on topics of the table do (WireInv), which decode_msg_handle takes   *)
(*    for granted.                                                         *)
(***************************************************************************)
EXTENDS Cmqtt, SessionProofs, DispatchProofs

-----------------------------------------------------------------------------
(* What is on the wire. *)

\* The packets of this type in r are among those in s.
Taken(r, s, type) == \A x \in ToSet(r) : x.type = type => x \in ToSet(s)

\* A step that writes no SUBSCRIBE and brings no message.
WireStep ==
    /\ Taken(outb', outb, "SUBSCRIBE")
    /\ Taken(inb', inb, "PUBLISH")
    /\ subs' \subseteq subs

\* Leaving packets out, and adding one of another type.
LEMMA TakenPackets ==
    ASSUME NEW S, NEW s \in Seq(S), NEW type
    PROVE  /\ Taken(s, s, type) /\ Taken(<<>>, s, type)
           /\ s # <<>> => Taken(Tail(s), s, type)
           /\ \A p \in S : p.type # type => Taken(Append(s, p), s, type)
<1>1. s # <<>> => ToSet(s) = ToSet(Tail(s)) \cup {Head(s)}
  BY TailCommands, Zenon
<1>2. ASSUME NEW p \in S PROVE ToSet(Append(s, p)) = ToSet(s) \cup {p}
  BY AppendCommands
<1>3. ToSet(<<>>) = {}
  BY DEF ToSet
<1> QED
  BY <1>1, <1>2, <1>3 DEF Taken

\* The same for the two directions of the connection.
LEMMA TakenOnWire ==
    ASSUME TypeInv
    PROVE  /\ Taken(outb, outb, "SUBSCRIBE") /\ Taken(<<>>, outb, "SUBSCRIBE")
           /\ outb # <<>> => Taken(Tail(outb), outb, "SUBSCRIBE")
           /\ \A type \in {"CONNECT", "PINGREQ"} :
                 Taken(Append(outb, Packet(type, NoTopic, 0)), outb, "SUBSCRIBE")
           /\ Taken(<<Packet("CONNECT", NoTopic, 0)>>, outb, "SUBSCRIBE")
           /\ Taken(inb, inb, "PUBLISH") /\ Taken(<<>>, inb, "PUBLISH")
           /\ inb # <<>> => Taken(Tail(inb), inb, "PUBLISH")
           /\ \A p \in InPacket : p.type # "PUBLISH" => Taken(Append(inb, p), inb, "PUBLISH")
<1>1. outb \in Seq(OutPacket) /\ inb \in Seq(InPacket)
  BY DEF TypeInv, LinkTypeOK
<1>2. \A type \in {"CONNECT", "PINGREQ"} :
         Packet(type, NoTopic, 0) \in OutPacket /\ Packet(type, NoTopic, 0).type = type
  BY PlainPackets DEF Packet
<1>3. ASSUME NEW p, p.type # "SUBSCRIBE" PROVE Taken(<<p>>, outb, "SUBSCRIBE")
  BY <1>3 DEF Taken, ToSet
<1>4. \A type \in {"CONNECT", "PINGREQ"} :
         Taken(Append(outb, Packet(type, NoTopic, 0)), outb, "SUBSCRIBE")
  BY <1>1, <1>2, TakenPackets
<1> QED
  BY <1>1, <1>2, <1>3, <1>4, TakenPackets

\* Closing empties the connection.
LEMMA ClosedWire == TypeInv /\ closeOnly => WireStep
BY TakenOnWire DEF WireStep, closeOnly

\* Giving an attempt up closes it.
LEMMA NextOrCloseWire ==
    ASSUME TypeInv, NEW q, nextOrClose(q)
    PROVE  WireStep
BY ClosedWire DEF nextOrClose, closeSession

\* The keepalive writes a PINGREQ.
LEMMA RetryWire ==
    ASSUME TypeInv, NEW ping, retry(ping) \/ keepaliveDue(ping)
    PROVE  Taken(outb', outb, "SUBSCRIBE")
BY TakenOnWire DEF retry, keepaliveDue

\* The send thread writes a SUBSCRIBE in one place.
LEMMA SendThreadWire ==
    ASSUME TypeInv, processCommand \/ checkTimeouts
    PROVE  WireStep \/ processSubscribe
<1>1. ASSUME NEW fd \in Fds, processConnect(fd) PROVE WireStep
  BY <1>1, TakenOnWire DEF processConnect, startConnect, linkVars, WireStep
<1>2. ASSUME processConnectFail \/ processSubscribeError PROVE WireStep
  BY <1>2, TakenOnWire DEF processConnectFail, processSubscribeError, linkVars, WireStep
<1>3. ASSUME processDisconnect PROVE WireStep
  <2>1. closeOnly \/ UNCHANGED <<outb, inb, subs>>
    BY <1>3 DEF processDisconnect, closeSession, linkVars
  <2> QED
    BY <2>1, ClosedWire, TakenOnWire DEF WireStep
<1>4. ASSUME checkTimeouts PROVE WireStep
  BY <1>4, NextOrCloseWire DEF checkTimeouts
<1> QED
  BY <1>1, <1>2, <1>3, <1>4 DEF processCommand

\* The receive thread writes none, and only takes packets in.
LEMMA ReceiveThreadWire ==
    ASSUME TypeInv,
           select \/ cycleIdle \/ cycleSocket \/ handleResult \/ cyclePublish \/ messageDone
    PROVE  WireStep
<1>1. ASSUME select \/ cycleIdle \/ messageDone PROVE WireStep
  <2>1. UNCHANGED <<inb, subs>>
    BY <1>1 DEF select, cycleIdle, messageDone, linkVars
  <2>2. Taken(outb', outb, "SUBSCRIBE")
    BY <1>1, RetryWire, TakenOnWire DEF select, cycleIdle, messageDone, linkVars
  <2> QED
    BY <2>1, <2>2, TakenOnWire DEF WireStep
<1>2. ASSUME cycleNoClient \/ cycleNothing PROVE WireStep
  BY <1>2, RetryWire, TakenOnWire DEF cycleNoClient, cycleNothing, WireStep
<1>3. ASSUME cycleConnecting PROVE WireStep
  BY <1>3, TakenOnWire DEF cycleConnecting, WireStep
<1>4. ASSUME cycleConnectError PROVE WireStep
  BY <1>4, NextOrCloseWire DEF cycleConnectError
<1>5. ASSUME cyclePingresp \/ cycleAck PROVE WireStep
  BY <1>5, RetryWire, TakenOnWire DEF cyclePingresp, cycleAck, reading, WireStep
<1>6. ASSUME cycleReadError PROVE WireStep
  BY <1>6, NextOrCloseWire, RetryWire, TakenOnWire DEF cycleReadError, WireStep
<1>7. ASSUME cyclePublish PROVE WireStep
  BY <1>7, TakenOnWire DEF cyclePublish, reading, WireStep
<1>8. ASSUME handleNothing \/ handleSuback PROVE WireStep
  BY <1>8, TakenOnWire DEF handleNothing, handleSuback, linkVars, WireStep
<1>9. ASSUME handleError PROVE WireStep
  BY <1>9, NextOrCloseWire DEF handleError
<1>10. ASSUME handleConnack PROVE WireStep
  BY <1>10, NextOrCloseWire, TakenOnWire DEF handleConnack, WireStep
<1> QED
  BY <1>1, <1>2, <1>3, <1>4, <1>5, <1>6, <1>7, <1>8, <1>9, <1>10 DEF cycleSocket, handleResult

\* The broker publishes, and adds a subscription, in one place each.
LEMMA NetworkWire ==
    ASSUME TypeInv, network \/ reconnected
    PROVE  WireStep \/ brokerSubscribe \/ brokerPublish
<1>1. ASSUME tcpUp \/ tcpFail PROVE WireStep
  BY <1>1, TakenOnWire DEF tcpUp, tcpFail, WireStep
<1>2. ASSUME brokerConnect \/ brokerPing PROVE WireStep
  <2>1. PICK p \in InPacket : inb' = Append(inb, p) /\ p.type # "PUBLISH"
    <3>1. /\ Packet("CONNACK", NoTopic, 0).type # "PUBLISH"
          /\ Packet("CONNACK", NoTopic, 1).type # "PUBLISH"
          /\ Packet("PINGRESP", NoTopic, 0).type # "PUBLISH"
      BY DEF Packet
    <3> QED
      BY <1>2, <3>1, PlainPackets DEF brokerConnect, brokerPing
  <2> QED
    BY <1>2, <2>1, TakenOnWire DEF brokerConnect, brokerPing, brokerReads, WireStep
<1>3. ASSUME reconnected PROVE WireStep
  <2>1. closeOnly \/ UNCHANGED <<outb, inb, subs>>
    BY <1>3 DEF reconnected, closeSession, linkVars
  <2> QED
    BY <2>1, ClosedWire, TakenOnWire DEF WireStep
<1> QED
  BY <1>1, <1>2, <1>3 DEF network

-----------------------------------------------------------------------------
(* The invariants. *)

\* Messages come on topics of the table; before the first call of
\* my_subsribe_topic nothing has been subscribed to.
WireInv ==
    /\ \A x \in ToSet(inb) : x.type = "PUBLISH" => x.topic \in Filters
    /\ asked = {} => /\ idx = 1
                     /\ subs = {}
                     /\ \A x \in ToSet(outb) : x.type # "SUBSCRIBE"
                     /\ \A x \in ToSet(inb) : x.type # "PUBLISH"

\* The subscription the application is making.
Pending == IF app \in {"assign", "add"} THEN 1 ELSE 0

\* Every subscription under way is for an entry of the table already reached.
QueuedInv ==
    /\ idx \in Nat
    /\ \E n \in Nat : AtMost(commands, n) /\ n + Len(responses) + Pending < idx

CmqttInv == TypeInv /\ TableInv /\ CallInv /\ WireInv /\ QueuedInv

\* Without a call of my_subsribe_topic there is no SUBSCRIBE to process.
LEMMA NothingQueued ==
    ASSUME TypeInv, QueuedInv, idx = 1, commands # <<>>
    PROVE  Head(commands).type # "SUBSCRIBE"
<1>1. commands \in Seq(CommandType) /\ Len(responses) \in Nat
  BY DEF TypeInv, GoodQueue, SessionTypeOK
<1>2. PICK n \in Nat : AtMost(commands, n) /\ n + Len(responses) + Pending < idx
  BY DEF QueuedInv
<1>3. Pending \in {0, 1}
  BY DEF Pending
<1>4. n = 0
  BY <1>1, <1>2, <1>3
<1> QED
  BY <1>1, <1>2, <1>4, AtMostTail

\* The library keeps WireInv.
LEMMA LibraryWire ==
    ASSUME TypeInv, WireInv, QueuedInv, libraryStep \/ cyclePublish \/ messageDone,
           UNCHANGED <<asked, idx>>
    PROVE  WireInv'
<1>1. outb \in Seq(OutPacket) /\ inb \in Seq(InPacket) /\ subs \subseteq Filters
  BY DEF TypeInv, LinkTypeOK
<1>2. WireStep \/ processSubscribe \/ brokerSubscribe \/ brokerPublish
  BY SendThreadWire, ReceiveThreadWire, NetworkWire DEF libraryStep
<1>3. CASE WireStep
  BY <1>3 DEF WireStep, WireInv, Taken
<1>4. CASE processSubscribe
  <2>1. asked # {}
    BY <1>4, NothingQueued DEF processSubscribe, headIs, WireInv
  <2> QED
    BY <1>4, <2>1 DEF processSubscribe, WireInv
<1>5. CASE brokerSubscribe
  <2>1. outb # <<>> /\ Head(outb).type = "SUBSCRIBE"
    BY <1>5 DEF brokerSubscribe, brokerReads
  <2>2. Head(outb) \in ToSet(outb)
    BY <1>1, <2>1, TailCommands
  <2>3. asked # {}
    BY <2>1, <2>2 DEF WireInv
  <2>4. PICK p : inb' = Append(inb, p) /\ p.type = "SUBACK"
    BY <1>5 DEF brokerSubscribe, Packet
  <2>5. ToSet(inb') = ToSet(inb) \cup {p}
    <3>1. inb \in Seq(InPacket \cup {p})
      BY <1>1
    <3> QED
      BY <2>4, <3>1, AppendCommands
  <2> QED
    BY <2>3, <2>4, <2>5 DEF WireInv
<1>6. CASE brokerPublish
  <2>1. PICK t \in subs : inb' = Append(inb, Packet("PUBLISH", t, 0))
    BY <1>6 DEF brokerPublish
  <2>2. asked # {} /\ t \in Filters
    BY <1>1, <2>1 DEF WireInv
  <2> DEFINE p == Packet("PUBLISH", t, 0)
  <2>3. p.topic = t
    BY DEF Packet
  <2>4. ToSet(inb') = ToSet(inb) \cup {p}
    <3>1. inb \in Seq(InPacket \cup {p})
      BY <1>1
    <3> QED
      BY <2>1, <3>1, AppendCommands
  <2> QED
    BY <2>2, <2>3, <2>4 DEF WireInv
<1> QED
  BY <1>2, <1>3, <1>4, <1>5, <1>6

\* It keeps QueuedInv: a subscription that is sent moves to the responses.
LEMMA LibraryQueued ==
    ASSUME TypeInv, QueuedInv, libraryStep \/ cyclePublish \/ messageDone, UNCHANGED idx
    PROVE  QueuedInv'
<1>1. commands \in Seq(CommandType) /\ responses \in Seq(CommandType) /\ Len(responses) \in Nat
  BY DEF TypeInv, GoodQueue, SessionTypeOK
<1>2. Pending \in {0, 1}
  BY DEF Pending
<1>3. PICK n \in Nat : AtMost(commands, n) /\ n + Len(responses) + Pending < idx /\ idx \in Nat
  BY DEF QueuedInv
<1>4. CASE QueueStep
  <2>1. AtMost(commands', n) /\ Len(responses') <= Len(responses) /\ Pending' = Pending
    BY <1>3, <1>4 DEF QueueStep, Derived, appVars, Pending
  <2>2. Len(responses') \in Nat
    BY LibraryTyped DEF TypeInv, SessionTypeOK
  <2>3. n + Len(responses') + Pending' < idx'
    BY <1>1, <1>2, <1>3, <2>1, <2>2
  <2> QED
    BY <1>3, <2>1, <2>3 DEF QueuedInv
<1>5. CASE processSubscribe
  <2>1. /\ commands # <<>> /\ Head(commands).type = "SUBSCRIBE" /\ commands' = Tail(commands)
        /\ responses' = Append(responses, Head(commands)) /\ Pending' = Pending
    BY <1>5 DEF processSubscribe, headIs, appVars, Pending
  <2>2. n - 1 \in Nat /\ AtMost(commands', n - 1)
    BY <1>1, <1>3, <2>1, AtMostTail
  <2>3. Len(responses') = Len(responses) + 1
    BY <1>1, <2>1
  <2>4. (n - 1) + Len(responses') + Pending' < idx'
    BY <1>1, <1>2, <1>3, <2>1, <2>3
  <2> QED
    BY <1>3, <2>2, <2>4 DEF QueuedInv
<1> QED
  BY <1>4, <1>5, LibraryQueue

\* What a step does to the two components and to the facts that join them.
GoodStep ==
    /\ [ClientNext]_clientVars /\ [DispatchNext]_dispatchVars
    /\ WireInv' /\ QueuedInv'

\* A step that leaves the library and the subscriptions alone.
LEMMA LibraryAtRest ==
    ASSUME WireInv, QueuedInv, UNCHANGED <<clientVars, asked, idx>>
    PROVE  WireInv' /\ QueuedInv'
BY DEF WireInv, QueuedInv, Pending, clientVars, linkVars, sessionVars, appVars

\* my_subsribe_topic: the library has room for one more subscription, because
\* the entry it is for is one of the table.
LEMMA SubscribeStep ==
    ASSUME CmqttInv, running, my_subsribe_topic
    PROVE  GoodStep
<1>1. PICK t \in BuiltIn : regTopic(t) /\ subscribeMany(t)
  BY DEF my_subsribe_topic
<1>2. /\ commands \in Seq(CommandType) /\ responses \in Seq(CommandType)
      /\ Len(commands) \in Nat /\ Len(responses) \in Nat
  BY DEF CmqttInv, TypeInv, GoodQueue, SessionTypeOK
<1>3. PICK n \in Nat : AtMost(commands, n) /\ n + Len(responses) + Pending < idx /\ idx \in Nat
  BY DEF CmqttInv, QueuedInv
<1>4. Pending = 0 /\ Pending' \in {0, 1}
  BY <1>1 DEF subscribeMany, Pending
<1>5. Len(commands) <= n + 2
  <2>1. PICK k \in 0..2 : Len(commands) - k <= n
    BY <1>3 DEF AtMost
  <2> QED
    BY <1>2, <2>1
<1>6. idx <= ctr_table_size /\ ctr_table_size \in Nat
  <2>1. idx <= Len(handleTableLocal) /\ hall = "reg"
    BY <1>1 DEF regTopic, topicNumLocal
  <2>2. configuredNum \in Indices /\ Loaded(handleTableLocal, configuredNum)
    BY <2>1 DEF CmqttInv, TableInv
  <2>3. Len(handleTableLocal) \in Nat /\ Len(handleTableLocal) <= configuredNum
    <3>1. configuredNum \in Nat
      BY <2>2, TableSize
    <3> QED
      BY <2>2, <3>1, LoadedLength
  <2> QED
    BY <1>3, <2>1, <2>2, <2>3, TableSize
<1>7. Len(commands) + Len(responses) < MaxSubs
  BY <1>2, <1>3, <1>4, <1>5, <1>6, CmqttAssumption, ClientAssumption
<1>8. callSubscribe
  BY <1>1, <1>7, CmqttAssumption DEF callSubscribe
<1>9. DispatchNext
  BY <1>1 DEF DispatchNext, Topics, running
<1>10. UNCHANGED <<commands, responses, inb, outb, subs>> /\ asked' # {} /\ idx' = idx + 1
  BY <1>1 DEF regTopic, subscribeMany, sessionVars, linkVars
<1>11. WireInv'
  BY <1>10 DEF CmqttInv, WireInv
<1>12. QueuedInv'
  <2>1. n + Len(responses') + Pending' < idx' /\ idx' \in Nat /\ AtMost(commands', n)
    BY <1>2, <1>3, <1>4, <1>10
  <2> QED
    BY <2>1 DEF QueuedInv
<1> QED
  BY <1>8, <1>9, <1>11, <1>12 DEF GoodStep, ClientNext

\* The rest of MQTTAsync_subscribe, and MQTTAsync_connect.
LEMMA ApplicationStep ==
    ASSUME CmqttInv, running, init_mqtt_client \/ inSubscribe
    PROVE  GoodStep
<1>1. UNCHANGED <<asked, idx, dispatchVars>> /\ (appConnect \/ assignMsgId \/ subscribeAdd)
  BY DEF init_mqtt_client, inSubscribe, dispatchVars, hallVars
<1>2. UNCHANGED <<inb, outb, subs, responses>>
  BY <1>1 DEF appConnect, assignMsgId, subscribeAdd, linkVars, sessionVars
<1>3. WireInv'
  BY <1>1, <1>2 DEF CmqttInv, WireInv
<1>4. commands \in Seq(CommandType) /\ GoodQueue(commands) /\ Len(responses) \in Nat
  BY DEF CmqttInv, TypeInv, GoodQueue, SessionTypeOK
<1>5. PICK n \in Nat : AtMost(commands, n) /\ n + Len(responses) + Pending < idx /\ idx \in Nat
  BY DEF CmqttInv, QueuedInv
<1>6. CASE appConnect
  <2>1. AtMost(commands', n) /\ Pending' = 0 /\ Pending = 0
    BY <1>4, <1>5, <1>6, OwnCommands DEF appConnect, Derived, Pending
  <2> QED
    BY <1>1, <1>2, <1>3, <1>5, <1>6, <2>1 DEF QueuedInv, GoodStep, ClientNext
<1>7. CASE assignMsgId
  <2>1. UNCHANGED commands /\ Pending' = Pending
    BY <1>7 DEF assignMsgId, Pending
  <2> QED
    BY <1>1, <1>2, <1>3, <1>5, <1>7, <2>1 DEF QueuedInv, GoodStep, ClientNext
<1>8. CASE subscribeAdd
  <2>1. commands' = Append(commands, Subscribe(appTopic, appToken)) /\ Pending = 1 /\ Pending' = 0
    BY <1>8 DEF subscribeAdd, appendCommand, Pending
  <2> DEFINE c == Subscribe(appTopic, appToken)
  <2>2. c.type = "SUBSCRIBE" /\ commands \in Seq(CommandType \cup {c})
    BY <1>4 DEF Subscribe, Command
  <2> HIDE DEF c
  <2>3. AtMost(Append(commands, c), n + 1)
    BY <1>5, <2>2, AtMostAppend
  <2>4. n + 1 \in Nat /\ (n + 1) + Len(responses) + Pending' < idx
    BY <1>4, <1>5, <2>1
  <2> QED
    BY <1>1, <1>2, <1>3, <1>5, <1>8, <2>1, <2>3, <2>4 DEF QueuedInv, GoodStep, ClientNext, c
<1> QED
  BY <1>1, <1>6, <1>7, <1>8

\* The receive thread hands a message on: it is on a topic of the table, and
\* something has been subscribed to.
LEMMA MessageStep ==
    ASSUME CmqttInv, running, my_mqqta_recvmsg \/ decode_msg_handle
    PROVE  GoodStep
<1>1. UNCHANGED <<asked, idx>>
  BY DEF my_mqqta_recvmsg, recvMsg, recvMsgNoDb, decode_msg_handle, dispatchMsg, hallVars
<1>2. WireInv' /\ QueuedInv' /\ ClientNext
  BY <1>1, LibraryWire, LibraryQueued DEF CmqttInv, my_mqqta_recvmsg, decode_msg_handle, ClientNext
<1>3. CASE my_mqqta_recvmsg
  <2>1. inb \in Seq(InPacket) /\ inb # <<>> /\ Head(inb).type = "PUBLISH"
    BY <1>3 DEF my_mqqta_recvmsg, cyclePublish, reading, CmqttInv, TypeInv, LinkTypeOK
  <2>2. Head(inb) \in ToSet(inb)
    BY <2>1, TailCommands
  <2>3. asked # {} /\ Head(inb).topic \in Topics
    BY <2>1, <2>2, CmqttAssumption DEF CmqttInv, WireInv, Topics
  <2>4. DispatchNext
    BY <1>3, <2>3 DEF my_mqqta_recvmsg, DispatchNext, running
  <2> QED
    BY <1>2, <2>4 DEF GoodStep
<1>4. CASE decode_msg_handle
  BY <1>2, <1>4 DEF decode_msg_handle, DispatchNext, running, GoodStep
<1> QED
  BY <1>3, <1>4

\* Every step of the program.
LEMMA ProgramStep ==
    ASSUME CmqttInv, [CmqttNext]_cmqttVars
    PROVE  GoodStep
<1>1. CASE UNCHANGED cmqttVars
  BY <1>1, LibraryAtRest DEF cmqttVars, CmqttInv, GoodStep, dispatchVars, hallVars
<1>2. ASSUME running, assertConnected PROVE GoodStep
  BY <1>2, LibraryAtRest DEF assertConnected, CmqttInv, GoodStep, dispatchVars, hallVars
<1>3. ASSUME running, loadTable \/ core_do_test PROVE GoodStep
  <2>1. UNCHANGED <<clientVars, asked, idx>> /\ DispatchNext
    BY <1>3 DEF loadTable, core_do_test, initTopicConf, initTopicConfExit, regDone, statsTotal,
                statsRow, statsDone, DispatchNext, running
  <2> QED
    BY <2>1, LibraryAtRest DEF CmqttInv, GoodStep
<1>4. ASSUME running, clientStep(libraryStep) PROVE GoodStep
  <2>1. libraryStep /\ UNCHANGED <<asked, idx, dispatchVars>>
    BY <1>4 DEF clientStep, dispatchVars, hallVars
  <2> QED
    BY <2>1, LibraryWire, LibraryQueued DEF CmqttInv, GoodStep, ClientNext
<1> QED
  BY <1>1, <1>2, <1>3, <1>4, SubscribeStep, ApplicationStep, MessageStep
     DEF CmqttNext, hallStep, Stopped

\* The facts that join the components hold in every state of the program.
THEOREM CmqttInvariant == CmqttSpec => []CmqttInv
<1>1. CmqttInit => CmqttInv
  <2> SUFFICES ASSUME CmqttInit PROVE CmqttInv
    OBVIOUS
  <2>1. TypeInv
    BY InitTyped DEF CmqttInit
  <2>2. TableInv /\ CallInv
    BY TableInit DEF CmqttInit
  <2>3. WireInv
    BY DEF CmqttInit, ClientInit, DispatchInit, WireInv, ToSet
  <2>4. AtMost(commands, 0) /\ 0 + Len(responses) + Pending < idx /\ idx \in Nat
    BY DEF CmqttInit, ClientInit, DispatchInit, AtMost, Pending
  <2> QED
    BY <2>1, <2>2, <2>3, <2>4 DEF CmqttInv, QueuedInv
<1>2. CmqttInv /\ [CmqttNext]_cmqttVars => CmqttInv'
  BY ProgramStep, TypesStep, TableKept DEF GoodStep, CmqttInv
<1> QED
  BY <1>1, <1>2, PTL DEF CmqttSpec

\* Whatever Hall and the callbacks make of it, the library is used as
\* AsyncClient takes for granted: the program implements ClientSpec.
THEOREM LibraryImplemented == CmqttSpec => ImplementsClient
<1>1. CmqttInit => ClientInit
  BY DEF CmqttInit
<1>2. CmqttInv /\ [CmqttNext]_cmqttVars => [ClientNext]_clientVars
  BY ProgramStep DEF GoodStep
<1> QED
  BY <1>1, <1>2, CmqttInvariant, PTL DEF CmqttSpec, ClientSpec, ImplementsClient

\* The library calls decode_msg_handle only as Dispatch takes for granted, never
\* before the first subscription: the program implements DispatchSpec.
THEOREM DispatchImplemented == CmqttSpec => ImplementsDispatch
<1>1. CmqttInit => DispatchInit
  BY DEF CmqttInit
<1>2. CmqttInv /\ [CmqttNext]_cmqttVars => [DispatchNext]_dispatchVars
  BY ProgramStep DEF GoodStep
<1> QED
  BY <1>1, <1>2, CmqttInvariant, PTL DEF CmqttSpec, DispatchSpec, ImplementsDispatch

\* What is proved of the components holds of the program: a message only goes
\* to the enabled handler of its topic, the printed total is at most one
\* message off, the client always goes on reconnecting, and no two
\* subscriptions share a message id.
THEOREM ProgramIsSafe ==
    CmqttSpec => [](/\ RightHandler /\ LoadedInOrder /\ StatsLag
                    /\ QueueDiscipline /\ ConnectionFields /\ ConnectNeverIgnored
                    /\ NeverGivesUp /\ TokensUnique /\ StaleSubackHarmless
                    /\ DeliveredWhenConnected)
<1>1. DispatchSpec => [](RightHandler /\ LoadedInOrder /\ StatsLag)
  BY HandlersAreRight, TableIsLoaded, StatsLagBehindOne, PTL
<1>2. ClientSpec => [](/\ QueueDiscipline /\ ConnectionFields /\ ConnectNeverIgnored
                       /\ NeverGivesUp /\ TokensUnique /\ StaleSubackHarmless
                       /\ DeliveredWhenConnected)
  BY QueueDisciplineHolds, ConnectionFieldsHold, NoConnectDropped, AlwaysReconnecting,
     TokensNeverShared, StaleSubackCompletesNothing, DeliveryNeedsNoQueue, PTL
<1>3. CmqttSpec => ClientSpec /\ DispatchSpec
  BY LibraryImplemented, DispatchImplemented DEF ImplementsClient, ImplementsDispatch
<1> QED
  BY <1>1, <1>2, <1>3, PTL

=============================================================================
