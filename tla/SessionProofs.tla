--------------------------- MODULE SessionProofs ---------------------------
(***************************************************************************)
(* Proofs about what the receive thread does with a packet it read from a  *)
(* connection that may have been replaced since: subscriptions,            *)
(* acknowledgements and messages belong to the connection that is current. *)
(* And about the subscriptions under way, queued or waiting for a SUBACK:  *)
(* how many there are, and that their message ids differ.                  *)
(***************************************************************************)
EXTENDS AsyncClientProofs

\* A packet of one of these types is among those in s.
Carries(s, types) == \E x \in ToSet(s) : x.type \in types

\* A CONNACK that accepts is among the packets in s.
Welcome(s) == \E x \in ToSet(s) : x.type = "CONNACK" /\ x.id = 0

\* Subscriptions and what the broker sends because of them exist only while the
\* client is connected; a SUBACK that has been read is of this connection, or
\* there is no connection and nothing waits for it.
SessionInv ==
    /\ Carries(outb, {"SUBSCRIBE"}) \/ Carries(inb, {"SUBACK", "PUBLISH"}) \/ subs # {} => connected
    /\ rpack.type # "NONE" => rpc = "handle"
    /\ rpack.type = "SUBACK" => IF rfresh THEN connected ELSE responses = <<>> /\ ~connected

\* An accepting CONNACK, on its way or read, is of a connection the broker has
\* accepted, unless the client waits for no CONNACK or has another socket.
AcceptedInv ==
    /\ connected \/ Welcome(inb) => accepted
    /\ (rpack.type = "CONNACK" /\ rpack.id = 0 /\ rsock = sock /\ connState = "WAIT_FOR_CONNACK")
          => accepted

-----------------------------------------------------------------------------
(* Packets in a sequence. *)

\* Adding a packet.
LEMMA CarriesAppend ==
    ASSUME NEW S, NEW s \in Seq(S), NEW p \in S, NEW types
    PROVE  /\ Carries(Append(s, p), types) => Carries(s, types) \/ p.type \in types
           /\ Welcome(Append(s, p)) => Welcome(s) \/ (p.type = "CONNACK" /\ p.id = 0)
<1>1. ToSet(Append(s, p)) = ToSet(s) \cup {p}
  BY AppendCommands
<1> QED
  BY <1>1 DEF Carries, Welcome

\* Taking the first one.
LEMMA CarriesTail ==
    ASSUME NEW S, NEW s \in Seq(S), s # <<>>, NEW types
    PROVE  /\ Carries(Tail(s), types) \/ Head(s).type \in types => Carries(s, types)
           /\ Welcome(Tail(s)) \/ (Head(s).type = "CONNACK" /\ Head(s).id = 0) => Welcome(s)
<1>1. ToSet(s) = ToSet(Tail(s)) \cup {Head(s)}
  BY TailCommands, Zenon
<1> QED
  BY <1>1 DEF Carries, Welcome

\* None.
LEMMA CarriesEmpty == \A types : ~Carries(<<>>, types) /\ ~Welcome(<<>>)
BY DEF Carries, Welcome, ToSet

-----------------------------------------------------------------------------
(* The session. *)

\* What a closed connection leaves behind.
LEMMA SessionClosed ==
    ASSUME SessionInv, closeOnly,
           \/ rpack'.type = "NONE"
           \/ UNCHANGED <<rpc, rpack>> /\ (responses' = <<>> \/ (UNCHANGED responses /\ ~connected))
    PROVE  SessionInv'
BY CarriesEmpty DEF SessionInv, closeOnly

\* The session goes on: packets that need it appear only while connected, and
\* the packet the receive thread holds is the same, or new, or none.
LEMMA SessionFrame ==
    ASSUME SessionInv, UNCHANGED connected,
           \/ connected
           \/ /\ Carries(outb', {"SUBSCRIBE"}) => Carries(outb, {"SUBSCRIBE"})
              /\ Carries(inb', {"SUBACK", "PUBLISH"}) => Carries(inb, {"SUBACK", "PUBLISH"})
              /\ subs' # {} => subs # {},
           \/ rpack'.type = "NONE"
           \/ /\ UNCHANGED <<rpack, rfresh>> /\ (UNCHANGED rpc \/ rpc # "handle")
              /\ UNCHANGED responses \/ connected
           \/ rpc' = "handle" /\ rfresh' = TRUE /\ (rpack'.type = "SUBACK" => connected)
    PROVE  SessionInv'
BY DEF SessionInv

\* Giving an attempt up.
LEMMA NextOrCloseSession ==
    ASSUME SessionInv, NEW q, nextOrClose(q),
           rpack'.type = "NONE" \/ (UNCHANGED <<rpc, rpack>> /\ ~connected)
    PROVE  SessionInv'
BY SessionClosed DEF nextOrClose, closeSession, cleanSession, sessionVars

\* The keepalive writes no SUBSCRIBE.
LEMMA RetrySession ==
    ASSUME TypeInv, NEW ping, retry(ping) \/ keepaliveDue(ping)
    PROVE  Carries(outb', {"SUBSCRIBE"}) => Carries(outb, {"SUBSCRIBE"})
<1> DEFINE pack == Packet("PINGREQ", NoTopic, 0)
<1>1. pack \in OutPacket /\ pack.type = "PINGREQ"
  BY PlainPackets, Zenon
<1> HIDE DEF pack
<1>2. Carries(Append(outb, pack), {"SUBSCRIBE"}) => Carries(outb, {"SUBSCRIBE"})
  BY <1>1, CarriesAppend DEF TypeInv, LinkTypeOK
<1> QED
  BY <1>2 DEF retry, keepaliveDue, pack

\* The send thread keeps the invariant.
LEMMA SendThreadSession ==
    ASSUME TypeInv, ReconnectInv, SessionInv, processCommand \/ checkTimeouts
    PROVE  SessionInv'
<1>1. ASSUME NEW fd \in Fds, processConnect(fd) PROVE SessionInv'
  <2> DEFINE pack == Packet("CONNECT", NoTopic, 0)
  <2>1. pack.type = "CONNECT"
    BY PlainPackets, Zenon
  <2> HIDE DEF pack
  <2>2. ~Carries(<<pack>>, {"SUBSCRIBE"})
    BY <2>1 DEF Carries, ToSet
  <2>3. Carries(outb', {"SUBSCRIBE"}) => Carries(outb, {"SUBSCRIBE"})
    BY <1>1, <2>2 DEF processConnect, startConnect, linkVars, pack
  <2>4. UNCHANGED <<connected, inb, subs, rpack, rfresh, rpc, responses>>
    BY <1>1 DEF processConnect, startConnect, linkVars, recvThreadVars, sessionVars
  <2> QED
    BY <2>3, <2>4, SessionFrame
<1>2. ASSUME processConnectFail \/ processSubscribeError PROVE SessionInv'
  BY <1>2, SessionFrame DEF processConnectFail, processSubscribeError, linkVars, recvThreadVars, sessionVars
<1>3. ASSUME processSubscribe PROVE SessionInv'
  BY <1>3, SessionFrame DEF processSubscribe, recvThreadVars
<1>4. ASSUME processDisconnect PROVE SessionInv'
  <2>1. UNCHANGED <<rpc, rpack>>
    BY <1>4 DEF processDisconnect, recvThreadVars
  <2>2. CASE closeSession
    BY <2>1, <2>2, SessionClosed DEF closeSession, cleanSession
  <2>3. CASE UNCHANGED <<connected, outb, inb, subs, rfresh, sessionVars>>
    BY <2>1, <2>3, SessionFrame DEF sessionVars
  <2> QED
    BY <1>4, <2>2, <2>3 DEF processDisconnect, linkVars
<1>5. ASSUME checkTimeouts PROVE SessionInv'
  BY <1>5, NextOrCloseSession DEF checkTimeouts, recvThreadVars, ReconnectInv, ConnectionFields
<1> QED
  BY <1>1, <1>2, <1>3, <1>4, <1>5 DEF processCommand

\* The receive thread keeps it.
LEMMA ReceiveThreadSession ==
    ASSUME TypeInv, SessionInv,
           select \/ cycleIdle \/ cycleSocket \/ handleResult \/ cyclePublish \/ messageDone
    PROVE  SessionInv'
<1>1. NoPacket.type = "NONE"
  BY DEF NoPacket, Packet
<1>2. inb # <<>> =>
         /\ Carries(Tail(inb), {"SUBACK", "PUBLISH"}) => Carries(inb, {"SUBACK", "PUBLISH"})
         /\ Head(inb).type = "SUBACK" => Carries(inb, {"SUBACK", "PUBLISH"})
  BY CarriesTail DEF TypeInv, LinkTypeOK
<1>3. ASSUME retry(pingOut) \/ retry(FALSE) \/ keepaliveDue(pingOut)
      PROVE  Carries(outb', {"SUBSCRIBE"}) => Carries(outb, {"SUBSCRIBE"})
  BY <1>3, RetrySession
<1>4. ASSUME NEW rc, cycleResult(rc, NoPacket) PROVE rpack'.type = "NONE"
  BY <1>1, <1>4 DEF cycleResult
<1>5. ASSUME handling PROVE rpack'.type = "NONE"
  BY <1>1, <1>5 DEF handling
<1>6. ASSUME select \/ cycleIdle \/ messageDone PROVE SessionInv'
  <2>1. UNCHANGED <<connected, inb, subs, rpack, rfresh, responses>> /\ (UNCHANGED rpc \/ rpc # "handle")
    BY <1>6 DEF select, cycleIdle, messageDone, linkVars, recvThreadVars, sessionVars
  <2>2. Carries(outb', {"SUBSCRIBE"}) => Carries(outb, {"SUBSCRIBE"})
    BY <1>3, <1>6 DEF select, cycleIdle, messageDone, linkVars
  <2> QED
    BY <2>1, <2>2, SessionFrame
<1>7. ASSUME cycleSocket \/ cyclePublish PROVE SessionInv'
  <2>1. CASE cycleNoClient \/ cycleNothing
    BY <1>3, <1>4, <2>1, SessionFrame DEF cycleNoClient, cycleNothing
  <2>2. CASE cycleConnecting
    <3> DEFINE pack == Packet("CONNECT", NoTopic, 0)
    <3>1. pack \in OutPacket /\ pack.type = "CONNECT"
      BY PlainPackets, Zenon
    <3> HIDE DEF pack
    <3>2. Carries(Append(outb, pack), {"SUBSCRIBE"}) => Carries(outb, {"SUBSCRIBE"})
      BY <3>1, CarriesAppend DEF TypeInv, LinkTypeOK
    <3>3. Carries(outb', {"SUBSCRIBE"}) => Carries(outb, {"SUBSCRIBE"})
      BY <2>2, <3>2 DEF cycleConnecting, pack
    <3> QED
      BY <1>4, <2>2, <3>3, SessionFrame DEF cycleConnecting
  <2>3. CASE cycleConnectError
    BY <1>4, <2>3, NextOrCloseSession DEF cycleConnectError
  <2>4. CASE cyclePingresp
    BY <1>2, <1>3, <1>4, <2>4, SessionFrame DEF cyclePingresp, reading
  <2>5. CASE cycleAck
    <3>1. rpc' = "handle" /\ rfresh' = TRUE /\ UNCHANGED <<connected, subs>> /\ inb # <<>>
          /\ rpack' = Head(inb) /\ inb' = Tail(inb)
      BY <2>5 DEF cycleAck, reading, cycleResult
    <3>2. rpack'.type = "SUBACK" => connected
      BY <1>2, <3>1 DEF SessionInv
    <3>3. Carries(outb', {"SUBSCRIBE"}) => Carries(outb, {"SUBSCRIBE"})
      BY <1>3, <2>5 DEF cycleAck
    <3> QED
      BY <1>2, <3>1, <3>2, <3>3, SessionFrame
  <2>6. CASE cycleReadError
    BY <1>3, <1>4, <2>6, NextOrCloseSession, SessionFrame DEF cycleReadError
  <2>7. CASE cyclePublish
    BY <1>4, <2>7, SessionFrame DEF cyclePublish, reading
  <2> QED
    BY <1>7, <2>1, <2>2, <2>3, <2>4, <2>5, <2>6, <2>7 DEF cycleSocket
<1>8. ASSUME handleResult PROVE SessionInv'
  <2>1. CASE handleNothing \/ handleSuback
    BY <1>5, <2>1, SessionFrame DEF handleNothing, handleSuback, linkVars
  <2>2. CASE handleError
    BY <1>5, <2>2, NextOrCloseSession DEF handleError
  <2>3. CASE handleConnack
    BY <1>5, <2>3, NextOrCloseSession DEF handleConnack, SessionInv
  <2> QED
    BY <1>8, <2>1, <2>2, <2>3 DEF handleResult
<1> QED
  BY <1>6, <1>7, <1>8

\* The broker answers a SUBSCRIBE, and publishes, only on such a connection.
LEMMA NetworkSession ==
    ASSUME TypeInv, SessionInv, network
    PROVE  SessionInv'
<1>1. ASSUME NEW p \in InPacket, p.type \notin {"SUBACK", "PUBLISH"}
      PROVE  Carries(Append(inb, p), {"SUBACK", "PUBLISH"}) => Carries(inb, {"SUBACK", "PUBLISH"})
  BY <1>1, CarriesAppend DEF TypeInv, LinkTypeOK
<1>2. outb # <<>> =>
         /\ Carries(Tail(outb), {"SUBSCRIBE"}) => Carries(outb, {"SUBSCRIBE"})
         /\ Head(outb).type = "SUBSCRIBE" => Carries(outb, {"SUBSCRIBE"})
  BY CarriesTail DEF TypeInv, LinkTypeOK
<1>3. UNCHANGED <<connected, rpack, rfresh, rpc, responses>>
  BY DEF network, tcpUp, tcpFail, brokerConnect, brokerSubscribe, brokerPing, brokerPublish,
         netUnchanged, recvThreadVars, sessionVars
<1>4. ASSUME tcpUp \/ tcpFail PROVE SessionInv'
  <2>1. Carries(outb', {"SUBSCRIBE"}) => Carries(outb, {"SUBSCRIBE"})
    BY <1>4, CarriesEmpty DEF tcpUp, tcpFail
  <2> QED
    BY <1>3, <1>4, <2>1, SessionFrame DEF tcpUp, tcpFail
<1>5. ASSUME brokerConnect \/ brokerPing PROVE SessionInv'
  <2>1. PICK p \in InPacket : inb' = Append(inb, p) /\ p.type \notin {"SUBACK", "PUBLISH"}
    <3>1. Packet("CONNACK", NoTopic, 0).type = "CONNACK" /\ Packet("CONNACK", NoTopic, 1).type = "CONNACK"
          /\ Packet("PINGRESP", NoTopic, 0).type = "PINGRESP"
      BY DEF Packet
    <3> QED
      BY <1>5, <3>1, PlainPackets DEF brokerConnect, brokerPing
  <2> QED
    BY <1>1, <1>2, <1>3, <1>5, <2>1, SessionFrame DEF brokerConnect, brokerPing, brokerReads
<1>6. ASSUME brokerSubscribe PROVE SessionInv'
  <2>1. connected
    BY <1>2, <1>6 DEF brokerSubscribe, brokerReads, SessionInv
  <2> QED
    BY <1>3, <2>1, SessionFrame
<1>7. ASSUME brokerPublish PROVE SessionInv'
  <2>1. connected
    BY <1>7 DEF brokerPublish, SessionInv
  <2> QED
    BY <1>3, <2>1, SessionFrame
<1> QED
  BY <1>4, <1>5, <1>6, <1>7 DEF network

\* The application's calls and callbacks keep it.
LEMMA ApplicationSession ==
    ASSUME TypeInv, SessionInv,
           reconnected \/ appConnect \/ callSubscribe \/ assignMsgId \/ subscribeAdd
    PROVE  SessionInv'
<1>1. ASSUME reconnected PROVE SessionInv'
  <2>1. CASE closeSession
    BY <1>1, <2>1, SessionClosed DEF reconnected, closeSession, cleanSession, recvThreadVars
  <2>2. CASE UNCHANGED <<linkVars, sessionVars>>
    BY <1>1, <2>2, SessionFrame DEF reconnected, linkVars, sessionVars, recvThreadVars
  <2> QED
    BY <1>1, <2>1, <2>2 DEF reconnected
<1>2. ASSUME appConnect \/ callSubscribe \/ assignMsgId \/ subscribeAdd PROVE SessionInv'
  BY <1>2, SessionFrame DEF appConnect, callSubscribe, subscribeMany, assignMsgId, subscribeAdd,
     linkVars, sessionVars, recvThreadVars
<1> QED
  BY <1>1, <1>2

\* The inductive invariant holds from the start on.
THEOREM SessionInvariant == ClientSpec => []SessionInv
<1>1. ClientInit => SessionInv
  BY CarriesEmpty DEF ClientInit, SessionInv, NoPacket, Packet
<1>2. TypeInv /\ ReconnectInv /\ SessionInv /\ [ClientNext]_clientVars => SessionInv'
  <2> SUFFICES ASSUME TypeInv, ReconnectInv, SessionInv, [ClientNext]_clientVars PROVE SessionInv'
    OBVIOUS
  <2>1. CASE UNCHANGED clientVars
    BY <2>1, SessionFrame DEF clientVars, linkVars, sessionVars, recvThreadVars
  <2>2. CASE ClientNext
    BY <2>2, SendThreadSession, ReceiveThreadSession, NetworkSession, ApplicationSession
       DEF ClientNext, libraryStep
  <2> QED
    BY <2>1, <2>2
<1> QED
  BY <1>1, <1>2, TypesInvariant, ReconnectInvariant, PTL DEF ClientSpec

\* A PUBLISH is read only while the client is connected, so my_mqqta_recvmsg
\* gets it at once.
THEOREM DeliveryNeedsNoQueue == ClientSpec => []DeliveredWhenConnected
<1>1. TypeInv /\ SessionInv => DeliveredWhenConnected
  <2> SUFFICES ASSUME TypeInv, SessionInv, inb # <<>>, Head(inb).type = "PUBLISH" PROVE connected
    BY DEF DeliveredWhenConnected
  <2>1. Carries(inb, {"SUBACK", "PUBLISH"})
    BY CarriesTail DEF TypeInv, LinkTypeOK
  <2> QED
    BY <2>1 DEF SessionInv
<1> QED
  BY <1>1, TypesInvariant, SessionInvariant, PTL

\* A SUBACK handled after its connection was replaced, even by one with the same
\* socket number, completes no subscription.
THEOREM StaleSubackCompletesNothing == ClientSpec => []StaleSubackHarmless
<1>1. SessionInv => StaleSubackHarmless
  BY DEF SessionInv, StaleSubackHarmless
<1> QED
  BY <1>1, SessionInvariant, PTL

-----------------------------------------------------------------------------
(* The broker's consent. *)

\* A step that closes the connection.
LEMMA AcceptedClosed ==
    ASSUME closeOnly PROVE AcceptedInv'
BY CarriesEmpty DEF AcceptedInv, closeOnly

\* Giving an attempt up is one.
LEMMA NextOrCloseAccepted ==
    ASSUME NEW q, nextOrClose(q) PROVE AcceptedInv'
BY AcceptedClosed DEF nextOrClose, closeSession

\* A step that does not: no CONNACK is made up, and none becomes one the client
\* waits for.
LEMMA AcceptedFrame ==
    ASSUME AcceptedInv, UNCHANGED connected, accepted => accepted',
           Welcome(inb') => Welcome(inb) \/ accepted',
           \/ rpack'.type = "NONE"
           \/ UNCHANGED <<rpack, rsock, sock, connState>>
           \/ connState' # "WAIT_FOR_CONNACK"
           \/ rpack'.type = "CONNACK" /\ rpack'.id = 0 => Welcome(inb)
    PROVE  AcceptedInv'
BY DEF AcceptedInv

\* Where connect() never completes at once, c->connected is set only on a
\* connection the broker has accepted: between closing a connection and waiting
\* for the CONNACK of the next one the receive thread must have been through its
\* loop, and has dropped the CONNACK it may have held.
THEOREM AcceptedInvariant ==
    ASSUME ~Immediate
    PROVE  ClientSpec => []AcceptedInv
<1>1. ClientInit => AcceptedInv
  BY CarriesEmpty DEF ClientInit, AcceptedInv, NoPacket, Packet
<1>2. TypeInv /\ SessionInv /\ AcceptedInv /\ [ClientNext]_clientVars => AcceptedInv'
  <2> SUFFICES ASSUME TypeInv, SessionInv, AcceptedInv, [ClientNext]_clientVars PROVE AcceptedInv'
    OBVIOUS
  <2> USE DEF linkVars, recvThreadVars
  <2>1. CASE UNCHANGED clientVars
    BY <2>1, AcceptedFrame DEF clientVars
  <2>2. CASE processCommand \/ checkTimeouts
    <3>1. ASSUME NEW fd \in Fds, processConnect(fd) PROVE AcceptedInv'
      BY <3>1, AcceptedFrame DEF processConnect, startConnect
    <3>2. ASSUME processConnectFail \/ processSubscribe \/ processSubscribeError PROVE AcceptedInv'
      <4>1. UNCHANGED <<connected, accepted, inb, rpack, rsock, sock, connState>>
        BY <3>2 DEF processConnectFail, processSubscribe, processSubscribeError
      <4> QED
        BY <4>1, AcceptedFrame
    <3>3. ASSUME processDisconnect PROVE AcceptedInv'
      BY <3>3, AcceptedFrame, AcceptedClosed DEF processDisconnect, closeSession
    <3> QED
      BY <2>2, <3>1, <3>2, <3>3, NextOrCloseAccepted DEF processCommand, checkTimeouts
  <2>3. CASE select \/ cycleIdle \/ messageDone
    <3>1. UNCHANGED <<connected, accepted, inb, rpack, sock, connState>>
      BY <2>3 DEF select, cycleIdle, messageDone
    <3>2. UNCHANGED rsock \/ rpack.type = "NONE"
      BY <2>3 DEF select, cycleIdle, messageDone, SessionInv
    <3> QED
      BY <3>1, <3>2 DEF AcceptedInv
  <2>4. NoPacket.type = "NONE"
    BY DEF NoPacket, Packet
  <2>5. CASE cycleSocket \/ cyclePublish
    <3>1. ASSUME NEW rc, cycleResult(rc, NoPacket) PROVE rpack'.type = "NONE"
      BY <2>4, <3>1 DEF cycleResult
    <3>2. inb # <<>> => /\ Welcome(Tail(inb)) => Welcome(inb)
                        /\ Head(inb).type = "CONNACK" /\ Head(inb).id = 0 => Welcome(inb)
      BY CarriesTail DEF TypeInv, LinkTypeOK
    <3>3. CASE cycleNoClient \/ cycleNothing \/ cycleConnecting
      BY <3>1, <3>3, AcceptedFrame DEF cycleNoClient, cycleNothing, cycleConnecting
    <3>4. CASE cyclePingresp \/ cyclePublish
      <4>1. UNCHANGED <<connected, accepted>> /\ inb # <<>> /\ inb' = Tail(inb) /\ rpack'.type = "NONE"
        BY <3>1, <3>4 DEF cyclePingresp, cyclePublish, reading
      <4> QED
        BY <3>2, <4>1 DEF AcceptedInv
    <3>5. CASE cycleAck
      <4>1. rpack' = Head(inb) /\ inb # <<>> /\ inb' = Tail(inb) /\ UNCHANGED <<connected, accepted>>
        BY <3>5 DEF cycleAck, reading, cycleResult
      <4> QED
        BY <3>2, <4>1, AcceptedFrame
    <3>6. CASE cycleConnectError \/ cycleReadError
      BY <3>1, <3>6, NextOrCloseAccepted, AcceptedFrame DEF cycleConnectError, cycleReadError
    <3> QED
      BY <2>5, <3>3, <3>4, <3>5, <3>6 DEF cycleSocket
  <2>6. CASE handleResult
    <3>1. ASSUME handling PROVE rpack'.type = "NONE"
      BY <2>4, <3>1 DEF handling
    <3>2. CASE handleNothing \/ handleSuback
      <4>1. UNCHANGED <<connected, accepted, inb>> /\ rpack'.type = "NONE"
        BY <3>1, <3>2 DEF handleNothing, handleSuback
      <4> QED
        BY <4>1 DEF AcceptedInv
    <3>3. CASE handleError
      BY <3>3, NextOrCloseAccepted DEF handleError
    <3>4. CASE handleConnack
      BY <3>1, <3>4, NextOrCloseAccepted DEF handleConnack, completes, AcceptedInv
    <3> QED
      BY <2>6, <3>2, <3>3, <3>4 DEF handleResult
  <2>7. CASE network
    <3>1. ASSUME NEW p, p.type # "CONNACK" \/ p.id # 0
          PROVE  Welcome(Append(inb, p)) => Welcome(inb)
      <4>1. inb \in Seq(InPacket \cup {p})
        BY DEF TypeInv, LinkTypeOK
      <4> QED
        BY <3>1, <4>1, CarriesAppend
    <3>2. CASE tcpUp \/ tcpFail
      BY <3>2, AcceptedFrame DEF tcpUp, tcpFail, netUnchanged
    <3>3. CASE brokerConnect
      <4>1. accepted' = TRUE \/ (UNCHANGED accepted /\ inb' = Append(inb, Packet("CONNACK", NoTopic, 1)))
        BY <3>3 DEF brokerConnect
      <4>2. Packet("CONNACK", NoTopic, 1).id # 0
        BY DEF Packet
      <4>3. Welcome(inb') => Welcome(inb) \/ accepted'
        BY <3>1, <4>1, <4>2
      <4> QED
        BY <3>3, <4>1, <4>3, AcceptedFrame DEF brokerConnect, netUnchanged
    <3>4. CASE brokerSubscribe \/ brokerPing \/ brokerPublish
      <4>1. \A type, t, k : Packet(type, t, k).type = type
        BY DEF Packet
      <4>2. \E type \in {"SUBACK", "PINGRESP", "PUBLISH"} : \E t, k : inb' = Append(inb, Packet(type, t, k))
        BY <3>4 DEF brokerSubscribe, brokerPing, brokerPublish
      <4>3. Welcome(inb') => Welcome(inb)
        BY <3>1, <4>1, <4>2
      <4> QED
        BY <3>4, <4>3, AcceptedFrame DEF brokerSubscribe, brokerPing, brokerPublish, netUnchanged
    <3> QED
      BY <2>7, <3>2, <3>3, <3>4 DEF network
  <2>8. CASE reconnected
    BY <2>8, AcceptedFrame, AcceptedClosed DEF reconnected, closeSession
  <2>9. CASE appConnect \/ callSubscribe \/ assignMsgId \/ subscribeAdd
    <3>1. UNCHANGED <<connected, accepted, inb, rpack, rsock, sock, connState>>
      BY <2>9 DEF appConnect, callSubscribe, subscribeMany, assignMsgId, subscribeAdd
    <3> QED
      BY <3>1, AcceptedFrame
  <2> QED
    BY <2>1, <2>2, <2>3, <2>5, <2>6, <2>7, <2>8, <2>9 DEF ClientNext, libraryStep
<1> QED
  BY <1>1, <1>2, TypesInvariant, SessionInvariant, PTL DEF ClientSpec

\* c->connected implies that the broker sent an accepting CONNACK on this very
\* connection.
THEOREM OnlyAcceptedConnections ==
    ASSUME ~Immediate
    PROVE  ClientSpec => []ConnectedMeansAccepted
<1>1. AcceptedInv => ConnectedMeansAccepted
  BY DEF AcceptedInv, ConnectedMeansAccepted
<1> QED
  BY <1>1, AcceptedInvariant, PTL

-----------------------------------------------------------------------------
(* Message ids. *)

\* The subscriptions in queue r are subscriptions of queue q, each at a position
\* of its own.
Within(r, q) ==
    \A i, j \in 1..Len(r) :
        r[i].type = "SUBSCRIBE" /\ r[j].type = "SUBSCRIBE" =>
            \E k, l \in 1..Len(q) : q[k] = r[i] /\ q[l] = r[j] /\ (i = j <=> k = l)

\* No subscription of r has the id of another one of q.
Apart(r, q) ==
    \A i \in 1..Len(r), j \in 1..Len(q) :
        r[i].type = "SUBSCRIBE" /\ q[j].type = "SUBSCRIBE" => r[i].token # q[j].token

\* No two subscriptions of q have the same id.
Unique(q) ==
    \A i, j \in 1..Len(q) :
        i # j /\ q[i].type = "SUBSCRIBE" /\ q[j].type = "SUBSCRIBE" => q[i].token # q[j].token

\* No subscription of q has id k.
Free(q, k) == \A i \in 1..Len(q) : q[i].type = "SUBSCRIBE" => q[i].token # k

\* The ids of the subscriptions that are queued or wait for their SUBACK differ,
\* and the application holds one that none of them has.
TokenInv ==
    /\ Unique(commands) /\ Unique(responses) /\ Apart(commands, responses)
    /\ app = "add" => Free(commands, appToken) /\ Free(responses, appToken)

\* At most two commands, and then at most n subscriptions, are in queue q.
AtMost(q, n) ==
    \E k \in 0..2 :
        /\ k <= Len(q) /\ Len(q) - k <= n
        /\ \A i \in 1..Len(q) : q[i].type = "SUBSCRIBE" <=> i > k

\* Queue r comes from q without a subscription being added.
Derived(r, q) == Within(r, q) /\ \A n \in Nat : AtMost(q, n) => AtMost(r, n)

\* What most steps do to the two queues.
QueueStep ==
    /\ Derived(commands', commands)
    /\ Within(responses', responses) /\ Len(responses') <= Len(responses)
    /\ UNCHANGED appVars

\* Leaving commands out, or moving them, keeps the ids apart.
LEMMA WithinKeeps ==
    ASSUME NEW q, NEW r, Within(r, q)
    PROVE  /\ Unique(q) => Unique(r)
           /\ \A k : Free(q, k) => Free(r, k)
           /\ \A p : Apart(q, p) => Apart(r, p)
           /\ \A p : Apart(p, q) => Apart(p, r)
<1>1. \A i \in 1..Len(r) : r[i].type = "SUBSCRIBE" => \E k \in 1..Len(q) : q[k] = r[i]
  BY DEF Within
<1>2. Unique(q) => Unique(r)
  <2> SUFFICES ASSUME Unique(q), NEW i \in 1..Len(r), NEW j \in 1..Len(r), i # j,
                      r[i].type = "SUBSCRIBE", r[j].type = "SUBSCRIBE"
               PROVE  r[i].token # r[j].token
    BY Zenon DEF Unique
  <2>1. PICK k \in 1..Len(q), l \in 1..Len(q) : q[k] = r[i] /\ q[l] = r[j] /\ (i = j <=> k = l)
    BY Zenon DEF Within
  <2>2. k # l /\ q[k].type = "SUBSCRIBE" /\ q[l].type = "SUBSCRIBE"
    BY <2>1
  <2>3. q[k].token # q[l].token
    BY <2>2, Zenon DEF Unique
  <2> QED
    BY <2>1, <2>3
<1>3. ASSUME NEW k, Free(q, k) PROVE Free(r, k)
  BY <1>1, <1>3 DEF Free
<1>4. ASSUME NEW p, Apart(q, p) PROVE Apart(r, p)
  BY <1>1, <1>4 DEF Apart
<1>5. ASSUME NEW p, Apart(p, q) PROVE Apart(p, r)
  BY <1>1, <1>5 DEF Apart
<1> QED
  BY <1>2, <1>3, <1>4, <1>5

\* What comes from a queue in two steps comes from it.
LEMMA WithinTransitive ==
    ASSUME NEW q, NEW r, NEW s, Within(s, r), Within(r, q)
    PROVE  Within(s, q)
<1> SUFFICES ASSUME NEW i \in 1..Len(s), NEW j \in 1..Len(s),
                    s[i].type = "SUBSCRIBE", s[j].type = "SUBSCRIBE"
             PROVE  \E k, l \in 1..Len(q) : q[k] = s[i] /\ q[l] = s[j] /\ (i = j <=> k = l)
  BY SMTT(60), ZenonT(60) DEF Within
<1>1. PICK k \in 1..Len(r), l \in 1..Len(r) : r[k] = s[i] /\ r[l] = s[j] /\ (i = j <=> k = l)
  BY DEF Within
<1>2. r[k].type = "SUBSCRIBE" /\ r[l].type = "SUBSCRIBE"
  BY <1>1
<1>3. PICK m \in 1..Len(q), n \in 1..Len(q) : q[m] = r[k] /\ q[n] = r[l] /\ (k = l <=> m = n)
  BY <1>2 DEF Within
<1> QED
  BY <1>1, <1>3

\* The queue itself, and the empty one, come from a queue.
LEMMA WithinSame == \A q : Within(q, q) /\ Within(<<>>, q)
BY DEF Within

\* MQTTAsync_processCommand takes the head.
LEMMA WithinTail ==
    ASSUME NEW S, NEW q \in Seq(S), q # <<>>
    PROVE  Within(Tail(q), q)
<1>1. \A i \in 1..Len(Tail(q)) : i + 1 \in 1..Len(q) /\ Tail(q)[i] = q[i + 1]
  OBVIOUS
<1> SUFFICES ASSUME NEW i \in 1..Len(Tail(q)), NEW j \in 1..Len(Tail(q))
             PROVE  \E k, l \in 1..Len(q) :
                       q[k] = Tail(q)[i] /\ q[l] = Tail(q)[j] /\ (i = j <=> k = l)
  BY DEF Within
<1>2. i + 1 \in 1..Len(q) /\ j + 1 \in 1..Len(q) /\ (i = j <=> i + 1 = j + 1)
  BY <1>1
<1> QED
  BY <1>1, <1>2

\* MQTTAsync_addCommand moves or adds a CONNECT or a DISCONNECT.
LEMMA WithinAdded ==
    ASSUME NEW S, NEW q \in Seq(S), NEW c \in S, c.type # "SUBSCRIBE"
    PROVE  Within(addCommand(q, c), q)
<1>1. CASE q # <<>> /\ q[1].type = c.type
  <2>1. addCommand(q, c) = q
    BY <1>1, Zenon DEF addCommand
  <2> QED
    BY <2>1, WithinSame
<1>2. CASE ~(q # <<>> /\ q[1].type = c.type)
  <2> DEFINE r == addCommand(q, c)
  <2> SUFFICES Within(r, q)
    OBVIOUS
  <2>0. r \in Seq(S) /\ r[1] = c /\ (Added(q, c, r) \/ Moved(q, c, r))
    BY <1>2, AddCommandShape, Zenon
  <2> HIDE DEF r
  <2>1. CASE Added(q, c, r)
    <3>1. ASSUME NEW i \in 1..Len(r), r[i].type = "SUBSCRIBE"
          PROVE  i - 1 \in 1..Len(q) /\ q[i - 1] = r[i]
      <4>1. i # 1
        BY <2>0, <3>1
      <4>2. i - 1 \in 1..Len(q) /\ (i - 1) + 1 = i
        BY <2>1, <4>1 DEF Added
      <4> QED
        BY <2>1, <4>2 DEF Added
    <3>2. ASSUME NEW i \in 1..Len(r), NEW j \in 1..Len(r)
          PROVE  i = j <=> i - 1 = j - 1
      OBVIOUS
    <3> QED
      BY <3>1, <3>2 DEF Within
  <2>2. CASE Moved(q, c, r)
    <3>0. PICK k \in 1..Len(q) :
                /\ q[k].type = c.type
                /\ \A i \in 1..(k - 1) : q[i].type # c.type
                /\ Len(r) = Len(q)
                /\ \A i \in 1..(k - 1) : r[i + 1] = q[i]
                /\ \A i \in (k + 1)..Len(q) : r[i] = q[i]
      BY <2>2 DEF Moved
    <3> DEFINE m(i) == IF i <= k THEN i - 1 ELSE i
    <3>1. ASSUME NEW i \in 1..Len(r), r[i].type = "SUBSCRIBE"
          PROVE  m(i) \in 1..Len(q) /\ q[m(i)] = r[i]
      <4>1. i # 1
        BY <2>0, <3>1
      <4>2. CASE i <= k
        <5>1. i - 1 \in 1..(k - 1) /\ (i - 1) + 1 = i /\ i - 1 \in 1..Len(q)
          BY <4>1, <4>2
        <5> QED
          BY <3>0, <4>2, <5>1
      <4>3. CASE ~(i <= k)
        <5>1. i \in (k + 1)..Len(q) /\ i \in 1..Len(q)
          BY <3>0, <4>3
        <5> QED
          BY <3>0, <4>3, <5>1
      <4> QED
        BY <4>2, <4>3
    <3>2. ASSUME NEW i \in 1..Len(r), NEW j \in 1..Len(r)
          PROVE  i = j <=> m(i) = m(j)
      OBVIOUS
    <3> HIDE DEF m
    <3> QED
      BY <3>1, <3>2 DEF Within
  <2> QED
    BY <2>0, <2>1, <2>2
<1> QED
  BY <1>1, <1>2

\* The response a SUBACK answers is taken out.
LEMMA WithinRemoved ==
    ASSUME NEW S, responses \in Seq(S), NEW token
    PROVE  /\ Within(removeResponse(token), responses)
           /\ Len(removeResponse(token)) <= Len(responses)
<1> DEFINE I == {i \in 1..Len(responses) : responses[i].token = token}
           k == Min(I)
<1>1. CASE I = {}
  <2>1. removeResponse(token) = responses
    BY <1>1 DEF removeResponse, RemoveFirstMatch
  <2> QED
    BY <2>1, WithinSame
<1>2. CASE I # {}
  <2>1. k \in I
    BY <1>2, FirstIndex, I \subseteq Nat
  <2>2. removeResponse(token) = SubSeq(responses, 1, k - 1) \o SubSeq(responses, k + 1, Len(responses))
    BY <1>2 DEF removeResponse, RemoveFirstMatch, RemoveAt, SelectInSeq
  <2>3. k \in 1..Len(responses)
    BY <2>1
  <2> HIDE DEF k
  <2> DEFINE a == SubSeq(responses, 1, k - 1)
             b == SubSeq(responses, k + 1, Len(responses))
             r == a \o b
             n == Len(responses)
             m(i) == IF i < k THEN i ELSE i + 1
  <2>4. /\ a \in Seq(S) /\ Len(a) = k - 1 /\ \A i \in 1..(k - 1) : a[i] = responses[i]
        /\ b \in Seq(S) /\ Len(b) = n - k /\ \A i \in 1..(n - k) : b[i] = responses[k + i]
    BY <2>3
  <2> HIDE DEF a, b
  <2>5. Len(r) = n - 1 /\ \A i \in 1..(n - 1) : r[i] = IF i <= k - 1 THEN a[i] ELSE b[i - (k - 1)]
    <3>1. Len(r) = Len(a) + Len(b) /\ \A i \in 1..(Len(a) + Len(b)) :
             r[i] = IF i <= Len(a) THEN a[i] ELSE b[i - Len(a)]
      BY <2>4, ConcatProperties
    <3> QED
      BY <2>3, <2>4, <3>1
  <2> HIDE DEF r
  <2>6. ASSUME NEW i \in 1..Len(r) PROVE m(i) \in 1..n /\ responses[m(i)] = r[i]
    <3>1. CASE i < k
      BY <2>3, <2>4, <2>5, <3>1
    <3>2. CASE ~(i < k)
      <4>1. i - (k - 1) \in 1..(n - k) /\ k + (i - (k - 1)) = i + 1
        BY <2>3, <2>5, <3>2
      <4> QED
        BY <2>3, <2>4, <2>5, <3>2, <4>1
    <3> QED
      BY <3>1, <3>2
  <2>7. ASSUME NEW i \in 1..Len(r), NEW j \in 1..Len(r) PROVE i = j <=> m(i) = m(j)
    BY <2>3
  <2> HIDE DEF m
  <2>8. Within(r, responses) /\ Len(r) <= Len(responses)
    BY <2>5, <2>6, <2>7 DEF Within
  <2> QED
    BY <2>2, <2>8 DEF r, a, b
<1> QED
  BY <1>1, <1>2

-----------------------------------------------------------------------------
(* How many subscriptions are queued. *)

\* Taking the head; a subscription at the head leaves one less.
LEMMA AtMostTail ==
    ASSUME NEW S, NEW q \in Seq(S), q # <<>>, NEW n \in Nat, AtMost(q, n)
    PROVE  /\ AtMost(Tail(q), n)
           /\ Head(q).type = "SUBSCRIBE" => n > 0 /\ AtMost(Tail(q), n - 1)
<1>1. PICK k \in 0..2 : /\ k <= Len(q) /\ Len(q) - k <= n
                        /\ \A i \in 1..Len(q) : q[i].type = "SUBSCRIBE" <=> i > k
  BY DEF AtMost
<1>2. /\ Len(q) \in Nat /\ Len(q) >= 1 /\ Head(q) = q[1] /\ Len(Tail(q)) = Len(q) - 1
      /\ \A i \in 1..Len(Tail(q)) : i + 1 \in 1..Len(q) /\ Tail(q)[i] = q[i + 1]
  OBVIOUS
<1>3. CASE k = 0
  <2>1. \A i \in 1..Len(Tail(q)) : Tail(q)[i].type = "SUBSCRIBE" <=> i > 0
    BY <1>1, <1>2, <1>3
  <2>2. Len(Tail(q)) - 0 <= n - 1 /\ n - 1 <= n /\ n > 0
    BY <1>1, <1>2, <1>3
  <2> QED
    BY <1>2, <2>1, <2>2 DEF AtMost
<1>4. CASE k # 0
  <2>1. Head(q).type # "SUBSCRIBE"
    BY <1>1, <1>2, <1>4
  <2>2. \A i \in 1..Len(Tail(q)) : Tail(q)[i].type = "SUBSCRIBE" <=> i > k - 1
    BY <1>1, <1>2, <1>4
  <2>3. k - 1 \in 0..2 /\ k - 1 <= Len(Tail(q)) /\ Len(Tail(q)) - (k - 1) <= n
    BY <1>1, <1>2, <1>4
  <2> QED
    BY <2>1, <2>2, <2>3 DEF AtMost
<1> QED
  BY <1>3, <1>4

\* MQTTAsync_subscribe appends one.
LEMMA AtMostAppend ==
    ASSUME NEW S, NEW q \in Seq(S), NEW c \in S, c.type = "SUBSCRIBE",
           NEW n \in Nat, AtMost(q, n)
    PROVE  AtMost(Append(q, c), n + 1)
<1>1. PICK k \in 0..2 : /\ k <= Len(q) /\ Len(q) - k <= n
                        /\ \A i \in 1..Len(q) : q[i].type = "SUBSCRIBE" <=> i > k
  BY DEF AtMost
<1> DEFINE r == Append(q, c)
<1>2. /\ Len(q) \in Nat /\ Len(r) = Len(q) + 1 /\ r[Len(q) + 1] = c
      /\ \A i \in 1..Len(q) : r[i] = q[i]
  OBVIOUS
<1> HIDE DEF r
<1>3. ASSUME NEW i \in 1..Len(r) PROVE r[i].type = "SUBSCRIBE" <=> i > k
  <2>1. CASE i = Len(q) + 1
    BY <1>1, <1>2, <2>1
  <2>2. CASE i \in 1..Len(q)
    BY <1>1, <1>2, <2>2
  <2> QED
    BY <1>2, <2>1, <2>2
<1>4. AtMost(r, n + 1)
  BY <1>1, <1>2, <1>3 DEF AtMost
<1> QED
  BY <1>4 DEF r

\* addCommand adds no subscription; the order of the queue leaves room for one
\* CONNECT and one DISCONNECT at its head.
LEMMA AtMostAdded ==
    ASSUME NEW q \in Seq(CommandType), NEW c \in CommandType, c.type # "SUBSCRIBE",
           Disciplined(q), NEW n \in Nat, AtMost(q, n)
    PROVE  AtMost(addCommand(q, c), n)
<1>1. CASE q # <<>> /\ q[1].type = c.type
  <2>1. addCommand(q, c) = q
    BY <1>1, Zenon DEF addCommand
  <2> QED
    BY <2>1
<1>2. CASE ~(q # <<>> /\ q[1].type = c.type)
  <2> DEFINE r == addCommand(q, c)
  <2> SUFFICES AtMost(r, n)
    OBVIOUS
  <2>1. r \in Seq(CommandType) /\ r[1] = c /\ (Added(q, c, r) \/ Moved(q, c, r))
    BY <1>2, AddCommandShape, Zenon
  <2> HIDE DEF r
  <2>2. PICK k \in 0..2 : /\ k <= Len(q) /\ Len(q) - k <= n
                          /\ \A i \in 1..Len(q) : q[i].type = "SUBSCRIBE" <=> i > k
    BY DEF AtMost
  <2>3. ASSUME NEW i \in 1..Len(q)
        PROVE  q[i].type \in {"CONNECT", "DISCONNECT", "SUBSCRIBE"}
    <3>1. q[i] \in CommandType
      OBVIOUS
    <3> QED
      BY <3>1 DEF CommandType
  <2>4. c.type \in {"CONNECT", "DISCONNECT"}
    BY DEF CommandType
  <2>5. CASE Added(q, c, r)
    <3>1. k <= 1
      <4> SUFFICES ASSUME k = 2 PROVE FALSE
        OBVIOUS
      <4>1. 1 \in 1..Len(q) /\ 2 \in 1..Len(q)
        BY <2>2, SMTT(60), ZenonT(60)
      <4>2. q[1].type # "SUBSCRIBE" /\ q[2].type # "SUBSCRIBE"
        BY <2>2, <4>1, SMTT(60), ZenonT(60)
      <4>3. q[2].type # q[1].type
        BY <4>1, <4>2 DEF Disciplined
      <4>4. q[1].type # c.type /\ q[2].type # c.type
        BY <2>5, <4>1 DEF Added
      <4> QED
        BY <2>3, <2>4, <4>1, <4>2, <4>3, <4>4
    <3>2. ASSUME NEW i \in 1..Len(r) PROVE r[i].type = "SUBSCRIBE" <=> i > k + 1
      <4>1. CASE i = 1
        BY <2>1, <4>1
      <4>2. CASE i # 1
        <5>1. i - 1 \in 1..Len(q) /\ (i - 1) + 1 = i
          BY <2>5, <4>2 DEF Added
        <5>2. r[i] = q[i - 1]
          BY <2>5, <5>1 DEF Added
        <5> QED
          BY <2>2, <5>1, <5>2
      <4> QED
        BY <4>1, <4>2
    <3>3. k + 1 \in 0..2 /\ k + 1 <= Len(r) /\ Len(r) - (k + 1) <= n
      BY <2>2, <2>5, <3>1 DEF Added
    <3> QED
      BY <3>2, <3>3 DEF AtMost
  <2>6. CASE Moved(q, c, r)
    <3>1. PICK l \in 1..Len(q) :
                /\ q[l].type = c.type
                /\ \A i \in 1..(l - 1) : q[i].type # c.type
                /\ Len(r) = Len(q)
                /\ \A i \in 1..(l - 1) : r[i + 1] = q[i]
                /\ \A i \in (l + 1)..Len(q) : r[i] = q[i]
      BY <2>6 DEF Moved
    <3>2. l <= k
      BY <2>2, <3>1
    <3>3. ASSUME NEW i \in 1..Len(r) PROVE r[i].type = "SUBSCRIBE" <=> i > k
      <4>1. CASE i = 1
        BY <2>1, <3>2, <4>1
      <4>2. CASE i # 1 /\ i <= l
        <5>1. i - 1 \in 1..(l - 1) /\ i - 1 \in 1..Len(q) /\ (i - 1) + 1 = i
          BY <3>1, <4>2
        <5>2. r[i] = q[i - 1]
          BY <3>1, <5>1
        <5> QED
          BY <2>2, <3>2, <4>2, <5>1, <5>2
      <4>3. CASE i > l
        <5>1. i \in (l + 1)..Len(q) /\ i \in 1..Len(q)
          BY <3>1, <4>3
        <5> QED
          BY <2>2, <3>1, <5>1
      <4> QED
        BY <4>1, <4>2, <4>3
    <3> QED
      BY <2>2, <3>1, <3>3 DEF AtMost
  <2> QED
    BY <2>1, <2>5, <2>6
<1> QED
  BY <1>1, <1>2

-----------------------------------------------------------------------------
(* What the steps of the library do to the queues. *)

\* The queue itself comes from it.
LEMMA DerivedSame == \A q : Derived(q, q)
BY WithinSame DEF Derived

\* And so does what comes from it in two steps.
LEMMA DerivedTransitive ==
    ASSUME NEW q, NEW r, NEW s, Derived(s, r), Derived(r, q)
    PROVE  Derived(s, q)
BY WithinTransitive DEF Derived

\* The CONNECT or DISCONNECT that the library itself queues, and taking the head.
LEMMA OwnCommands ==
    ASSUME NEW q, GoodQueue(q)
    PROVE  /\ \A v \in {0, 3, 4}, b \in BOOLEAN : Derived(addCommand(q, Connect(v, b)), q)
           /\ Derived(addCommand(q, Disconnect), q)
           /\ GoodQueue(addCommand(q, Disconnect))
           /\ q # <<>> => Derived(Tail(q), q) /\ GoodQueue(Tail(q))
<1>1. ASSUME NEW c \in CommandType, c.type # "SUBSCRIBE"
      PROVE  Derived(addCommand(q, c), q)
  BY <1>1, WithinAdded, AtMostAdded DEF Derived, GoodQueue
<1>2. ASSUME q # <<>> PROVE Derived(Tail(q), q)
  BY <1>2, WithinTail, AtMostTail DEF Derived, GoodQueue
<1> QED
  BY <1>1, <1>2, CommandTypes, GoodQueueKept

\* Giving an attempt up.
LEMMA NextOrCloseQueue ==
    ASSUME NEW q, GoodQueue(q), Derived(q, commands), responses \in Seq(CommandType),
           nextOrClose(q), UNCHANGED appVars
    PROVE  QueueStep
<1>1. Derived(addCommand(q, Connect(4, TRUE)), q)
  BY OwnCommands
<1>2. Derived(commands', commands)
  BY <1>1, DerivedTransitive DEF nextOrClose
<1>3. UNCHANGED responses \/ responses' = <<>>
  BY DEF nextOrClose, sessionVars, closeSession, cleanSession
<1>4. Len(responses) \in Nat /\ Len(responses) >= Len(<<>>)
  OBVIOUS
<1>5. Within(responses', responses) /\ Len(responses') <= Len(responses)
  BY <1>3, <1>4, WithinSame
<1> QED
  BY <1>2, <1>5 DEF QueueStep

\* MQTTProtocol_keepalive queues a DISCONNECT when a ping is not answered.
LEMMA RetryQueue ==
    ASSUME GoodQueue(commands), NEW ping, retry(ping) \/ keepaliveDue(ping)
    PROVE  Derived(commands', commands)
BY OwnCommands, DerivedSame DEF retry, keepaliveDue

\* The responses stay as they are, or the session is cleaned.
LEMMA QueuesKept ==
    ASSUME TypeInv, UNCHANGED appVars, Derived(commands', commands)
    PROVE  /\ UNCHANGED responses => QueueStep
           /\ cleanSession => QueueStep
BY WithinSame DEF QueueStep, cleanSession, TypeInv, SessionTypeOK

\* The send thread.
LEMMA SendThreadQueue ==
    ASSUME TypeInv, processCommand \/ checkTimeouts
    PROVE  QueueStep \/ processSubscribe
<1>1. /\ GoodQueue(commands) /\ responses \in Seq(CommandType)
      /\ commands # <<>> => Derived(Tail(commands), commands) /\ GoodQueue(Tail(commands))
  BY OwnCommands DEF TypeInv, SessionTypeOK
<1>2. ASSUME NEW fd \in Fds, processConnect(fd) PROVE QueueStep
  BY <1>1, <1>2, QueuesKept DEF processConnect, headIs, sessionVars
<1>3. ASSUME processConnectFail PROVE QueueStep
  <2>1. commands # <<>> => Derived(addCommand(Tail(commands), Connect(4, TRUE)), commands)
    BY <1>1, OwnCommands, DerivedTransitive
  <2> QED
    BY <1>1, <1>3, <2>1, QueuesKept DEF processConnectFail, headIs, sessionVars
<1>4. ASSUME processSubscribeError PROVE QueueStep
  <2>1. commands # <<>> => Derived(addCommand(Tail(commands), Disconnect), commands)
    BY <1>1, OwnCommands, DerivedTransitive
  <2> QED
    BY <1>4, <2>1, QueuesKept DEF processSubscribeError, headIs, sessionVars
<1>5. ASSUME processDisconnect PROVE QueueStep
  <2>1. UNCHANGED responses \/ cleanSession
    BY <1>5 DEF processDisconnect, closeSession, sessionVars
  <2> QED
    BY <1>1, <1>5, <2>1, QueuesKept DEF processDisconnect, headIs
<1>6. ASSUME checkTimeouts PROVE QueueStep
  BY <1>1, <1>6, DerivedSame, NextOrCloseQueue DEF checkTimeouts
<1> QED
  BY <1>2, <1>3, <1>4, <1>5, <1>6 DEF processCommand

\* The receive thread.
LEMMA ReceiveThreadQueue ==
    ASSUME TypeInv,
           select \/ cycleIdle \/ cycleSocket \/ handleResult \/ cyclePublish \/ messageDone
    PROVE  QueueStep
<1>1. GoodQueue(commands) /\ responses \in Seq(CommandType)
  BY DEF TypeInv, SessionTypeOK
<1>2. CASE select \/ cyclePublish
  BY <1>2, DerivedSame, QueuesKept DEF select, cyclePublish, reading, cycleResult, sessionVars
<1>3. CASE cycleIdle \/ messageDone
  BY <1>1, <1>3, RetryQueue, QueuesKept DEF cycleIdle, messageDone, sessionVars
<1>4. CASE cycleSocket
  <2>1. UNCHANGED appVars
    BY <1>4 DEF cycleSocket, cycleNoClient, cycleConnecting, cycleConnectError, cyclePingresp,
                cycleAck, cycleNothing, cycleReadError, cycleResult
  <2>2. CASE cycleNoClient \/ cycleNothing
    BY <1>1, <2>1, <2>2, RetryQueue, QueuesKept DEF cycleNoClient, cycleNothing, sessionVars
  <2>3. CASE cycleConnecting
    BY <2>1, <2>3, DerivedSame, QueuesKept DEF cycleConnecting, sessionVars
  <2>4. CASE cycleConnectError
    BY <1>1, <2>1, <2>4, DerivedSame, NextOrCloseQueue DEF cycleConnectError
  <2>5. CASE cyclePingresp \/ cycleAck
    BY <1>1, <2>1, <2>5, RetryQueue, QueuesKept DEF cyclePingresp, cycleAck, reading, sessionVars
  <2>6. CASE cycleReadError
    BY <1>1, <2>1, <2>6, DerivedSame, NextOrCloseQueue, RetryQueue, QueuesKept
       DEF cycleReadError, sessionVars
  <2> QED
    BY <1>4, <2>2, <2>3, <2>4, <2>5, <2>6 DEF cycleSocket
<1>5. CASE handleResult
  <2>1. UNCHANGED appVars
    BY <1>5 DEF handleResult, handleNothing, handleError, handleConnack, handleSuback, handling
  <2>2. CASE handleNothing
    BY <2>1, <2>2, DerivedSame, QueuesKept DEF handleNothing, sessionVars
  <2>3. CASE handleError
    <3> DEFINE q == IF connected THEN addCommand(commands, Disconnect) ELSE commands
    <3>1. GoodQueue(q) /\ Derived(q, commands)
      BY <1>1, OwnCommands, DerivedSame
    <3>2. nextOrClose(q)
      BY <2>3 DEF handleError
    <3> HIDE DEF q
    <3> QED
      BY <1>1, <2>1, <3>1, <3>2, NextOrCloseQueue
  <2>4. CASE handleConnack
    BY <1>1, <2>1, <2>4, NextOrCloseQueue, DerivedSame, QueuesKept DEF handleConnack
  <2>5. CASE handleSuback
    <3>1. responses' = removeResponse(rpack.id) /\ UNCHANGED commands
      BY <2>5 DEF handleSuback
    <3>2. /\ Within(removeResponse(rpack.id), responses)
          /\ Len(removeResponse(rpack.id)) <= Len(responses)
      BY <1>1, WithinRemoved
    <3> QED
      BY <2>1, <3>1, <3>2, DerivedSame DEF QueueStep
  <2> QED
    BY <1>5, <2>2, <2>3, <2>4, <2>5 DEF handleResult
<1> QED
  BY <1>2, <1>3, <1>4, <1>5

\* The network touches neither queue; a callback queues a CONNECT.
LEMMA NetworkQueue ==
    ASSUME TypeInv, network \/ reconnected
    PROVE  QueueStep
<1>1. CASE network
  BY <1>1, DerivedSame, QueuesKept DEF network, tcpUp, tcpFail, brokerConnect, brokerSubscribe,
     brokerPing, brokerPublish, netUnchanged, sessionVars
<1>2. CASE reconnected
  <2>1. Derived(commands', commands)
    BY <1>2, OwnCommands DEF reconnected, TypeInv
  <2>2. UNCHANGED responses \/ cleanSession
    BY <1>2 DEF reconnected, closeSession, sessionVars
  <2> QED
    BY <1>2, <2>1, <2>2, QueuesKept DEF reconnected
<1> QED
  BY <1>1, <1>2

\* Only sending a SUBSCRIBE moves a subscription from one queue to the other.
LEMMA LibraryQueue ==
    ASSUME TypeInv, libraryStep \/ cyclePublish \/ messageDone
    PROVE  QueueStep \/ processSubscribe
BY SendThreadQueue, ReceiveThreadQueue, NetworkQueue DEF libraryStep

-----------------------------------------------------------------------------
(* Message ids. *)

\* A step that only takes subscriptions away, or moves them.
LEMMA TokenFrame ==
    ASSUME TokenInv, Within(commands', commands), Within(responses', responses),
           UNCHANGED appVars \/ app' # "add"
    PROVE  TokenInv'
<1>1. Unique(commands') /\ Unique(responses')
  BY WithinKeeps DEF TokenInv
<1>2. Apart(commands', responses')
  <2>1. Apart(commands', responses)
    BY WithinKeeps DEF TokenInv
  <2> QED
    BY <2>1, WithinKeeps
<1>3. app' = "add" => Free(commands', appToken') /\ Free(responses', appToken')
  BY WithinKeeps DEF TokenInv, appVars
<1> QED
  BY <1>1, <1>2, <1>3 DEF TokenInv

\* Sending a SUBSCRIBE moves its id to the responses.
LEMMA SubscribeTokens ==
    ASSUME TypeInv, TokenInv, processSubscribe
    PROVE  TokenInv'
<1>1. /\ commands \in Seq(CommandType) /\ responses \in Seq(CommandType)
      /\ commands # <<>> => Within(Tail(commands), commands)
  BY WithinTail DEF TypeInv, GoodQueue, SessionTypeOK
<1>2. /\ commands # <<>> /\ Head(commands).type = "SUBSCRIBE" /\ commands' = Tail(commands)
      /\ responses' = Append(responses, Head(commands)) /\ UNCHANGED appVars
  BY DEF processSubscribe, headIs
<1> DEFINE c == commands[1]
           r == Append(responses, c)
           n == Len(responses)
<1>3. Head(commands) = c /\ 1 \in 1..Len(commands)
  BY <1>1, <1>2
<1>4. n \in Nat /\ Len(r) = n + 1 /\ r[n + 1] = c /\ \A i \in 1..n : r[i] = responses[i]
  BY <1>1, <1>2, <1>3
<1> HIDE DEF c, r
<1>5. /\ Len(Tail(commands)) = Len(commands) - 1
      /\ \A i \in 1..Len(Tail(commands)) :
            i + 1 \in 1..Len(commands) /\ i + 1 # 1 /\ Tail(commands)[i] = commands[i + 1]
  BY <1>1, <1>2
<1>6. Unique(Tail(commands)) /\ Apart(Tail(commands), responses)
  BY <1>1, <1>2, WithinKeeps DEF TokenInv
<1>7. Free(responses, c.token)
  BY <1>2, <1>3 DEF TokenInv, Apart, Free, c
<1>8. Free(Tail(commands), c.token)
  BY <1>2, <1>3, <1>5 DEF TokenInv, Unique, Free, c
<1>9. \A i \in 1..Len(r) : i = n + 1 \/ i \in 1..n
  BY <1>4
<1>10. Unique(r)
  BY <1>4, <1>7, <1>9 DEF TokenInv, Unique, Free
<1>11. Apart(Tail(commands), r)
  BY <1>4, <1>6, <1>8, <1>9 DEF Apart, Free
<1>12. ASSUME app = "add" PROVE Free(Tail(commands), appToken) /\ Free(r, appToken)
  <2>1. Free(commands, appToken) /\ Free(responses, appToken)
    BY <1>12 DEF TokenInv
  <2>2. c.type = "SUBSCRIBE" => c.token # appToken
    BY <1>3, <2>1 DEF Free, c
  <2>3. Free(Tail(commands), appToken)
    BY <1>1, <1>2, <2>1, WithinKeeps
  <2> QED
    BY <1>4, <1>9, <2>1, <2>2, <2>3 DEF Free
<1> QED
  BY <1>2, <1>3, <1>6, <1>10, <1>11, <1>12 DEF TokenInv, appVars, r

\* The application: an id is assigned while it is free, and no other subscription
\* can get it before this one is queued.
LEMMA ApplicationTokens ==
    ASSUME TypeInv, TokenInv, appConnect \/ callSubscribe \/ assignMsgId \/ subscribeAdd
    PROVE  TokenInv'
<1>1. commands \in Seq(CommandType) /\ responses \in Seq(CommandType)
  BY DEF TypeInv, GoodQueue, SessionTypeOK
<1>2. CASE appConnect
  BY <1>1, <1>2, OwnCommands, WithinSame, TokenFrame DEF appConnect, sessionVars, TypeInv, Derived
<1>3. CASE callSubscribe
  BY <1>3, WithinSame, TokenFrame DEF callSubscribe, subscribeMany, sessionVars
<1>4. CASE assignMsgId
  <2>1. appToken' \notin usedIds /\ UNCHANGED <<commands, responses>>
    BY <1>4 DEF assignMsgId
  <2>2. \A i \in 1..Len(commands) : commands[i].token \in usedIds
    BY <1>1 DEF usedIds
  <2>3. \A i \in 1..Len(responses) : responses[i].token \in usedIds
    BY <1>1 DEF usedIds
  <2> HIDE DEF usedIds
  <2> QED
    BY <2>1, <2>2, <2>3 DEF TokenInv, Free
<1>5. CASE subscribeAdd
  <2> DEFINE c == Subscribe(appTopic, appToken)
             r == Append(commands, c)
             n == Len(commands)
  <2>1. app = "add" /\ app' = "idle" /\ commands' = r /\ UNCHANGED responses
    BY <1>5 DEF subscribeAdd, appendCommand, sessionVars
  <2>2. c.token = appToken
    BY DEF Subscribe, Command
  <2>3. c \in CommandType
    BY CommandTypes DEF TypeInv, AppTypeOK
  <2> HIDE DEF c
  <2>4. n \in Nat /\ Len(r) = n + 1 /\ r[n + 1] = c /\ \A i \in 1..n : r[i] = commands[i]
    BY <1>1, <2>3
  <2>5. Free(commands, c.token) /\ Free(responses, c.token)
    BY <2>1, <2>2 DEF TokenInv
  <2>6. \A i \in 1..Len(r) : i = n + 1 \/ i \in 1..n
    BY <2>4
  <2> HIDE DEF r
  <2>7. Unique(r)
    BY <2>4, <2>5, <2>6, SMTT(60), ZenonT(60) DEF TokenInv, Unique, Free
  <2>8. Apart(r, responses)
    BY <2>4, <2>5, <2>6 DEF TokenInv, Apart, Free
  <2> QED
    BY <2>1, <2>7, <2>8 DEF TokenInv
<1> QED
  BY <1>2, <1>3, <1>4, <1>5

\* The ids of all subscriptions under way stay apart: TokenInv is inductive.
THEOREM TokenInvariant == ClientSpec => []TokenInv
<1>1. ClientInit => TokenInv
  BY DEF ClientInit, TokenInv, Unique, Apart
<1>2. TypeInv /\ TokenInv /\ [ClientNext]_clientVars => TokenInv'
  <2> SUFFICES ASSUME TypeInv, TokenInv, [ClientNext]_clientVars PROVE TokenInv'
    OBVIOUS
  <2>1. CASE UNCHANGED clientVars
    BY <2>1, WithinSame, TokenFrame DEF clientVars, sessionVars
  <2>2. CASE ClientNext
    <3>1. CASE libraryStep \/ cyclePublish \/ messageDone
      BY <3>1, LibraryQueue, SubscribeTokens, TokenFrame DEF QueueStep, Derived
    <3> QED
      BY <2>2, <3>1, ApplicationTokens DEF ClientNext
  <2> QED
    BY <2>1, <2>2
<1> QED
  BY <1>1, <1>2, TypesInvariant, PTL DEF ClientSpec

\* No two subscriptions under way share a message id, although
\* MQTTAsync_closeSession starts the ids again while commands are queued.
THEOREM TokensNeverShared == ClientSpec => []TokensUnique
<1>1. TypeInv /\ TokenInv => TokensUnique
  <2> SUFFICES ASSUME TypeInv, TokenInv PROVE TokensUnique
    OBVIOUS
  <2> DEFINE n == Len(commands)
             m == Len(responses)
             tokens == [i \in 1..(n + m) |-> IF i <= n THEN commands[i] ELSE responses[i - n]]
  <2>1. n \in Nat /\ m \in Nat
    BY DEF TypeInv, GoodQueue, SessionTypeOK
  <2> HIDE DEF n, m
  <2>2. ASSUME NEW i \in 1..(n + m), NEW j \in 1..(n + m), i # j,
               tokens[i].type = "SUBSCRIBE", tokens[j].type = "SUBSCRIBE"
        PROVE  tokens[i].token # tokens[j].token
    <3>1. CASE i <= n /\ j <= n
      <4>1. i \in 1..Len(commands) /\ j \in 1..Len(commands)
        BY <2>1, <3>1 DEF n
      <4>2. tokens[i] = commands[i] /\ tokens[j] = commands[j]
        BY <3>1
      <4>3. Unique(commands)
        BY DEF TokenInv
      <4> HIDE DEF tokens
      <4> QED
        BY <2>2, <4>1, <4>2, <4>3 DEF Unique
    <3>2. CASE i <= n /\ ~(j <= n)
      <4>1. i \in 1..Len(commands) /\ j - n \in 1..Len(responses)
        BY <2>1, <3>2 DEF n, m
      <4>2. tokens[i] = commands[i] /\ tokens[j] = responses[j - n]
        BY <3>2
      <4>3. Apart(commands, responses)
        BY DEF TokenInv
      <4> HIDE DEF tokens
      <4> QED
        BY <2>2, <4>1, <4>2, <4>3 DEF Apart
    <3>3. CASE ~(i <= n) /\ j <= n
      <4>1. j \in 1..Len(commands) /\ i - n \in 1..Len(responses)
        BY <2>1, <3>3 DEF n, m
      <4>2. tokens[j] = commands[j] /\ tokens[i] = responses[i - n]
        BY <3>3
      <4>3. Apart(commands, responses)
        BY DEF TokenInv
      <4> HIDE DEF tokens
      <4> QED
        BY <2>2, <4>1, <4>2, <4>3 DEF Apart
    <3>4. CASE ~(i <= n) /\ ~(j <= n)
      <4>1. i - n \in 1..Len(responses) /\ j - n \in 1..Len(responses) /\ i - n # j - n
        BY <2>1, <2>2, <3>4 DEF m
      <4>2. tokens[i] = responses[i - n] /\ tokens[j] = responses[j - n]
        BY <3>4
      <4>3. Unique(responses)
        BY DEF TokenInv
      <4> HIDE DEF tokens
      <4> QED
        BY <2>2, <4>1, <4>2, <4>3 DEF Unique
    <3> QED
      BY <3>1, <3>2, <3>3, <3>4
  <2> QED
    BY <2>2 DEF TokensUnique, n, m
<1> QED
  BY <1>1, TypesInvariant, TokenInvariant, PTL

=============================================================================
