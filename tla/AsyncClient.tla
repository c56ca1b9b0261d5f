---------------------------- MODULE AsyncClient ----------------------------
(***************************************************************************)
(* The asynchronous MQTT client library (paho.mqtt.c/src/MQTTAsync.c) as   *)
(* cmqtt uses it: one client, one server URI, no persistence, no automatic *)
(* reconnect, clean session, protocol version "default" (3.1.1 first, then *)
(* 3.1).  Its callbacks are cmqtt's own: every failure and every loss of   *)
(* the connection ends in myReconnctMQTT (core/mqtta.c).                   *)
(*                                                                         *)
(* Threads: the send thread takes commands from the head of a queue and    *)
(* checks timeouts; the receive thread selects a socket, reads a packet    *)
(* from it, and handles it; one application thread subscribes.  Callbacks  *)
(* run on the send or the receive thread, under mqttasync_mutex: while     *)
(* callback is set, only steps that do not need the mutex are possible.    *)
(*                                                                         *)
(* The receive thread holds no lock between select, reading and handling,  *)
(* and finds the client again by the number of the socket each time.       *)
(***************************************************************************)
EXTENDS Integers, Sequences, SequencesExt

CONSTANTS
    Filters,    \* the topics the application may subscribe to
    NoTopic,    \* the topic of a command or packet that has none
    Fds,        \* socket numbers the system hands out; a closed one is reused
    Immediate,  \* whether a non-blocking connect() may complete at once
    MaxMsgId,   \* MAX_MSG_ID
    MaxFaults,  \* bound: network and broker failures in a behaviour
    MaxPublish, \* bound: messages the broker publishes in a behaviour
    MaxSubs     \* bound: subscriptions under way at the same time

ASSUME ClientAssumption ==
    /\ NoTopic \notin Filters
    /\ Fds \subseteq Nat \ {0}
    /\ Immediate \in BOOLEAN
    /\ MaxMsgId \in Nat \ {0}
    /\ MaxFaults \in Nat /\ MaxPublish \in Nat /\ MaxSubs \in Nat

VARIABLES
    \* the client object
    commands,   \* the command queue
    responses,  \* commands sent and waiting for an acknowledgement
    connect,    \* m->connect: version and start time of the last CONNECT
    connState,  \* c->connect_state
    connected,  \* c->connected
    sock,       \* c->net.socket, 0 for none
    pingOut,    \* c->ping_outstanding
    msgID,      \* c->msgID, the last message id assigned
    callback,   \* the application callback that is running
    \* the receive thread
    rpc,        \* where it is: in select, before reading, before handling
    rsock,      \* the socket select returned
    rrc,        \* the return code of reading
    rpack,      \* the packet read
    rfresh,     \* whether rpack came from the connection that is current
    \* the connection and the broker
    tcp,        \* the state of the TCP connection of sock
    outb,       \* packets written and not yet read by the broker
    inb,        \* packets sent by the broker and not yet read
    accepted,   \* the broker accepted a CONNECT on this connection
    subs,       \* the topics of the broker's session
    faults,     \* failures so far
    published,  \* messages published so far
    \* the application thread
    app,        \* where it is in a call of the library
    appTopic,   \* the topic it is subscribing to
    appToken    \* the message id it got

linkVars == <<connState, connected, sock, pingOut, rfresh,
              tcp, outb, inb, accepted, subs>>
sessionVars == <<responses, msgID>>
recvThreadVars == <<rpc, rsock, rrc, rpack>>
appVars == <<app, appTopic, appToken>>
budgetVars == <<faults, published>>
clientVars == <<commands, connect, callback, linkVars, sessionVars,
                recvThreadVars, appVars, budgetVars>>

-----------------------------------------------------------------------------
(* Commands and packets. *)

\* timed is FALSE for a CONNECT whose start_time was left at zero.
Command(type, ver, timed, topic, token) ==
    [type |-> type, ver |-> ver, timed |-> timed, topic |-> topic, token |-> token]

Connect(ver, timed) == Command("CONNECT", ver, timed, NoTopic, 0)
Disconnect          == Command("DISCONNECT", 0, TRUE, NoTopic, 0)
Subscribe(t, token) == Command("SUBSCRIBE", 0, TRUE, t, token)

Packet(type, topic, id) == [type |-> type, topic |-> topic, id |-> id]

NoPacket == Packet("NONE", NoTopic, 0)

NoCallback == [why |-> "none", ver |-> 0, timed |-> TRUE, topic |-> NoTopic]
Callback(why) == [NoCallback EXCEPT !.why = why]

\* mqttasync_mutex is free.
MutexFree == callback = NoCallback

\* MQTTAsync_addCommand for an application command: appended.
appendCommand(q, c) == Append(q, c)

\* Variant of addCommand: added at the end like any other command.
addCommandAtEnd(q, c) ==
    IF q # <<>> /\ q[1].type = c.type THEN q ELSE Append(q, c)

\* MQTTAsync_addCommand for CONNECT and internal DISCONNECT: ignored when the
\* head of the queue is one already, else moved or added to the head.
addCommand(q, c) ==
    IF q # <<>> /\ q[1].type = c.type THEN q
    ELSE Cons(c, RemoveFirstMatch(q, LAMBDA x : x.type = c.type))

\* MQTTVERSION_DEFAULT, then 3.1.1, then 3.1 for good.
nextVersion(v) == IF v = 0 THEN 4 ELSE 3

-----------------------------------------------------------------------------
(* Closing. *)

\* MQTTAsync_closeOnly; the broker drops the clean session with the connection.
closeOnly ==
    /\ sock' = 0
    /\ connected' = FALSE
    /\ connState' = "NOT_IN_PROGRESS"
    /\ pingOut' = FALSE
    /\ rfresh' = FALSE
    /\ tcp' = "none"
    /\ outb' = <<>>
    /\ inb' = <<>>
    /\ accepted' = FALSE
    /\ subs' = {}

\* Variant of cleanSession: the commands waiting for a response are kept.
cleanSessionKeepResponses == msgID' = 0 /\ UNCHANGED responses

cleanSession ==
    /\ responses' = <<>>
    /\ msgID' = 0

closeSession == closeOnly /\ cleanSession

\* nextOrClose on command queue q: the next protocol version if there is one
\* left, else the session is closed and onConFailure called.
nextOrClose(q) ==
    \/ /\ connect.ver = 4
       /\ closeOnly
       /\ commands' = addCommand(q, Connect(4, TRUE))
       /\ UNCHANGED <<sessionVars, callback>>
    \/ /\ connect.ver # 4
       /\ closeSession
       /\ commands' = q
       /\ callback' = Callback("closed")

-----------------------------------------------------------------------------
(* The send thread: MQTTAsync_processCommand, one branch per action. *)

headIs(type) == MutexFree /\ commands # <<>> /\ Head(commands).type = type
idleClient == connState = "NOT_IN_PROGRESS" /\ ~connected

\* MQTTProtocol_connect: a socket, on which connect() is in progress or, where
\* the system does that, already complete; CONNECT is then sent at once.
startConnect(fd) ==
    /\ connect' = [ver |-> nextVersion(Head(commands).ver), timed |-> Head(commands).timed]
    /\ sock' = fd
    /\ \/ /\ connState' = "TCP_IN_PROGRESS"
          /\ tcp' = "syn"
          /\ UNCHANGED outb
       \/ /\ Immediate
          /\ connState' = "WAIT_FOR_CONNACK"
          /\ tcp' = "up"
          /\ outb' = <<Packet("CONNECT", NoTopic, 0)>>
    /\ UNCHANGED <<connected, pingOut, rfresh, inb, accepted, subs>>

\* CONNECT; while connecting or connected it would only replace m->connect.
processConnect(fd) ==
    /\ headIs("CONNECT")
    /\ commands' = Tail(commands)
    /\ IF idleClient
       THEN startConnect(fd)
       ELSE /\ connect' = [ver |-> Head(commands).ver, timed |-> Head(commands).timed]
            /\ UNCHANGED linkVars
    /\ UNCHANGED <<callback, sessionVars, recvThreadVars, appVars, budgetVars>>

\* The connect attempt fails at once.  With version 3.1.1 the command goes
\* back to the head of the queue, with 3.1 onConFailure is called.
processConnectFail ==
    /\ headIs("CONNECT")
    /\ idleClient
    /\ faults < MaxFaults
    /\ faults' = faults + 1
    /\ LET ver == nextVersion(Head(commands).ver)
       IN  \/ /\ ver = 4
              /\ commands' = addCommand(Tail(commands), Connect(4, TRUE))
              /\ UNCHANGED callback
           \/ /\ ver # 4
              /\ commands' = Tail(commands)
              /\ callback' = [Callback("connectFailed") EXCEPT
                                 !.ver = ver, !.timed = Head(commands).timed]
    /\ UNCHANGED <<connect, linkVars, sessionVars, recvThreadVars, appVars, published>>

\* SUBSCRIBE waits in the queue until the client is connected.
processSubscribe ==
    /\ headIs("SUBSCRIBE")
    /\ connected /\ connState = "NOT_IN_PROGRESS"
    /\ commands' = Tail(commands)
    /\ responses' = Append(responses, Head(commands))
    /\ outb' = IF tcp = "up"
               THEN Append(outb, Packet("SUBSCRIBE", Head(commands).topic, Head(commands).token))
               ELSE outb
    /\ UNCHANGED <<connect, callback, connState, connected, sock, pingOut, rfresh,
                   tcp, inb, accepted, subs, msgID, recvThreadVars, appVars, budgetVars>>

\* The write fails: the SUBSCRIBE is gone, an internal DISCONNECT is queued.
processSubscribeError ==
    /\ headIs("SUBSCRIBE")
    /\ connected /\ connState = "NOT_IN_PROGRESS"
    /\ tcp = "reset"
    /\ commands' = addCommand(Tail(commands), Disconnect)
    /\ UNCHANGED <<connect, callback, linkVars, sessionVars, recvThreadVars, appVars, budgetVars>>

\* Variant of processDisconnect: nobody is told that the connection is gone.
processDisconnectNoCallback ==
    /\ headIs("DISCONNECT")
    /\ commands' = Tail(commands)
    /\ closeSession
    /\ UNCHANGED <<connect, callback, recvThreadVars, appVars, budgetVars>>

\* Variant of processDisconnect: the command stays in the queue.
processDisconnectKept ==
    /\ headIs("DISCONNECT")
    /\ \/ /\ connState # "NOT_IN_PROGRESS"
          /\ connState' = "DISCONNECTING"
          /\ callback' = Callback("cancel")
          /\ UNCHANGED <<connected, sock, pingOut, rfresh, tcp, outb, inb,
                         accepted, subs, sessionVars>>
       \/ /\ connState = "NOT_IN_PROGRESS" /\ connected
          /\ closeSession
          /\ callback' = Callback("lost")
    /\ UNCHANGED <<commands, connect, recvThreadVars, appVars, budgetVars>>

\* DISCONNECT, with MQTTAsync_checkDisconnect.  While connecting, onConFailure
\* is called first and the session closed when it returns (see reconnected);
\* while connected, the session is closed and connlost called.
processDisconnect ==
    /\ headIs("DISCONNECT")
    /\ commands' = Tail(commands)
    /\ \/ idleClient /\ UNCHANGED <<callback, linkVars, sessionVars>>
       \/ /\ connState # "NOT_IN_PROGRESS"
          /\ connState' = "DISCONNECTING"
          /\ callback' = Callback("cancel")
          /\ UNCHANGED <<connected, sock, pingOut, rfresh, tcp, outb, inb,
                         accepted, subs, sessionVars>>
       \/ /\ connState = "NOT_IN_PROGRESS" /\ connected
          /\ closeSession
          /\ callback' = Callback("lost")
    /\ UNCHANGED <<connect, recvThreadVars, appVars, budgetVars>>

\* The connect timeout of MQTTAsync_checkTimeouts: it has passed on a
\* connection nothing comes from any more, and at once for a zero start time.
checkTimeouts ==
    /\ MutexFree
    /\ connState # "NOT_IN_PROGRESS"
    /\ tcp = "dead" \/ ~connect.timed
    /\ nextOrClose(commands)
    /\ UNCHANGED <<connect, recvThreadVars, appVars, budgetVars>>

-----------------------------------------------------------------------------
(* The receive thread: select, MQTTAsync_cycle, then the rest of the loop of *)
(* MQTTAsync_receiveThread.                                                  *)

readable ==
    \/ tcp \in {"refused", "reset"}
    \/ tcp = "up" /\ connState = "TCP_IN_PROGRESS"
    \/ inb # <<>>

\* Socket_getReadySocket; it runs without mqttasync_mutex.
select ==
    /\ rpc = "select"
    /\ readable
    /\ rpc' = "cycle"
    /\ rsock' = sock
    /\ UNCHANGED <<commands, connect, callback, linkVars, sessionVars, rrc, rpack,
                   appVars, budgetVars>>

\* A keepalive that is due (MQTTProtocol_keepalive), ping being the value of
\* ping_outstanding: PINGREQ is sent, or the write fails, or the PINGRESP did
\* not come in time; an internal DISCONNECT is queued in the last two cases.
keepaliveDue(ping) ==
    /\ connected
    /\ \/ /\ ~ping
          /\ pingOut' = TRUE
          /\ outb' = IF tcp = "up" THEN Append(outb, Packet("PINGREQ", NoTopic, 0)) ELSE outb
          /\ UNCHANGED commands
       \/ /\ IF ping THEN tcp = "dead" ELSE tcp = "reset"
          /\ commands' = addCommand(commands, Disconnect)
          /\ pingOut' = ping
          /\ UNCHANGED outb

\* MQTTAsync_retry, at the end of every cycle.
retry(ping) ==
    \/ pingOut' = ping /\ UNCHANGED <<commands, outb>>
    \/ keepaliveDue(ping)

\* A cycle in which select timed out and the keepalive was due.
cycleIdle ==
    /\ rpc = "select" /\ MutexFree
    /\ keepaliveDue(pingOut)
    /\ UNCHANGED <<connect, callback, connState, connected, sock, rfresh, tcp, inb,
                   accepted, subs, sessionVars, recvThreadVars, appVars, budgetVars>>

\* The receive thread leaves the cycle with this result.
cycleResult(rc, pack) ==
    /\ rpc = "cycle" /\ MutexFree
    /\ rpc' = "handle"
    /\ rrc' = rc
    /\ rpack' = pack
    /\ UNCHANGED <<rsock, connect, appVars, budgetVars>>

\* No client has this socket any more; rc keeps its initial SOCKET_ERROR.
cycleNoClient ==
    /\ rsock # sock
    /\ cycleResult("SOCKET_ERROR", NoPacket)
    /\ retry(pingOut)
    /\ rfresh' = FALSE
    /\ UNCHANGED <<callback, connState, connected, sock, tcp, inb, accepted, subs, sessionVars>>

\* MQTTAsync_connecting: getsockopt reports no error (also while the connection
\* is still being set up), so CONNECT is written.
cycleConnecting ==
    /\ rsock = sock /\ connState = "TCP_IN_PROGRESS"
    /\ tcp \in {"syn", "up", "dead"}
    /\ cycleResult("OK", NoPacket)
    /\ connState' = "WAIT_FOR_CONNACK"
    /\ outb' = IF tcp = "dead" THEN outb ELSE Append(outb, Packet("CONNECT", NoTopic, 0))
    /\ rfresh' = TRUE
    /\ UNCHANGED <<commands, callback, connected, sock, pingOut, tcp, inb, accepted, subs, sessionVars>>

\* The connection failed: the errno of getsockopt, or SOCKET_ERROR when it was
\* only the write of CONNECT that noticed.
cycleConnectError ==
    /\ rsock = sock /\ connState = "TCP_IN_PROGRESS"
    /\ tcp \in {"refused", "reset"}
    /\ \/ cycleResult("ERRNO", NoPacket)
       \/ tcp = "reset" /\ cycleResult("SOCKET_ERROR", NoPacket)
    /\ nextOrClose(commands)

\* MQTTPacket_Factory reads one packet.
reading(type) ==
    /\ rsock = sock /\ connState # "TCP_IN_PROGRESS"
    /\ inb # <<>> /\ Head(inb).type = type
    /\ inb' = Tail(inb)
    /\ rfresh' = TRUE
    /\ UNCHANGED <<connState, connected, sock, tcp, accepted, subs, sessionVars>>

\* PUBLISH at QoS 0: Protocol_processPublication calls my_mqqta_recvmsg.
cyclePublish ==
    /\ reading("PUBLISH")
    /\ connected
    /\ cycleResult("OK", NoPacket)
    /\ callback' = [Callback("message") EXCEPT !.topic = Head(inb).topic]
    /\ UNCHANGED <<commands, pingOut, outb>>

cyclePingresp ==
    /\ reading("PINGRESP")
    /\ cycleResult("OK", NoPacket)
    /\ retry(FALSE)
    /\ UNCHANGED callback

\* CONNACK and SUBACK are left to the caller of MQTTAsync_cycle.
cycleAck ==
    /\ \E type \in {"CONNACK", "SUBACK"} : reading(type)
    /\ cycleResult("OK", Head(inb))
    /\ retry(pingOut)
    /\ UNCHANGED callback

\* The socket has nothing to read after all (it is a new one).
cycleNothing ==
    /\ rsock = sock /\ connState # "TCP_IN_PROGRESS"
    /\ inb = <<>> /\ tcp \in {"syn", "up", "dead"}
    /\ cycleResult("OK", NoPacket)
    /\ retry(pingOut)
    /\ rfresh' = TRUE
    /\ UNCHANGED <<callback, connState, connected, sock, tcp, inb, accepted, subs, sessionVars>>

\* The read fails; before CONNACK the attempt is given up here.
cycleReadError ==
    /\ rsock = sock /\ connState # "TCP_IN_PROGRESS"
    /\ inb = <<>> /\ tcp \in {"refused", "reset"}
    /\ cycleResult("SOCKET_ERROR", NoPacket)
    /\ \/ connState = "WAIT_FOR_CONNACK" /\ nextOrClose(commands)
       \/ /\ connState # "WAIT_FOR_CONNACK"
          /\ retry(pingOut)
          /\ rfresh' = TRUE
          /\ UNCHANGED <<callback, connState, connected, sock, tcp, inb, accepted, subs, sessionVars>>

\* Handling the result of a cycle; the client is looked up by rsock again.
handling ==
    /\ rpc = "handle" /\ MutexFree
    /\ rpc' = "select"
    /\ rsock' = 0
    /\ rrc' = "OK"
    /\ rpack' = NoPacket
    /\ UNCHANGED <<connect, appVars, budgetVars>>

handleNothing ==
    /\ handling
    /\ \/ rsock # sock
       \/ rsock = sock /\ rrc # "SOCKET_ERROR" /\ rpack = NoPacket
    /\ UNCHANGED <<commands, callback, linkVars, sessionVars>>

\* MQTTAsync_disconnect_internal queues nothing unless connected.
handleError ==
    /\ handling
    /\ rsock = sock
    /\ rrc = "SOCKET_ERROR"
    /\ nextOrClose(IF connected THEN addCommand(commands, Disconnect) ELSE commands)

completes == connState = "WAIT_FOR_CONNACK" /\ rpack.id = 0

\* MQTTAsync_completeConnection.
handleConnack ==
    /\ handling
    /\ rsock = sock
    /\ rpack.type = "CONNACK"
    /\ \/ /\ completes
          /\ connected' = TRUE
          /\ connState' = "NOT_IN_PROGRESS"
          /\ cleanSession
          /\ UNCHANGED <<commands, callback, sock, pingOut, rfresh, tcp, outb, inb, accepted, subs>>
       \/ ~completes /\ nextOrClose(commands)

\* The first response with this token is taken out.
removeResponse(token) == RemoveFirstMatch(responses, LAMBDA c : c.token = token)

handleSuback ==
    /\ handling
    /\ rsock = sock
    /\ rpack.type = "SUBACK"
    /\ responses' = removeResponse(rpack.id)
    /\ UNCHANGED <<commands, callback, linkVars, msgID>>

-----------------------------------------------------------------------------
(* The callbacks return. *)

\* myReconnctMQTT has queued a CONNECT (MQTTAsync_connect); addCommand leaves
\* its start time at zero unless connect_state is NOT_IN_PROGRESS.  Then the
\* library goes on where it called onConFailure or connlost.
reconnected ==
    /\ callback.why \in {"connectFailed", "cancel", "lost", "closed"}
    /\ callback' = NoCallback
    /\ commands' = addCommand(commands, Connect(0, connState = "NOT_IN_PROGRESS"))
    /\ connect' = IF callback.why = "connectFailed"
                  THEN [ver |-> callback.ver, timed |-> callback.timed]
                  ELSE connect
    /\ IF callback.why = "cancel" THEN closeSession ELSE UNCHANGED <<linkVars, sessionVars>>
    /\ UNCHANGED <<recvThreadVars, appVars, budgetVars>>

\* my_mqqta_recvmsg has returned 1; the cycle ends with MQTTAsync_retry.
messageDone ==
    /\ callback.why = "message"
    /\ callback' = NoCallback
    /\ retry(pingOut)
    /\ UNCHANGED <<connect, connState, connected, sock, rfresh, tcp, inb, accepted, subs,
                   sessionVars, recvThreadVars, appVars, budgetVars>>

-----------------------------------------------------------------------------
(* The application thread. *)

\* The first MQTTAsync_connect (init_mqtt_client).
appConnect ==
    /\ app = "start"
    /\ app' = "idle"
    /\ commands' = addCommand(commands, Connect(0, TRUE))
    /\ UNCHANGED <<connect, callback, linkVars, sessionVars, recvThreadVars,
                   appTopic, appToken, budgetVars>>

\* MQTTAsync_subscribe: c->connected is read without a lock.
subscribeMany(t) ==
    /\ app = "idle"
    /\ app' = IF connected THEN "assign" ELSE "idle"
    /\ appTopic' = IF connected THEN t ELSE appTopic
    /\ UNCHANGED <<commands, connect, callback, linkVars, sessionVars, recvThreadVars,
                   appToken, budgetVars>>

\* Variant of usedIds: commands still queued are overlooked.
usedIdsResponsesOnly == {responses[i].token : i \in DOMAIN responses}

usedIds ==
    {commands[i].token : i \in DOMAIN commands} \cup {responses[i].token : i \in DOMAIN responses}

\* How far ahead of the last id k comes, counting on from it with wrap-around.
ahead(k) == (k - msgID - 1) % MaxMsgId

\* MQTTAsync_assignMsgId: the next id that is free, under the mutex.  There is
\* always one: MAX_MSG_ID is far larger than the number of topics.
assignMsgId ==
    /\ app = "assign" /\ MutexFree
    /\ \E k \in (1..MaxMsgId) \ (usedIds \cup {msgID}) :
          /\ \A j \in (1..MaxMsgId) \ (usedIds \cup {msgID}) : ahead(k) <= ahead(j)
          /\ msgID' = k
          /\ appToken' = k
    /\ app' = "add"
    /\ UNCHANGED <<commands, connect, callback, linkVars, responses, recvThreadVars,
                   appTopic, budgetVars>>

\* The command is queued; only mqttcommand_mutex is needed, so this may happen
\* while a callback is running.
subscribeAdd ==
    /\ app = "add"
    /\ app' = "idle"
    /\ commands' = appendCommand(commands, Subscribe(appTopic, appToken))
    /\ appTopic' = NoTopic
    /\ appToken' = 0
    /\ UNCHANGED <<connect, callback, linkVars, sessionVars, recvThreadVars, budgetVars>>

-----------------------------------------------------------------------------
(* The network and the broker (external).  A connection that is dead carries *)
(* nothing any more, in either direction, and reports no error; packets that *)
(* arrived before can still be read.                                         *)

fault == faults < MaxFaults /\ faults' = faults + 1

netUnchanged == UNCHANGED <<commands, connect, callback, connState, connected, sock, pingOut,
                            rfresh, sessionVars, recvThreadVars, appVars>>

tcpUp ==
    /\ tcp = "syn"
    /\ tcp' = "up"
    /\ netUnchanged /\ UNCHANGED <<outb, inb, accepted, subs, budgetVars>>

tcpFail ==
    /\ fault
    /\ \/ tcp = "syn" /\ tcp' \in {"refused", "dead"}
       \/ tcp = "up" /\ tcp' \in {"reset", "dead"}
    /\ outb' = <<>>
    /\ netUnchanged /\ UNCHANGED <<inb, accepted, subs, published>>

brokerReads(type) == tcp = "up" /\ outb # <<>> /\ Head(outb).type = type /\ outb' = Tail(outb)

brokerConnect ==
    /\ brokerReads("CONNECT")
    /\ \/ /\ accepted' = TRUE
          /\ inb' = Append(inb, Packet("CONNACK", NoTopic, 0))
          /\ UNCHANGED faults
       \/ /\ fault
          /\ inb' = Append(inb, Packet("CONNACK", NoTopic, 1))
          /\ UNCHANGED accepted
    /\ netUnchanged /\ UNCHANGED <<tcp, subs, published>>

brokerSubscribe ==
    /\ brokerReads("SUBSCRIBE")
    /\ subs' = subs \cup {Head(outb).topic}
    /\ inb' = Append(inb, Packet("SUBACK", NoTopic, Head(outb).id))
    /\ netUnchanged /\ UNCHANGED <<tcp, accepted, budgetVars>>

brokerPing ==
    /\ brokerReads("PINGREQ")
    /\ inb' = Append(inb, Packet("PINGRESP", NoTopic, 0))
    /\ netUnchanged /\ UNCHANGED <<tcp, accepted, subs, budgetVars>>

brokerPublish ==
    /\ tcp = "up"
    /\ published < MaxPublish
    /\ published' = published + 1
    /\ \E t \in subs : inb' = Append(inb, Packet("PUBLISH", t, 0))
    /\ netUnchanged /\ UNCHANGED <<tcp, outb, accepted, subs, faults>>

-----------------------------------------------------------------------------
(* The specification, with an application that subscribes at any time. *)

ClientInit ==
    /\ commands = <<>> /\ responses = <<>>
    /\ connect = [ver |-> 0, timed |-> TRUE]
    /\ connState = "NOT_IN_PROGRESS" /\ connected = FALSE
    /\ sock = 0 /\ pingOut = FALSE /\ msgID = 0
    /\ callback = NoCallback
    /\ rpc = "select" /\ rsock = 0 /\ rrc = "OK" /\ rpack = NoPacket /\ rfresh = FALSE
    /\ tcp = "none" /\ outb = <<>> /\ inb = <<>> /\ accepted = FALSE /\ subs = {}
    /\ faults = 0 /\ published = 0
    /\ app = "start" /\ appTopic = NoTopic /\ appToken = 0

processCommand ==
    \/ (\E fd \in Fds : processConnect(fd)) \/ processConnectFail
    \/ processSubscribe \/ processSubscribeError \/ processDisconnect

cycleSocket ==
    \/ cycleNoClient \/ cycleConnecting \/ cycleConnectError
    \/ cyclePingresp \/ cycleAck \/ cycleNothing \/ cycleReadError

handleResult == handleNothing \/ handleError \/ handleConnack \/ handleSuback

network ==
    \/ tcpUp \/ tcpFail \/ brokerConnect \/ brokerSubscribe \/ brokerPing \/ brokerPublish

\* Everything but the application thread and the message callback.
libraryStep ==
    \/ processCommand \/ checkTimeouts
    \/ select \/ cycleIdle \/ cycleSocket \/ handleResult
    \/ reconnected \/ network

callSubscribe ==
    /\ Len(commands) + Len(responses) < MaxSubs
    /\ \E t \in Filters : subscribeMany(t)

ClientNext ==
    \/ libraryStep
    \/ cyclePublish \/ messageDone
    \/ appConnect \/ callSubscribe \/ assignMsgId \/ subscribeAdd

ClientSpec == ClientInit /\ [][ClientNext]_clientVars

-----------------------------------------------------------------------------
(* Properties. *)

ConnStates == {"NOT_IN_PROGRESS", "TCP_IN_PROGRESS", "WAIT_FOR_CONNACK", "DISCONNECTING"}

CommandType ==
    [type : {"CONNECT", "DISCONNECT", "SUBSCRIBE"}, ver : {0, 3, 4}, timed : BOOLEAN,
     topic : Filters \cup {NoTopic}, token : 0..MaxMsgId]

PacketType(types) == [type : types, topic : Filters \cup {NoTopic}, id : 0..MaxMsgId]

OutPacket == PacketType({"CONNECT", "SUBSCRIBE", "PINGREQ"})
InPacket  == PacketType({"CONNACK", "SUBACK", "PINGRESP", "PUBLISH"})
AckPacket == PacketType({"NONE", "CONNACK", "SUBACK"})

LinkTypeOK ==
    /\ connState \in ConnStates
    /\ connected \in BOOLEAN
    /\ sock \in Fds \cup {0}
    /\ pingOut \in BOOLEAN
    /\ rfresh \in BOOLEAN
    /\ tcp \in {"none", "syn", "up", "refused", "reset", "dead"}
    /\ outb \in Seq(OutPacket)
    /\ inb \in Seq(InPacket)
    /\ accepted \in BOOLEAN
    /\ subs \subseteq Filters

SessionTypeOK == responses \in Seq(CommandType) /\ msgID \in 0..MaxMsgId

CallbackType ==
    [why : {"none", "connectFailed", "cancel", "lost", "closed", "message"},
     ver : {0, 3, 4}, timed : BOOLEAN, topic : Filters \cup {NoTopic}]

CallTypeOK == connect \in [ver : {0, 3, 4}, timed : BOOLEAN] /\ callback \in CallbackType

RecvTypeOK ==
    /\ rpc \in {"select", "cycle", "handle"}
    /\ rsock \in Fds \cup {0}
    /\ rrc \in {"OK", "ERRNO", "SOCKET_ERROR"}
    /\ rpack \in AckPacket

AppTypeOK ==
    /\ app \in {"start", "idle", "assign", "add"}
    /\ appTopic \in Filters \cup {NoTopic}
    /\ appToken \in 0..MaxMsgId

BudgetTypeOK == faults \in 0..MaxFaults /\ published \in 0..MaxPublish

\* The state of the client, of its threads and of the connection.
ClientTypeOK ==
    /\ commands \in Seq(CommandType)
    /\ LinkTypeOK /\ SessionTypeOK /\ CallTypeOK /\ RecvTypeOK /\ AppTypeOK
    /\ BudgetTypeOK

Disciplined(q) ==
    \A i, j \in 1..Len(q) :
        i < j => /\ q[j].type # q[i].type \/ q[j].type = "SUBSCRIBE"
                 /\ q[i].type = "SUBSCRIBE" => q[j].type = "SUBSCRIBE"

\* The command queue never holds two CONNECTs or two DISCONNECTs, and both
\* come before every SUBSCRIBE: MQTTAsync_addCommand keeps them at the head
\* whoever adds them, so a reconnect is never stuck behind a command that
\* itself waits for the connection.
QueueDiscipline == Disciplined(commands)

\* The three fields that together say where the connection stands never
\* contradict each other: a client that is connected is not connecting, and
\* has a socket; one that is connecting has a socket too.
ConnectionFields ==
    /\ connected => connState = "NOT_IN_PROGRESS"
    /\ sock # 0 <=> (connected \/ connState # "NOT_IN_PROGRESS")
    /\ pingOut => connected

\* c->connected is only ever set on a connection the broker has accepted, in
\* spite of the receive thread applying a CONNACK to whatever connection has
\* the socket number by then.
ConnectedMeansAccepted == connected => accepted

\* A CONNECT never reaches the head of the queue while the client is connecting
\* or connected.  It would be dropped, and it would replace m->connect under an
\* attempt that is still going to read its protocol version from there.
ConnectNeverIgnored == headIs("CONNECT") => idleClient

\* No two subscriptions under way share a message id, although closing a
\* session starts the ids again while commands are still queued.
TokensUnique ==
    LET tokens == [i \in 1..(Len(commands) + Len(responses)) |->
                      IF i <= Len(commands) THEN commands[i] ELSE responses[i - Len(commands)]]
    IN  \A i, j \in DOMAIN tokens :
            i # j /\ tokens[i].type = "SUBSCRIBE" /\ tokens[j].type = "SUBSCRIBE"
                => tokens[i].token # tokens[j].token

\* A SUBACK read from a connection that has been closed since never completes
\* a subscription of a later connection.
StaleSubackHarmless ==
    (rpack.type = "SUBACK" /\ ~rfresh /\ rsock = sock) =>
        \A i \in 1..Len(responses) : responses[i].token # rpack.id

\* A message is only read while the client is connected, so it always goes
\* to the callback at once and never to the library's message queue.
DeliveredWhenConnected ==
    (inb # <<>> /\ Head(inb).type = "PUBLISH" /\ rpc = "cycle" /\ rsock = sock) => connected

HasConnect(q) == \E c \in ToSet(q) : c.type = "CONNECT"

\* The client never gives up: whenever it is neither connected nor connecting,
\* a CONNECT is queued or a callback that queues one is running.
NeverGivesUp ==
    (app # "start" /\ ~connected /\ connState = "NOT_IN_PROGRESS") =>
        \/ HasConnect(commands)
        \/ callback.why \in {"connectFailed", "lost", "closed"}

=============================================================================
