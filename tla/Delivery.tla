------------------------------ MODULE Delivery ------------------------------
(***************************************************************************)
(* Publishing through the asynchronous client with file persistence: the   *)
(* queue of publish commands, the QoS 1 and 2 handshakes in both           *)
(* directions (MQTTProtocolClient.c), the records kept on disk             *)
(* (MQTTPersistence.c, MQTTPersistenceDefault.c) and what a restarted      *)
(* client restores from them (MQTTAsync.c).                                *)
(*                                                                         *)
(* A handler touches three things that outlive the process: the files, the *)
(* bytes handed to the network and the messages handed to the application. *)
(* Together they are the world.  A handler is modelled as its trail, the   *)
(* sequence of worlds it goes through; normally the last one is reached,   *)
(* and a crash stops at any of them.  A file is opened for writing, hence  *)
(* truncated, before it is written: a crash in between leaves it torn.     *)
(*                                                                         *)
(* Connecting is one step here (AsyncClient has its details).  The broker  *)
(* is external and follows the MQTT standard.                              *)
(***************************************************************************)
EXTENDS Integers, Sequences, FiniteSets, SequencesExt, FiniteSetsExt

CONSTANTS
    Scenarios,      \* the set of scenes: what is published, and the options
    MAX_MSG_ID,
    SEQNO_LIMIT,    \* PERSISTENCE_SEQNO_LIMIT
    MaxInflight,    \* maxInflightMessages
    MaxBuffered,    \* maxBufferedMessages
    MaxCrashes,     \* bound: crashes of the client
    MaxLosses,      \* bound: lost connections
    MaxInterrupts,  \* bound: writes that do not complete at once
    MaxRefusals,    \* bound: messages the application does not take
    MaxRetries      \* bound: retries within a connection

ASSUME DeliveryAssumption ==
    /\ \A n \in {MAX_MSG_ID, SEQNO_LIMIT, MaxInflight, MaxBuffered} : n \in Nat \ {0}
    /\ \A n \in {MaxCrashes, MaxLosses, MaxInterrupts, MaxRefusals, MaxRetries} : n \in Nat

VARIABLES
    scene,      \* the scene of this behaviour
    client,     \* the client object in memory
    world,      \* the files, the bytes sent, the messages handed over
    down,       \* packets sent by the broker and not yet read
    broker,     \* the broker's session and what it has published
    app,        \* what the application has sent and been told
    faults      \* crashes, losses, interrupted writes and refusals so far

vars == <<scene, client, world, down, broker, app, faults>>

-----------------------------------------------------------------------------
(* Messages.  The application's messages are 1, 2, ... in the order it     *)
(* sends them, the broker's are -1, -2, ... .                              *)

Out == 1 .. Len(scene.out)
In  == {-i : i \in 1 .. Len(scene.in)}
qosOf(m) == IF m > 0 THEN scene.out[m] ELSE scene.in[-m]

Packet(type, id, msg, dup) == [type |-> type, id |-> id, msg |-> msg, dup |-> dup]
Publish(id, msg) == Packet("PUBLISH", id, msg, FALSE)
Ack(type, id)    == Packet(type, id, 0, FALSE)
Refusal(type, id) == Packet(type, id, 1, FALSE)  \* with an error code, version 5

IsRefusal(p) == p.type # "PUBLISH" /\ p.msg = 1

\* A file: its key is the tag and the number.
Record(tag, n, msg, token) ==
    [tag |-> tag, n |-> n, msg |-> msg, token |-> token, torn |-> FALSE]

\* pstkeys, filtered by the prefix of the key; pstcontainskey.
Tagged(store, tags) == {r \in store : r.tag \in tags}
HasKey(store, tag, n) == \E r \in store : r.tag = tag /\ r.n = n

\* MQTTPersistence_insertInOrder, MQTTPersistence_insertInSeqOrder: by the number in the key.
InOrder(recs) == SetToSortSeq(recs, LAMBDA r, s : r.n < s.n)

Down ==
    [up |-> FALSE, connected |-> FALSE, msgID |-> 0, commands |-> <<>>,
     outboundMsgs |-> <<>>, inboundMsgs |-> <<>>, responses |-> <<>>,
     messageQueue |-> <<>>, command_seqno |-> 0, qentry_seqno |-> 0,
     pending |-> <<>>, pending_write |-> 0]

-----------------------------------------------------------------------------
(* A handler under way: the client, the worlds so far, the return code,    *)
(* the callbacks made and the messages given up.                           *)

Handler(c, w) ==
    [c |-> c, trail |-> <<w>>, rc |-> "complete",
     told |-> {}, failed |-> {}, dropped |-> {}]

WorldOf(h)     == Last(h.trail)
Reach(h, w)    == [h EXCEPT !.trail = Append(@, w)]
WithClient(h, c) == [h EXCEPT !.c = c]

\* pstremove
premove(h, tag, n) ==
    Reach(h, [WorldOf(h) EXCEPT !.store = {r \in @ : r.tag # tag \/ r.n # n}])

Written(store, r) == {s \in store : s.tag # r.tag \/ s.n # r.n} \cup {r}

\* pstput of a queued command or message, whose torn files are not modelled; as a
\* variant of pput, a write that cannot be torn.
pputWhole(h, r) == Reach(h, [WorldOf(h) EXCEPT !.store = Written(@, r)])

\* pstput: fopen(file, "wb") truncates, fwrite and fclose complete the file.
pput(h, r) ==
    LET w == WorldOf(h)
    IN  Reach(Reach(h, [w EXCEPT !.store = Written(@, [r EXCEPT !.torn = TRUE])]),
              [w EXCEPT !.store = Written(@, r)])

\* MQTTPersistence_putPacket: the key is the direction with the message id; a
\* PUBREL has a key of its own beside that of its PUBLISH.
putPacket(h, p) ==
    pput(h, Record(IF p.type = "PUBREL" THEN "sc" ELSE IF p.msg > 0 THEN "s" ELSE "r",
                   p.id, p.msg, p.id))

\* WebSocket_putdatas on a plain socket: refused while a write is pending.
putdatas(h, p, wr) ==
    IF h.c.pending # <<>> \/ wr = "error" THEN [h EXCEPT !.rc = "error"]
    ELSE IF wr = "interrupted"
    THEN [h EXCEPT !.c.pending = <<p>>, !.rc = "interrupted"]
    ELSE Reach(h, [WorldOf(h) EXCEPT !.up = Append(@, p)])

\* MQTTPacket_send: a PUBREL is stored before it is written.
MQTTPacket_send(h, p, wr) ==
    putdatas(IF p.type = "PUBREL" THEN putPacket(h, p) ELSE h, p, wr)

\* Variant of MQTTPacket_sends: nothing is stored.
MQTTPacket_sendsOnly(h, p, wr) == putdatas(h, p, wr)

\* MQTTPacket_sends: a PUBLISH of QoS 1 or 2 is stored before it is written.
MQTTPacket_sends(h, p, wr) ==
    putdatas(IF qosOf(p.msg) > 0 THEN putPacket(h, p) ELSE h, p, wr)

Bump(n) == (n + 1) % SEQNO_LIMIT

-----------------------------------------------------------------------------
(* Closing the connection. *)

Inflight == {"s", "sc", "r"}

\* MQTTAsync_unpersistInflightMessages: one file after the other, in the order
\* of the directory, which may be any.  The trail has every set of files that
\* may be left, and in the end none.
unpersistInflightMessages(h) ==
    LET w     == WorldOf(h)
        files == Tagged(w.store, Inflight)
        leave(left, g) == Reach(g, [w EXCEPT !.store = (@ \ files) \cup left])
    IN  leave({}, FoldSet(leave, h, SUBSET files \ {{}}))

\* MQTTAsync_freeResponses: every message still waiting for its acknowledgement
\* gets onFailure.
freeResponses(h) ==
    [h EXCEPT !.failed = @ \cup {r.msg : r \in ToSet(h.c.responses)}, !.c.responses = <<>>]

\* MQTTAsync_cleanSession, with MQTTProtocol_emptyMessageList twice.
cleanSession(h) ==
    LET u == unpersistInflightMessages(h)
        gone == {o.msg : o \in ToSet(h.c.outboundMsgs)}
    IN  freeResponses([u EXCEPT
            !.c = [@ EXCEPT !.inboundMsgs = <<>>, !.outboundMsgs = <<>>, !.msgID = 0],
            !.dropped = @ \cup gone])

\* MQTTAsync_closeSession; a pending write goes with the socket.
closeSession(h) ==
    LET closed == WithClient(h, [h.c EXCEPT !.connected = FALSE, !.pending = <<>>])
    IN  IF scene.cleansession THEN cleanSession(closed) ELSE closed

\* MQTTAsync_disconnect_internal, after a handler that returned SOCKET_ERROR.
closeOnError(h) == IF h.rc = "error" THEN closeSession(h) ELSE h

\* The handler ends.
Complete(h) ==
    /\ client' = h.c
    /\ world' = WorldOf(h)
    /\ app' = [app EXCEPT !.told = @ \cup h.told, !.failed = @ \cup h.failed,
                          !.dropped = @ \cup h.dropped]

\* The process dies inside the handler, which goes no further than a world of
\* its trail.  spent is what faults would be otherwise.
Die(h, spent) ==
    /\ faults.crashes < MaxCrashes
    /\ \E k \in 1 .. Len(h.trail) : world' = h.trail[k]
    /\ client' = Down
    /\ app' = [app EXCEPT !.live = {},
                          !.dropped = @ \cup (h.dropped \ {r.msg : r \in world'.store})]
    /\ faults' = [spent EXCEPT !.crashes = @ + 1]

CanWrite(wr) ==
    \/ wr \in {"complete"}
    \/ wr = "interrupted" /\ faults.interrupts < MaxInterrupts
    \/ wr = "error" /\ faults.losses < MaxLosses

Spent(wr) ==
    [faults EXCEPT !.interrupts = IF wr = "interrupted" THEN @ + 1 ELSE @,
                   !.losses = IF wr = "error" THEN @ + 1 ELSE @]

-----------------------------------------------------------------------------
(* Sending. *)

Tokens(q) == {x.token : x \in ToSet(q)}
Ids(q)    == {x.msgid : x \in ToSet(q)}

\* MQTTAsync_assignMsgId: the next id that no command, message in flight or
\* response has; 0 when all have been tried.
assignMsgId(c) ==
    LET id(k) == ((c.msgID + k - 1) % MAX_MSG_ID) + 1
        used  == Tokens(c.commands) \cup Ids(c.outboundMsgs) \cup Tokens(c.responses)
        free  == {k \in 1 .. (IF c.msgID = 0 THEN MAX_MSG_ID ELSE MAX_MSG_ID - 1) :
                      id(k) \notin used}
    IN  IF free = {} THEN 0 ELSE id(Min(free))

\* MQTTAsync_persistCommand, MQTTAsync_unpersistCommand: under the sequence number.
persistCommand(h, cmd) == pputWhole(h, Record("c", cmd.seqno, cmd.msg, cmd.token))
unpersistCommand(h, cmd) == premove(h, "c", cmd.seqno)

\* MQTTAsync_addCommand for PUBLISH: stored, and the oldest deleted when the
\* buffer is full.  It is freed first; the number of the record that is removed
\* is read after that, and may be any.
addCommand(h, m, token, freed) ==
    LET n   == Bump(h.c.command_seqno)
        cmd == [msg |-> m, token |-> token, seqno |-> n]
        q   == Append(h.c.commands, cmd)
        s   == persistCommand(WithClient(h, [h.c EXCEPT !.commands = q, !.command_seqno = n]), cmd)
    IN  IF Len(h.c.commands) < MaxBuffered THEN s
        ELSE [unpersistCommand(WithClient(s, [s.c EXCEPT !.commands = Tail(q)]),
                               [Head(q) EXCEPT !.seqno = freed])
                EXCEPT !.dropped = {Head(q).msg}]

\* The number in the freed command: what it was, or what someone else has
\* stored there by then.
Freed(c) == IF Len(c.commands) < MaxBuffered THEN {0} ELSE 0 .. SEQNO_LIMIT - 1

\* MQTTAsync_send: without deleteOldestMessages a full buffer refuses the
\* message, after its id has been taken.
send ==
    LET m == app.next
        token == IF qosOf(m) = 0 THEN 0 ELSE assignMsgId(client)
        c == [client EXCEPT !.msgID = IF token = 0 THEN @ ELSE token]
    IN  /\ client.up
        /\ m \in Out
        /\ qosOf(m) > 0 => token # 0
        /\ IF ~scene.deleteOldest /\ Len(client.commands) >= MaxBuffered
           THEN client' = c /\ UNCHANGED <<world, app>>
           ELSE \E freed \in Freed(client) :
                  LET h == addCommand(Handler(c, world), m, token, freed)
                      kept == {x.msg : x \in ToSet(h.c.commands)}
                  IN  /\ client' = h.c
                      /\ world' = WorldOf(h)
                      /\ app' = [app EXCEPT !.next = m + 1,
                                            !.live = @ \cup {<<m, token>>},
                                            !.dropped = @ \cup h.dropped,
                                            !.unrecorded = @ \cup (kept \ {r.msg : r \in WorldOf(h).store})]
        /\ UNCHANGED <<scene, down, broker, faults>>

\* MQTTAsync_writeComplete: only a QoS 0 message is confirmed by it.
writeComplete(h) ==
    LET m == h.c.pending_write
        c == [h.c EXCEPT !.pending_write = 0]
    IN  IF m # 0 /\ m \in {r.msg : r \in ToSet(c.responses)} /\ qosOf(m) = 0
        THEN [WithClient(h, [c EXCEPT !.responses = SelectSeq(@, LAMBDA r : r.msg # m)])
                EXCEPT !.told = @ \cup {m}]
        ELSE WithClient(h, c)

\* MQTTProtocol_createMessage: the message in flight and what it waits for.
createMessage(id, m) ==
    [msgid |-> id, msg |-> m, next |-> IF qosOf(m) = 1 THEN "PUBACK" ELSE "PUBREC"]

\* Variant of startPublish: the message is in flight only once it is written.
startPublishWritten(h, cmd, wr) ==
    LET s == MQTTPacket_sends(h, Publish(cmd.token, cmd.msg), wr)
    IN  IF qosOf(cmd.msg) = 0 \/ s.rc # "complete" THEN s
        ELSE WithClient(s, [s.c EXCEPT !.outboundMsgs = Append(@, createMessage(cmd.token, cmd.msg))])

\* MQTTProtocol_startPublish
startPublish(h, cmd, wr) ==
    LET o == createMessage(cmd.token, cmd.msg)
        g == IF qosOf(cmd.msg) = 0 THEN h
             ELSE WithClient(h, [h.c EXCEPT !.outboundMsgs = Append(@, o)])
    IN  MQTTPacket_sends(g, Publish(cmd.token, cmd.msg), wr)

\* MQTTAsync_processCommand for PUBLISH: the record of the command is removed
\* before the message in flight is stored.
publishCommand(c, w, wr) ==
    LET cmd == Head(c.commands)
        h1 == unpersistCommand(Handler([c EXCEPT !.commands = Tail(@)], w), cmd)
        h2 == startPublish(h1, cmd, wr)
        response == [token |-> cmd.token, msg |-> cmd.msg]
    IN  CASE h2.rc = "error" -> [closeSession(h2) EXCEPT !.failed = @ \cup {cmd.msg}]
          [] h2.rc = "complete" /\ qosOf(cmd.msg) = 0 -> [h2 EXCEPT !.told = {cmd.msg}]
          [] OTHER ->
                WithClient(h2, [h2.c EXCEPT
                    !.responses = Append(@, response),
                    !.pending_write = IF qosOf(cmd.msg) = 0 THEN cmd.msg ELSE @])

processCommand ==
    \E wr \in {"complete", "interrupted", "error"} :
        LET h == publishCommand(client, world, wr)
        IN  /\ client.connected /\ client.pending = <<>> /\ client.commands # <<>>
            /\ Len(client.outboundMsgs) < MAX_MSG_ID - 1
            /\ qosOf(Head(client.commands).msg) > 0 =>
                   Len(client.outboundMsgs) < MaxInflight
            /\ CanWrite(wr)
            /\ \/ Complete(h) /\ faults' = Spent(wr)
               \/ wr # "interrupted" /\ Die(h, Spent(wr))
            /\ down' = IF client'.connected THEN down ELSE <<>>
            /\ UNCHANGED <<scene, broker>>

\* Socket_continueWrites completes a pending write.
continueWrite ==
    LET h == writeComplete(Handler([client EXCEPT !.pending = <<>>],
                                   [world EXCEPT !.up = Append(@, Head(client.pending))]))
    IN  /\ client.pending # <<>>
        /\ Complete(h)
        /\ UNCHANGED <<scene, down, broker, faults>>

-----------------------------------------------------------------------------
(* Receiving. *)

\* MQTTPersistence_persistQueueEntry, MQTTPersistence_unpersistQueueEntry
persistQueueEntry(h, qe) == pputWhole(h, Record("q", qe.seqno, qe.msg, qe.seqno))
unpersistQueueEntry(h, qe) == premove(h, "q", qe.seqno)

\* Protocol_processPublication: handed to the application, or queued behind the
\* messages it has not taken.
processPublication(h, m, taken) ==
    IF h.c.messageQueue = <<>> /\ taken
    THEN Reach(h, [WorldOf(h) EXCEPT !.got = Append(@, m)])
    ELSE LET qe == [msg |-> m, seqno |-> Bump(h.c.qentry_seqno)]
             c  == [h.c EXCEPT !.messageQueue = Append(@, qe), !.qentry_seqno = qe.seqno]
         IN  persistQueueEntry(WithClient(h, c), qe)

\* Replaces the message with the same id, or appends.
storeInbound(q, x) ==
    IF x.msgid \in Ids(q) THEN [i \in DOMAIN q |-> IF q[i].msgid = x.msgid THEN x ELSE q[i]]
    ELSE Append(q, x)

\* Variant: a version 5 message is handed over each time it is received.
handsOverAgain(c, id) == scene.v5

\* Version 5 hands a QoS 2 message over when it is first received.
handsOver(c, id) == scene.v5 /\ id \notin Ids(c.inboundMsgs)

\* MQTTPacket_Factory stores a PUBLISH of QoS 2 as soon as it has been read.
factory(h, p) == IF p.type = "PUBLISH" /\ qosOf(p.msg) = 2 THEN putPacket(h, p) ELSE h

\* MQTTProtocol_handlePublishes: version 5 hands a QoS 2 message over at once.
handlePublishes(h, p, wr, taken) ==
    LET m == p.msg
        x == [msgid |-> p.id, msg |-> m]
    IN  CASE qosOf(m) = 0 -> processPublication(h, m, taken)
          [] h.c.pending # <<>> -> [h EXCEPT !.rc = "error"]
          [] qosOf(m) = 1 ->
                processPublication(MQTTPacket_send(h, Ack("PUBACK", p.id), wr), m, taken)
          [] OTHER ->
                LET s == MQTTPacket_send(
                             WithClient(h, [h.c EXCEPT !.inboundMsgs = storeInbound(@, x)]),
                             Ack("PUBREC", p.id), wr)
                IN  IF handsOver(h.c, p.id) THEN processPublication(s, m, taken) ELSE s

\* MQTTPersistence_remove for a message sent: the PUBLISH, then the PUBREL.
removeSent(h, id) == premove(premove(h, "s", id), "sc", id)

Without(q, id) == SelectSeq(q, LAMBDA x : x.msgid # id)
Awaits(c, id, type) == \E o \in ToSet(c.outboundMsgs) : o.msgid = id /\ o.next = type

\* The end of MQTTAsync_cycle for PUBACK, PUBCOMP and a refusing PUBREC: the
\* first response with the id gets its callback, whatever the handler found.
confirm(h, p) ==
    LET i == SelectInSeq(h.c.responses, LAMBDA r : r.token = p.id)
        m == h.c.responses[i].msg
        g == WithClient(h, [h.c EXCEPT !.responses = RemoveAt(@, i)])
    IN  CASE i = 0 -> h
          [] IsRefusal(p) -> [g EXCEPT !.failed = @ \cup {m}]
          [] OTHER -> [g EXCEPT !.told = @ \cup {m}]

\* The message with the id of p leaves the messages in flight.
finish(h, p) ==
    LET gone == {o \in ToSet(h.c.outboundMsgs) : o.msgid = p.id}
    IN  [removeSent(WithClient(h, [h.c EXCEPT !.outboundMsgs = Without(@, p.id)]), p.id)
            EXCEPT !.dropped = IF IsRefusal(p) THEN {o.msg : o \in gone} ELSE @]

handlePubacks(h, p)  == IF Awaits(h.c, p.id, "PUBACK") THEN finish(h, p) ELSE h
handlePubcomps(h, p) == IF Awaits(h.c, p.id, "PUBCOMP") THEN finish(h, p) ELSE h

\* MQTTProtocol_handlePubrecs
handlePubrecs(h, p, wr) ==
    LET s == MQTTPacket_send(h, Ack("PUBREL", p.id), wr)
        rel(o) == IF o.msgid = p.id THEN [o EXCEPT !.next = "PUBCOMP"] ELSE o
    IN  CASE ~Awaits(h.c, p.id, "PUBREC") -> h
          [] IsRefusal(p) -> finish(h, p)
          [] OTHER -> WithClient(s, [s.c EXCEPT !.outboundMsgs = [i \in DOMAIN @ |-> rel(@[i])]])

\* MQTTProtocol_handlePubrels: version 3 hands the message over here; a PUBREL
\* for an unknown id is answered only when it has the dup flag.
handlePubrels(h, p, wr, taken) ==
    LET known == p.id \in Ids(h.c.inboundMsgs)
        m == (CHOOSE x \in ToSet(h.c.inboundMsgs) : x.msgid = p.id).msg
        s == MQTTPacket_send(h, Ack("PUBCOMP", p.id), wr)
        d == premove(IF scene.v5 THEN s ELSE processPublication(s, m, taken), "r", p.id)
    IN  CASE ~known /\ ~p.dup -> h
          [] h.c.pending # <<>> -> [h EXCEPT !.rc = "error"]
          [] ~known -> s
          [] OTHER -> WithClient(d, [d.c EXCEPT !.inboundMsgs = Without(@, p.id)])

\* MQTTAsync_cycle reads a packet and handles it.
handled(h, p, wr, taken) ==
    CASE p.type = "PUBLISH" -> handlePublishes(factory(h, p), p, wr, taken)
      [] p.type = "PUBREL"  -> handlePubrels(h, p, wr, taken)
      [] p.type = "PUBREC"  -> IF IsRefusal(p) THEN confirm(handlePubrecs(h, p, wr), p)
                               ELSE handlePubrecs(h, p, wr)
      [] p.type = "PUBACK"  -> confirm(handlePubacks(h, p), p)
      [] OTHER              -> confirm(handlePubcomps(h, p), p)

cycle ==
    \E wr \in {"complete", "interrupted", "error"}, taken \in BOOLEAN :
        LET g == handled(Handler(client, world), Head(down), wr, taken)
            h == closeOnError(g)
            spent == Spent(wr)
        IN  /\ client.connected /\ down # <<>>
            /\ CanWrite(wr)
            /\ wr # "complete" => g.rc = wr /\ client.pending = <<>>
            /\ ~taken => /\ faults.refusals < MaxRefusals
                         /\ g.c.messageQueue # client.messageQueue
            /\ \/ /\ Complete(h)
                  /\ faults' = [spent EXCEPT !.refusals = IF taken THEN @ ELSE @ + 1]
               \/ wr # "interrupted" /\ taken /\ Die(h, spent)
            /\ down' = IF client'.connected THEN Tail(down) ELSE <<>>
            /\ UNCHANGED <<scene, broker>>

\* MQTTAsync_receiveThread offers the first queued message again.
deliverQueued ==
    LET qe == Head(client.messageQueue)
        h == unpersistQueueEntry(
                 Reach(Handler([client EXCEPT !.messageQueue = Tail(@)], world),
                       [world EXCEPT !.got = Append(@, qe.msg)]), qe)
    IN  /\ client.connected /\ client.messageQueue # <<>>
        /\ \/ Complete(h) /\ UNCHANGED faults
           \/ Die(h, faults)
        /\ down' = IF client'.connected THEN down ELSE <<>>
        /\ UNCHANGED <<scene, broker>>

-----------------------------------------------------------------------------
(* Connecting and restarting. *)

\* MQTTProtocol_retries for one message: a PUBREL must be written at once.
resend(h, o, wr) ==
    LET rel == MQTTPacket_send(h, Ack("PUBREL", o.msgid), wr)
    IN  IF o.next # "PUBCOMP"
        THEN MQTTPacket_sends(h, Packet("PUBLISH", o.msgid, o.msg, TRUE), wr)
        ELSE [rel EXCEPT !.rc = IF @ = "complete" THEN @ ELSE "error"]

\* Variant of retries: the first message only.
retriesOne(h, at, wr) ==
    IF h.c.outboundMsgs = <<>> THEN h
    ELSE resend(h, Head(h.c.outboundMsgs),
                IF Head(h.c.outboundMsgs).msgid = at THEN wr ELSE "complete")

\* MQTTProtocol_retries: in order, until a write does not complete.  The write
\* for message id at ends with wr.
retries(h, at, wr) ==
    FoldLeft(LAMBDA g, o : IF g.rc # "complete" THEN g
                           ELSE resend(g, o, IF o.msgid = at THEN wr ELSE "complete"),
             h, h.c.outboundMsgs)

\* MQTTAsync_retry with a retryInterval: what was sent long ago is sent again.
retry ==
    LET h == retries(Handler(client, world), 0, "complete")
    IN  /\ scene.retryInterval /\ faults.retries < MaxRetries
        /\ client.connected /\ client.pending = <<>> /\ client.outboundMsgs # <<>>
        /\ \/ Complete(h) /\ faults' = [faults EXCEPT !.retries = @ + 1]
           \/ Die(h, faults)
        /\ down' = IF client'.connected THEN down ELSE <<>>
        /\ UNCHANGED <<scene, broker>>

\* What the broker sends again to a session it still has.
brokerResends(q) ==
    [i \in DOMAIN q |-> IF q[i].state = "publish"
                        THEN Packet("PUBLISH", q[i].msgid, q[i].msg, TRUE)
                        ELSE Packet("PUBREL", q[i].msgid, 0, scene.relDup)]

\* MQTTAsync_completeConnection: without a session at the broker there are no
\* messages in flight either.
completeConnection ==
    \E wr \in {"complete", "interrupted", "error"}, at \in Ids(client.outboundMsgs) \cup {0} :
        LET present == broker.session /\ ~scene.cleansession
            h0 == Handler([client EXCEPT !.connected = TRUE], [world EXCEPT !.up = <<>>])
            h1 == retries(IF present THEN h0 ELSE cleanSession(h0), at, wr)
            h2 == closeOnError(h1)
            q  == IF present THEN broker.outq ELSE <<>>
        IN  /\ client.up /\ ~client.connected
            /\ CanWrite(wr) /\ (wr = "complete") = (at = 0)
            /\ wr # "complete" => h1.rc # "complete"
            /\ \/ Complete(h2) /\ faults' = Spent(wr)
               \/ wr # "interrupted" /\ Die(h2, Spent(wr))
            /\ broker' = [broker EXCEPT !.session = TRUE, !.outq = q,
                                        !.rel = IF present THEN @ ELSE {}]
            /\ down' = IF client'.connected THEN brokerResends(q) ELSE <<>>
            /\ UNCHANGED scene

\* Variant of wrapMsgID: the list stays in the order of the ids.
wrapMsgIDNever(q) == q

\* MQTTPersistence_wrapMsgID: the list starts after the largest gap between ids.
wrapMsgID(q) ==
    LET n == Len(q)
        gap(i) == IF i = 1 THEN (MAX_MSG_ID - q[n].msgid) + q[1].msgid
                  ELSE q[i].msgid - q[i - 1].msgid
        wrapel == Min({i \in 1 .. n : \A j \in 1 .. n : gap(j) <= gap(i)})
    IN  IF q = <<>> THEN q ELSE SubSeq(q, wrapel, n) \o SubSeq(q, 1, wrapel - 1)

\* MQTTPersistence_restorePacket reads a file whose length is the one in its header.
restorePacket(r) == ~r.torn

\* For a PUBLISH sent, a PUBREL beside it means that the PUBREC has come.
restoreSent(r, seen) ==
    IF HasKey(seen, "sc", r.n) THEN [createMessage(r.n, r.msg) EXCEPT !.next = "PUBCOMP"]
    ELSE createMessage(r.n, r.msg)

\* MQTTPersistence_restorePackets: torn files are removed; those in early are
\* met before the files that go with them.
restorePackets(h, early) ==
    LET store == WorldOf(h).store
        files(tag) == {r \in store : r.tag = tag /\ restorePacket(r)}
        seen == store \ early
        orphans == {r \in files("sc") : ~HasKey(seen, "s", r.n)}
        sent == InOrder(files("s"))
        received == InOrder(files("r"))
    IN  Reach(WithClient(h, [h.c EXCEPT
            !.outboundMsgs = wrapMsgID([i \in DOMAIN sent |-> restoreSent(sent[i], seen)]),
            !.inboundMsgs = [i \in DOMAIN received |->
                [msgid |-> received[i].n, msg |-> received[i].msg]]]),
            [WorldOf(h) EXCEPT !.store = {r \in @ : restorePacket(r)} \ orphans])

\* MQTTAsync_restoreCommand, MQTTPersistence_restoreQueueEntry
restoreCommand(r)    == [msg |-> r.msg, token |-> r.token, seqno |-> r.n]
restoreQueueEntry(r) == [msg |-> r.msg, seqno |-> r.n]

LastNumber(recs) == Max({0} \cup {r.n : r \in recs})

\* The orders MQTTAsync_insertInOrder may put the commands in.  It looks for the
\* place in an array with an entry for each key so far, and those of the keys
\* that are no commands were never written: any order, if there is one that
\* qsort may put before a command.
CommandOrders(store) ==
    LET recs  == Tagged(store, {"c"})
        holes == \E r \in recs, o \in store \ recs : o.n <= r.n
    IN  IF holes THEN SetToSeqs(recs) ELSE {InOrder(recs)}

restoreCommands(h, recs) ==
    WithClient(h, [h.c EXCEPT
        !.commands = [i \in DOMAIN recs |-> restoreCommand(recs[i])],
        !.command_seqno = LastNumber(ToSet(recs))])

restoreMessageQueue(h) ==
    LET recs == Tagged(WorldOf(h).store, {"q"})
    IN  WithClient(h, [h.c EXCEPT
            !.messageQueue = [i \in DOMAIN InOrder(recs) |-> restoreQueueEntry(InOrder(recs)[i])],
            !.qentry_seqno = LastNumber(recs)])

\* MQTTAsync_createWithOptions in a restarted program.
create ==
    \E early \in SUBSET {r \in world.store : r.torn} :
        LET h == restorePackets(Handler([Down EXCEPT !.up = TRUE], world), early)
        IN  /\ ~client.up
            /\ \E recs \in CommandOrders(WorldOf(h).store) :
                 Complete(restoreMessageQueue(restoreCommands(h, recs)))
            /\ UNCHANGED <<scene, down, broker, faults>>

\* The connection breaks; the broker may lose the session with it.
lose ==
    LET h     == closeSession(Handler(client, world))
        spent == [faults EXCEPT !.losses = @ + 1]
    IN  /\ client.connected /\ faults.losses < MaxLosses
        /\ \/ Complete(h) /\ faults' = spent
           \/ Die(h, spent)
        /\ \E kept \in {TRUE, scene.keeps} : broker' = [broker EXCEPT !.session = kept]
        /\ down' = <<>>
        /\ UNCHANGED scene

\* The process dies between two handlers.
crash ==
    /\ client.up
    /\ Die(Handler(client, world), faults)
    /\ down' = <<>>
    /\ UNCHANGED <<scene, broker>>

-----------------------------------------------------------------------------
(* The broker. *)

\* The reply to a packet, if there is one.
brokerReply(p) ==
    CASE p.type = "PUBLISH" /\ p.msg \in scene.refused /\ qosOf(p.msg) > 0 ->
            <<Refusal(IF qosOf(p.msg) = 1 THEN "PUBACK" ELSE "PUBREC", p.id)>>
      [] p.type = "PUBLISH" /\ qosOf(p.msg) = 1 -> <<Ack("PUBACK", p.id)>>
      [] p.type = "PUBLISH" /\ qosOf(p.msg) = 2 -> <<Ack("PUBREC", p.id)>>
      [] p.type = "PUBREC" -> <<Ack("PUBREL", p.id)>>
      [] p.type = "PUBREL" -> <<Ack("PUBCOMP", p.id)>>
      [] OTHER -> <<>>

Released(q, id) ==
    [i \in DOMAIN q |-> IF q[i].msgid = id THEN [q[i] EXCEPT !.state = "release"] ELSE q[i]]

brokerAfter(b, p) ==
    CASE p.type = "PUBLISH" /\ p.msg \in scene.refused -> b
      [] p.type = "PUBLISH" /\ qosOf(p.msg) = 2 /\ p.id \in b.rel -> b
      [] p.type = "PUBLISH" -> [b EXCEPT !.pubs[p.msg] = @ + 1,
                                         !.rel = IF qosOf(p.msg) = 2 THEN @ \cup {p.id} ELSE @]
      [] p.type = "PUBREL"  -> [b EXCEPT !.rel = @ \ {p.id}]
      [] p.type = "PUBREC"  -> [b EXCEPT !.outq = Released(@, p.id)]
      [] OTHER -> [b EXCEPT !.outq = Without(@, p.id),
                            !.done = @ \cup {o.msg : o \in {x \in ToSet(b.outq) : x.msgid = p.id}}]

brokerReceive ==
    LET p == Head(world.up)
    IN  /\ world.up # <<>>
        /\ world' = [world EXCEPT !.up = Tail(@)]
        /\ broker' = brokerAfter(broker, p)
        /\ down' = IF client.connected THEN down \o brokerReply(p) ELSE <<>>
        /\ UNCHANGED <<scene, client, app, faults>>

\* The broker publishes its next message.
brokerSend ==
    LET m == broker.next
        id == Min((1 .. Len(scene.in) + 1) \ Ids(broker.outq))
    IN  /\ client.connected /\ m \in In
        /\ down' = Append(down, Publish(id, m))
        /\ broker' = [broker EXCEPT !.next = m - 1,
                          !.outq = IF qosOf(m) = 0 THEN @
                                   ELSE Append(@, [msgid |-> id, msg |-> m, state |-> "publish"])]
        /\ UNCHANGED <<scene, client, world, app, faults>>

-----------------------------------------------------------------------------

Init ==
    /\ scene \in Scenarios
    /\ client = [Down EXCEPT !.up = TRUE, !.msgID = scene.msgID]
    /\ world = [store |-> {}, up |-> <<>>, got |-> <<>>]
    /\ down = <<>>
    /\ broker = [session |-> scene.keeps, rel |-> {}, outq |-> <<>>, done |-> {}, next |-> -1,
                 pubs |-> [m \in 1 .. Len(scene.out) |-> 0]]
    /\ app = [next |-> 1, live |-> {}, told |-> {}, failed |-> {}, dropped |-> {}, unrecorded |-> {}]
    /\ faults = [crashes |-> 0, losses |-> 0, interrupts |-> 0, refusals |-> 0,
                 retries |-> 0]

Next ==
    \/ send \/ processCommand \/ continueWrite
    \/ cycle \/ deliverQueued
    \/ completeConnection \/ retry \/ create \/ lose \/ crash
    \/ brokerReceive \/ brokerSend

Spec == Init /\ [][Next]_vars

-----------------------------------------------------------------------------
(* Properties. *)

\* The refinement of DeliverySpec: a published message has arrived, an incoming
\* one when it is with the application or on its queue.
AllMessages ==
    UNION {1 .. Len(s.out) \cup {-i : i \in 1 .. Len(s.in)} : s \in Scenarios}

Times(m) ==
    IF m \in Out THEN broker.pubs[m]
    ELSE Len(SelectSeq(world.got, LAMBDA g : g = m))
             + Cardinality({r \in world.store : r.tag = "q" /\ r.msg = m})

Abstract == INSTANCE DeliverySpec WITH
    Messages <- AllMessages,
    qos      <- [m \in AllMessages |-> IF m \in Out \cup In THEN qosOf(m) ELSE 0],
    accepted <- {m \in Out : m < app.next} \cup {m \in In : m > broker.next},
    arrived  <- [m \in AllMessages |-> IF m \in Out \cup In THEN Times(m) ELSE 0],
    told     <- app.told \cup broker.done,
    crashes  <- faults.crashes

\* Whatever is lost, repeated or restarted, the handshakes deliver a QoS 2
\* message once and confirm no QoS 1 or 2 message that has not arrived, save for
\* one message a crash.
ImplementsDelivery == Abstract!Spec

\* The messages with an entry in memory or on disk.
Held ==
    {r.msg : r \in {x \in world.store : ~x.torn /\ x.tag \in {"c", "s"}}}
    \cup {x.msg : x \in ToSet(client.commands) \cup ToSet(client.outboundMsgs)}

\* A message accepted by MQTTAsync_send is published, held, or given up by an
\* explicit decision; a crash loses at most one, in the window between removing
\* the command's record and storing the PUBLISH, or while it is stored again.
\* Left out are messages whose record MQTTAsync_addCommand removed by mistake,
\* with a number it read in a command it had freed.
LossIsBounded ==
    Cardinality({m \in Out : m < app.next /\ qosOf(m) > 0 /\ broker.pubs[m] = 0
                             /\ m \notin Held \cup app.dropped \cup app.unrecorded})
        <= faults.crashes

\* MQTTAsync_isComplete
isComplete(token) == token \notin Tokens(client.commands) \cup Ids(client.outboundMsgs)

\* A token MQTTAsync_isComplete reports complete belongs to a message that was
\* published, or given up.  A crash may break this for one message: the id of a
\* message whose file was torn is given to a new one while the broker still
\* holds the old one for release, and takes the new one for it.
CompleteIsTrue ==
    Cardinality({e \in app.live :
        /\ qosOf(e[1]) > 0 /\ isComplete(e[2])
        /\ e[1] \notin app.dropped /\ broker.pubs[e[1]] = 0}) <= faults.crashes

\* The ids of the stored messages, in the order they were sent, go at most half
\* way round the numbers.
NearIds(store) ==
    LET s == SetToSortSeq({r \in store : r.tag = "s" /\ ~r.torn}, LAMBDA a, b : a.msg < b.msg)
        ahead(i) == (s[i].n + MAX_MSG_ID - s[1].n) % MAX_MSG_ID
    IN  /\ \A i \in 2 .. Len(s) : ahead(i - 1) < ahead(i)
        /\ s # <<>> => 2 * ahead(Len(s)) < MAX_MSG_ID

\* A restarted client resends the messages in flight in the order the
\* application sent them, wherever the numbering wrapped.
RestoredInOrder ==
    [][~client.up /\ client'.up /\ NearIds(world.store) =>
          \A i, j \in DOMAIN client'.outboundMsgs :
              i < j => client'.outboundMsgs[i].msg < client'.outboundMsgs[j].msg]_vars

\* The connection is up, everything written has been read, and there is nothing
\* the send or the receive thread could do.
Quiet ==
    /\ client.connected /\ client.commands = <<>> /\ client.pending = <<>>
    /\ world.up = <<>> /\ down = <<>>

\* A handshake under way with nothing under way to finish it is over: no PUBLISH
\* or PUBREL in flight is left for MQTTProtocol_retries to send at some later
\* connection, and the broker is owed no acknowledgement.
NothingForgotten == Quiet => client.outboundMsgs = <<>> /\ broker.outq = <<>>

\* The same, for a broker that marks a repeated PUBREL and for a socket that
\* takes every packet at once.
ForgottenOnlyIfInterrupted ==
    scene.relDup /\ faults.interrupts = 0 => NothingForgotten
=============================================================================
