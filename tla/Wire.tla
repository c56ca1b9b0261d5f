-------------------------------- MODULE Wire --------------------------------
(***************************************************************************)
(* MQTT packets over the sockets of one process: MQTTPacket_Factory reads  *)
(* them from a stream of bytes that TCP cuts anywhere, MQTTPacket_send and *)
(* MQTTPacket_sends write them to sockets that take only part of them, on  *)
(* plain connections and on WebSocket connections.                         *)
(*                                                                         *)
(*   lib     the state of SocketBuffer and WebSocket                       *)
(*   state   per connection: "closed", "upgrading", "waiting" (for the     *)
(*           CONNACK) or "connected"                                       *)
(*   nth     per connection: how often it was opened                       *)
(*   coming  per connection: the bytes the broker still has to send        *)
(*   got     per connection: the packets read since it was opened          *)
(*   msgs    per connection: outboundMsgs, with the topic and payload      *)
(*           buffers as they are in memory and the mask of the last write  *)
(*   asked   per connection: the packets handed to the socket since it was *)
(*           opened, as the broker is to read them                         *)
(*   due     per connection: the packets the application still sends       *)
(***************************************************************************)
EXTENDS WebSocket, Encoding, FiniteSets

CONSTANTS Conns,         \* the sockets
          Scenarios      \* what the connections are and what is sent

VARIABLES scenario, lib, state, nth, coming, got, msgs, asked, due

vars == <<scenario, lib, state, nth, coming, got, msgs, asked, due>>

CONNACK == 2
PUBLISH == 3
PINGREQ == 12

-----------------------------------------------------------------------------
(* The fixed header. *)

\* MQTTPacket_decode, with n bytes of the length read so far.
RECURSIVE decodeFrom(_, _, _, _, _, _)
decodeFrom(s, c, n, value, multiplier, o) ==
  LET digit(g, v) ==
        IF g.rc # COMPLETE THEN [s |-> g.s, rc |-> g.rc, value |-> value]
        ELSE IF g.c >= More THEN decodeFrom(g.s, c, n + 1, v, multiplier * LengthBase, o)
        ELSE [s |-> g.s, rc |-> COMPLETE, value |-> v]
      byte(g) == digit(g, value + (g.c % More) * multiplier)
  IN  IF n = MaxLengthBytes THEN [s |-> s, rc |-> SOCKET_ERROR, value |-> value]
      ELSE byte(getch(s, c, o))

decode(s, c, o) == decodeFrom(s, c, 0, 0, 1, o)

-----------------------------------------------------------------------------
(* MQTTPacket_Factory: one packet, or none with an error code.  What the    *)
(* packet says is left to the functions of new_packets.                    *)

Known(type) == type \in {2, 3, 4, 5, 6, 7, 9, 11, 12, 13}

NoPacket == <<>>

Factory(s, c, o) ==
  LET exit(t, rc, packet) ==
        [s |-> IF rc = INTERRUPTED THEN framePosSeekTo(t, framePos(s)) ELSE t,
         rc |-> rc, packet |-> packet]
      data(head, length, d) ==
        IF length > 0 /\ d.null THEN exit(d.s, SOCKET_ERROR, NoPacket)
        ELSE IF Len(d.data) < length THEN exit(d.s, INTERRUPTED, NoPacket)
        ELSE exit(d.s, COMPLETE, IF Known(head \div 16) THEN <<head>> \o d.data ELSE NoPacket)
      remainingLength(head, l) ==
        IF l.rc # COMPLETE THEN exit(l.s, l.rc, NoPacket)
        ELSE data(head, l.value, getdata(l.s, c, l.value, o))
      header(h) ==
        IF h.rc # COMPLETE THEN exit(h.s, h.rc, NoPacket)
        ELSE remainingLength(h.c, decode(h.s, c, o))
  IN  header(getch(s, c, o))

-----------------------------------------------------------------------------
(* Sending. *)

\* strlen: a masked topic may hold a zero.
CString(b) == LET z == {i \in DOMAIN b : b[i] = 0}
              IN  IF z = {} THEN b ELSE SubSeq(b, 1, (CHOOSE i \in z : \A j \in z : i <= j) - 1)

\* The packet as the broker reads it.
Bytes(head, body) == <<head>> \o encode(Len(body)) \o body

\* MQTTPacket_send: one buffer besides the fixed header.
send(s, c, head, buffer, o) ==
  putdatas(s, c, <<head>> \o encode(Len(buffer)), <<buffer>>, NoMask, o)

PublishHead(m, dup) == <<PUBLISH * 16 + (IF dup THEN 8 ELSE 0) + 2 * m.qos>>

\* topic is what strlen finds of it.
PublishBuffers(m, topic) ==
  IF m.qos > 0 THEN <<writeInt(Len(topic)), topic, writeInt(m.id), m.payload>>
  ELSE <<writeInt(Len(topic)), topic, m.payload>>

\* Mutant: the mask that the write handed back is not stored.
send_publishForgetsMask(s, c, m, dup, o) ==
  LET sent(w) ==
        [s |-> w.s, rc |-> w.rc,
         m |-> [m EXCEPT !.topic = w.bufs[2] \o From(@, Len(w.bufs[2]) + 1),
                         !.payload = Last(w.bufs)]]
      sends(bufs) == sent(putdatas(s, c, PublishHead(m, dup) \o encode(Len(FlattenSeq(bufs))),
                                   bufs, m.mask, o))
  IN  sends(PublishBuffers(m, CString(m.topic)))

\* MQTTPacket_send_publish with MQTTPacket_sends.
send_publish(s, c, m, dup, o) ==
  LET sent(w) ==
        [s |-> w.s, rc |-> w.rc,
         m |-> [m EXCEPT !.topic = w.bufs[2] \o From(@, Len(w.bufs[2]) + 1),
                         !.payload = Last(w.bufs), !.mask = w.mask]]
      sends(bufs) == sent(putdatas(s, c, PublishHead(m, dup) \o encode(Len(FlattenSeq(bufs))),
                                   bufs, m.mask, o))
  IN  sends(PublishBuffers(m, CString(m.topic)))

\* What the application asked to be published.
Wanted(m, dup) ==
  Bytes(PUBLISH * 16 + (IF dup THEN 8 ELSE 0) + 2 * m.qos,
        writeInt(Len(m.want.topic)) \o m.want.topic
        \o (IF m.qos > 0 THEN writeInt(m.id) ELSE <<>>) \o m.want.payload)

\* MQTTProtocol_retries after the CONNACK: every message in turn, as long as no
\* output is pending.
RECURSIVE retries(_, _, _, _, _)
retries(s, c, list, i, o) ==
  LET sent(w) ==
        IF w.rc = SOCKET_ERROR
        THEN [s |-> w.s, list |-> [list EXCEPT ![i] = w.m], asked |-> <<>>, rc |-> SOCKET_ERROR]
        ELSE [retries(w.s, c, [list EXCEPT ![i] = w.m], i + 1, o) EXCEPT
                !.asked = <<Wanted(list[i], TRUE)>> \o @]
  IN  IF i > Len(list) \/ ~noPendingWrites(s, c)
      THEN [s |-> s, list |-> list, asked |-> <<>>, rc |-> COMPLETE]
      ELSE sent(send_publish(s, c, list[i], TRUE, o))

-----------------------------------------------------------------------------
(* The connections. *)

Conn(c) == scenario.conns[c]
Stream(c) == Conn(c).streams[nth[c]]

\* What the broker sends on a connection: packets on a plain one, the answer to
\* the handshake and frames on a WebSocket.
Packet(p) == Bytes(p.head, p.body)

FrameBytes(f) ==
  <<(IF f.final THEN 128 ELSE 0) + f.op>>
  \o (IF Len(f.data) < Len7 THEN <<Len(f.data)>>
      ELSE <<Len7, Len(f.data) \div 256, Len(f.data) % 256>>)
  \o f.data

StreamBytes(c, n) ==
  LET x == Conn(c).streams[n]
  IN  IF Conn(c).kind = "tcp" THEN FlattenSeq([i \in DOMAIN x.packets |-> Packet(x.packets[i])])
      ELSE x.answer \o FlattenSeq([i \in DOMAIN x.frames |-> FrameBytes(x.frames[i])])

\* The packets of the stream, as Factory returns them.
Sent(c) ==
  IF nth[c] = 0 THEN <<>>
  ELSE [i \in DOMAIN Stream(c).packets |->
          <<Stream(c).packets[i].head>> \o Stream(c).packets[i].body]

Silent == [in |-> <<>>, how |-> "closed", out |-> <<>>, space |-> 0]

Init ==
  /\ scenario \in Scenarios
  /\ lib = [net |-> [c \in Conns |-> Silent], def |-> newDefQ, queues |-> <<>>,
            writes |-> <<>>, ws |-> [c \in Conns |-> FALSE], frames |-> <<>>,
            fb |-> <<>>, fbi |-> 0, owner |-> <<0, 0>>, lost |-> FALSE,
            freed |-> {}, remasked |-> {}, cut |-> {}]
  /\ state = [c \in Conns |-> "closed"]
  /\ nth = [c \in Conns |-> 0]
  /\ coming = [c \in Conns |-> <<>>]
  /\ got = [c \in Conns |-> <<>>]
  /\ msgs = [c \in Conns |-> <<>>]
  /\ asked = [c \in Conns |-> <<>>]
  /\ due = [c \in Conns |-> Conn(c).due]

Space(s, c, k) == [s EXCEPT !.net[c].space = k]

\* The draws of one step on c: what rcs held, and the mask.
Draws(c) ==
  IF Conn(c).kind = "tcp" THEN {[u |-> 1, fresh |-> NoMask]}
  ELSE [u : scenario.uninit, fresh : scenario.masks]

\* MQTTProtocol_closeSession down to Socket_close; what WebSocket_close still
\* writes goes with the connection.  The static frames stay.
closed(s, c) == [Socket_close(s, c) EXCEPT !.ws[c] = FALSE]

\* The outcome of a step on c: the state of the library, the state of the
\* connection and what was handed to the socket.
become(s, c, st, more) ==
  /\ lib' = IF st = "closed" THEN closed(s, c) ELSE Space(s, c, 0)
  /\ state' = [state EXCEPT ![c] = st]
  /\ asked' = [asked EXCEPT ![c] = IF st = "closed" THEN <<>> ELSE @ \o more]

ConnectBody == <<7>>
ConnectPacket == Bytes(16, ConnectBody)
HttpRequest == <<500, 501>>

\* The connection is opened: the CONNECT packet goes out, or the request to
\* upgrade.  WebSocket_connect frees the request whether it was written or not.
connect(c) ==
  /\ state[c] = "closed"
  /\ nth[c] < Len(Conn(c).streams)
  /\ nth' = [nth EXCEPT ![c] = @ + 1]
  /\ coming' = [coming EXCEPT ![c] = StreamBytes(c, nth[c] + 1)]
  /\ got' = [got EXCEPT ![c] = <<>>]
  /\ \E k \in scenario.spaces, o \in Draws(c) :
       LET s == [lib EXCEPT !.net[c] = [Silent EXCEPT !.how = "open", !.space = k],
                            !.freed = @ \ {c}, !.cut = @ \ {c}]
           requested(r) ==
             IF r.rc # INTERRUPTED THEN r.s
             ELSE [r.s EXCEPT !.writes[c].iovecs = <<[i \in DOMAIN HttpRequest |-> Undefined]>>,
                              !.freed = @ \cup {c}]
       IN  IF Conn(c).kind = "tcp"
           THEN become(send(s, c, 16, ConnectBody, o).s, c, "waiting", <<ConnectPacket>>)
           ELSE become(requested(Socket_putdatas(s, c, <<HttpRequest>>)), c, "upgrading", <<>>)
  /\ UNCHANGED <<scenario, msgs, due>>

\* The bytes the broker may send now: no frame before the upgrade is answered.
Sendable(c) ==
  IF state[c] = "upgrading"
  THEN SubSeq(coming[c], 1, Len(Stream(c).answer) - (Len(StreamBytes(c, nth[c])) - Len(coming[c])))
  ELSE coming[c]

\* Bytes arrive, as many at a time as TCP likes (the answer to an upgrade in
\* one piece, where the scenario says so).
arrive(c) ==
  /\ state[c] # "closed"
  /\ lib.net[c].how = "open"
  /\ \E k \in 1..Len(Sendable(c)) :
       /\ state[c] = "upgrading" /\ scenario.whole => k = Len(Stream(c).answer)
       /\ lib' = [lib EXCEPT !.net[c].in = @ \o SubSeq(coming[c], 1, k)]
       /\ coming' = [coming EXCEPT ![c] = From(@, k + 1)]
  /\ UNCHANGED <<scenario, state, nth, got, msgs, asked, due>>

\* The broker closes the connection or the network resets it.
lose(c) ==
  /\ state[c] # "closed"
  /\ lib.net[c].how = "open"
  /\ nth[c] < Len(Conn(c).streams)
  /\ \E how \in {"eof", "reset"} :
       lib' = [lib EXCEPT !.net[c].how = how, !.net[c].in = IF how = "eof" THEN @ ELSE <<>>]
  /\ coming' = [coming EXCEPT ![c] = <<>>]
  /\ UNCHANGED <<scenario, state, nth, got, msgs, asked, due>>

\* Socket_getReadySocket answers with c: there is something to read and no
\* output is pending.
isReady(c) ==
  /\ state[c] # "closed"
  /\ lib.net[c].in # <<>> \/ lib.net[c].how # "open"
  /\ noPendingWrites(lib, c)

\* History: whose bytes the static buffers hold.
Own(s, c) ==
  IF ~s.ws[c] THEN s
  ELSE [s EXCEPT !.owner = <<c, nth[c]>>,
                 !.lost = @ \/ ((s.frames # <<>> \/ s.fb # <<>>) /\ s.owner # <<c, nth[c]>>)]

\* MQTTAsync_cycle on a connection whose WebSocket is being set up.
connecting(c) ==
  /\ isReady(c)
  /\ state[c] = "upgrading"
  /\ \E k \in scenario.spaces, o \in Draws(c) :
       LET s == [Space(lib, c, k) EXCEPT !.lost = @ \/ lib.fb # <<>> \/ lib.frames # <<>>,
                                         !.cut = IF lib.net[c].in = Stream(c).answer THEN @ ELSE @ \cup {c}]
           sent(w) == become(w.s, c, IF w.rc = SOCKET_ERROR THEN "closed" ELSE "waiting",
                             <<ConnectPacket>>)
           answered(r) ==
             CASE r.rc = SOCKET_ERROR -> become(r.s, c, "closed", <<>>)
               [] r.rc = INTERRUPTED -> become(r.s, c, "upgrading", <<>>)
               [] OTHER -> sent(send(r.s, c, 16, ConnectBody, o))
       IN  answered(upgrade(s, c))
  /\ UNCHANGED <<scenario, nth, coming, got, msgs, due>>

\* MQTTAsync_cycle on any other: a packet is read and handled.  A CONNACK sends
\* the messages in flight again.
cycle(c) ==
  /\ isReady(c)
  /\ state[c] \in {"waiting", "connected"}
  /\ \E k \in scenario.spaces, o \in Draws(c) :
       LET resent(t) ==
             /\ become(t.s, c, IF t.rc = SOCKET_ERROR THEN "closed" ELSE "connected", t.asked)
             /\ msgs' = [msgs EXCEPT ![c] = t.list]
           handled(r) ==
             /\ got' = IF r.packet = NoPacket THEN got ELSE [got EXCEPT ![c] = Append(@, r.packet)]
             /\ IF r.packet # NoPacket /\ r.packet[1] \div 16 = CONNACK
                THEN resent(retries(r.s, c, msgs[c], 1, o))
                ELSE /\ become(r.s, c, IF r.rc = SOCKET_ERROR THEN "closed" ELSE state[c], <<>>)
                     /\ UNCHANGED msgs
       IN  handled(Factory(Own(Space(lib, c, k), c), c, o))
  /\ UNCHANGED <<scenario, nth, coming, due>>

\* Socket_continueWrites: select says that the socket takes more.
continueWrites(c) ==
  /\ ~noPendingWrites(lib, c)
  /\ \E k \in scenario.spaces \ {0} :
       lib' = Space(Socket_continueWrite(Space(lib, c, k), c).s, c, 0)
  /\ UNCHANGED <<scenario, state, nth, coming, got, msgs, asked, due>>

\* The application publishes, or the client pings: never while output is
\* pending.  The asynchronous client leaves the mask of a new message
\* uninitialised.
NewMessage(c) ==
  LET d == Head(due[c])
  IN  [id |-> Len(msgs[c]) + 1, qos |-> d.qos, topic |-> d.topic, payload |-> d.payload,
       want |-> [topic |-> d.topic, payload |-> d.payload], mask |-> NoMask]

output(c) ==
  /\ state[c] = "connected"
  /\ due[c] # <<>>
  /\ noPendingWrites(lib, c)
  /\ due' = [due EXCEPT ![c] = Tail(@)]
  /\ \E k \in scenario.spaces, o \in Draws(c) :
       \/ /\ Head(due[c]).kind = "ping"
          /\ LET sent(w) == become(w.s, c, IF w.rc = SOCKET_ERROR THEN "closed" ELSE "connected",
                                   <<Bytes(PINGREQ * 16, <<>>)>>)
             IN  sent(send(Space(lib, c, k), c, PINGREQ * 16, <<>>, o))
          /\ UNCHANGED msgs
       \/ /\ Head(due[c]).kind = "publish"
          /\ \E mask \in scenario.newMasks :
               LET m == [NewMessage(c) EXCEPT !.mask = mask]
                   sent(w) ==
                     /\ become(w.s, c, IF w.rc = SOCKET_ERROR THEN "closed" ELSE "connected",
                               <<Wanted(m, FALSE)>>)
                     /\ msgs' = IF m.qos = 0 THEN msgs ELSE [msgs EXCEPT ![c] = Append(@, w.m)]
               IN  sent(send_publish(Space(lib, c, k), c, m, FALSE, o))
  /\ UNCHANGED <<scenario, nth, coming, got>>

Finished ==
  /\ \A c \in Conns : /\ nth[c] = Len(Conn(c).streams)
                      /\ coming[c] = <<>> \/ state[c] = "closed"
                      /\ ~isReady(c) /\ noPendingWrites(lib, c)
                      /\ due[c] = <<>> \/ state[c] # "connected"
  /\ UNCHANGED vars

Step ==
  \E c \in Conns : connect(c) \/ arrive(c) \/ connecting(c) \/ cycle(c)
                   \/ continueWrites(c) \/ output(c)

Next == Step \/ (\E c \in Conns : lose(c)) \/ Finished

\* Something other than a failure can happen.
CanStep ==
  \E c \in Conns :
    \/ state[c] = "closed" /\ nth[c] < Len(Conn(c).streams)
    \/ state[c] # "closed" /\ lib.net[c].how = "open" /\ Sendable(c) # <<>>
    \/ isReady(c)
    \/ ~noPendingWrites(lib, c)
    \/ state[c] = "connected" /\ due[c] # <<>>

\* The threads run and the network delivers: weak fairness of Step, with its
\* ENABLED spelt out.  The network need not fail.
Fairness == []<>~CanStep \/ []<><<Step>>_vars

Spec == Init /\ [][Next]_vars /\ Fairness

-----------------------------------------------------------------------------
(* What holds. *)

\* What MQTTPacket_Factory reads on a connection is what the broker sent on
\* it, packet by packet and in order, however the bytes were cut and whatever
\* the other connections of the process were reading - as long as the static
\* frame buffers of WebSocket.c have not lost or mixed anything and the answer
\* to the upgrade came in one piece.
WhatArrivesWasSent ==
  lib.lost \/ \A c \in Conns \ lib.cut : IsPrefix(got[c], Sent(c))

\* What the broker finds in the frames of a WebSocket: the data of the binary
\* frames that are complete, unmasked.
RECURSIVE Unframed(_)
Unframed(b) ==
  LET ext  == Len(b) >= 2 /\ b[2] - 128 = Len7
      h    == (IF ext THEN 4 ELSE 2) + 4
      len  == IF ext THEN b[3] * 256 + b[4] ELSE b[2] - 128
      data == Masked(SubSeq(b, h + 1, h + len), SubSeq(b, h - 3, h), 0)
  IN  IF Len(b) < h \/ Len(b) < h + len THEN <<>>
      ELSE (IF b[1] = 128 + OP_BINARY THEN <<data>> ELSE <<>>) \o Unframed(From(b, h + len + 1))

\* The packets the broker has read in full on c.
BrokerReads(c) ==
  LET out == lib.net[c].out
      whole == {n \in 0..Len(asked[c]) : IsPrefix(FlattenSeq(SubSeq(asked[c], 1, n)), out)}
      n == CHOOSE n \in whole : \A m \in whole : m <= n
  IN  IF Conn(c).kind = "tcp" THEN SubSeq(asked[c], 1, n)
      ELSE Unframed(From(out, Len(HttpRequest) + 1))

Sound(c) == c \notin lib.freed \cup lib.remasked \cup lib.cut

\* What the broker reads on a connection is what the application asked for, in
\* order and nothing else, however the kernel cut the writes; and once no
\* output is pending it has all of it.  Left out are connections on which a
\* buffer was freed under a pending write, those on which a message was framed
\* with a mask that was there before, and upgrades whose answer came in pieces.
WhatIsReadWasAsked ==
  \A c \in Conns : Sound(c) /\ lib.net[c].how = "open" /\ (Conn(c).kind = "tcp" \/ lib.ws[c]) =>
    /\ IsPrefix(BrokerReads(c), asked[c])
    /\ Conn(c).kind = "tcp" => IsPrefix(lib.net[c].out, FlattenSeq(asked[c]))
    /\ noPendingWrites(lib, c) => BrokerReads(c) = asked[c]

\* A message kept for retransmission is the one that was published, or can be
\* had back from the mask kept with it: an interrupted write leaves the buffers
\* masked.
KeptIntact ==
  \A c \in Conns : \A i \in DOMAIN msgs[c] :
    LET m == msgs[c][i]
        at == Len(<<0>> \o encode(6 + Len(m.topic) + Len(m.payload) - 2))
    IN  Sound(c) => /\ Masked(m.topic, m.mask, at + 2) = m.want.topic
                    /\ Masked(m.payload, m.mask, at + 4 + Len(m.topic)) = m.want.payload

\* Two packets in one frame: the second waits for the socket to be readable.
Shared(c) == Conn(c).kind = "ws" /\ \E n \in DOMAIN Conn(c).streams : Conn(c).streams[n].shared

Through(c) ==
  \/ lib.lost \/ Shared(c) \/ scenario.uninit # {1} \/ ~Sound(c)
  \/ got[c] = Sent(c) /\ noPendingWrites(lib, c) /\ due[c] = <<>>

\* Every packet the broker sends on a connection that is not lost is read in
\* the end, a write that was interrupted is finished and what the application
\* has to send is sent.  Left out are scenarios where rcs may be anything and
\* streams with two packets in one frame.
EverythingGetsThrough == \A c \in Conns : <>[]Through(c)

=============================================================================
