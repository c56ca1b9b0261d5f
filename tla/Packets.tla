------------------------------ MODULE Packets ------------------------------
(***************************************************************************)
(* The MQTT packets: how MQTTPacket.c and MQTTPacketOut.c put together the *)
(* ones the client sends and take apart the ones it receives, and the      *)
(* property lists of MQTT 5 in them (MQTTProperties.c).                    *)
(*                                                                         *)
(* A property is [id, n, data, value]: a number, data or a pair of strings *)
(* by its type.  A list is [array, max, length]: max is 0 as long as no    *)
(* array is allocated.  The broker's packets are well formed and there is  *)
(* memory for all of them.                                                 *)
(***************************************************************************)
EXTENDS Encoding, SequencesExt

CONSTANT Grow            \* 10: by how much the array of a list grows

CONNECT     == 1
CONNACK     == 2
PUBLISH     == 3
PUBACK      == 4
PUBREC      == 5
PUBREL      == 6
PUBCOMP     == 7
SUBSCRIBE   == 8
SUBACK      == 9
UNSUBSCRIBE == 10
UNSUBACK    == 11
PINGREQ     == 12
DISCONNECT  == 14

-----------------------------------------------------------------------------
(* Property lists. *)

\* MQTTProperty_getType: the table namesToTypes.
getType(id) ==
  CASE id \in {1, 23, 25, 36, 37, 40, 41, 42}   -> "byte"
    [] id \in {19, 33, 34, 35}                  -> "two"
    [] id \in {2, 17, 24, 39}                   -> "four"
    [] id = 11                                  -> "variable"
    [] id \in {9, 22}                           -> "binary"
    [] id \in {3, 8, 18, 21, 26, 28, 31}        -> "string"
    [] id = 38                                  -> "pair"
    [] OTHER                                    -> "none"

NoProps   == [array |-> <<>>, max |-> 0, length |-> 0]
NullProps == [array |-> <<>>, max |-> -1, length |-> 0]        \* the NULL pointer

grown(l, need) == IF need THEN l.max + Grow ELSE l.max

\* MQTTProperties_add: the list keeps the length of what it will write.  A
\* property nobody knows is refused.
add(l, p) ==
  LET type == getType(p.id)
      len  == CASE type = "byte"     -> 1
                [] type = "two"      -> 2
                [] type = "four"     -> 4
                [] type = "variable" -> VBIlen(p.n)
                [] type \in {"binary", "string"} -> 2 + Len(p.data)
                [] type = "pair"     -> 2 + Len(p.data) + 2 + Len(p.value)
  IN  IF type = "none" THEN l
      ELSE [array  |-> Append(l.array, p),
            max    |-> grown(l, l.max = 0 \/ Len(l.array) = l.max),
            length |-> l.length + len + 1]

\* MQTTProperties_copy
copy(l) == FoldLeft(add, NoProps, l.array)

\* MQTTProperties_len
propsLen(l) == IF l = NullProps THEN 1 ELSE l.length + VBIlen(l.length)

\* MQTTProperty_write
writeProperty(p) ==
  LET type == getType(p.id)
  IN  <<p.id>> \o
      CASE type = "byte"     -> <<p.n>>
        [] type = "two"      -> writeInt(p.n)
        [] type = "four"     -> writeInt4(p.n)
        [] type = "variable" -> encode(p.n)
        [] type \in {"binary", "string"} -> writeData(p.data)
        [] type = "pair"     -> writeData(p.data) \o writeData(p.value)

\* MQTTProperties_write
writeProps(l) ==
  encode(l.length) \o FlattenSeq([i \in DOMAIN l.array |-> writeProperty(l.array[i])])

\* MQTTProperty_read, with the number of bytes it says it has used.
readProperty(b) ==
  LET id   == b[1]
      type == getType(id)
      r    == After(b, 1)
      P(n, data, value) == [id |-> id, n |-> n, data |-> data, value |-> value]
      num(x, len) == [p |-> P(x.v, <<>>, <<>>), rest |-> x.rest, len |-> len + 1]
      s1 == LenStringRead(r)
      s2 == LenStringRead(s1.rest)
  IN  CASE type = "byte"     -> num([v |-> r[1], rest |-> After(r, 1)], 1)
        [] type = "two"      -> num(readInt(r), 2)
        [] type = "four"     -> num(readInt4(r), 4)
        [] type = "variable" -> num(decodeBuf(r), decodeBuf(r).len)
        [] type \in {"binary", "string"} ->
             [p |-> P(0, s1.v, <<>>), rest |-> s1.rest, len |-> s1.len + 1]
        [] type = "pair" ->
             [p |-> P(0, s1.v, s2.v), rest |-> s2.rest, len |-> s1.len + s2.len + 1]
        [] OTHER -> [p |-> P(0, <<>>, <<>>), rest |-> r, len |-> 1]

\* The loop of MQTTProperties_read.  remlength is unsigned: properties longer
\* than the list make it wrap, and the loop goes on beyond the packet.
RECURSIVE readProperties(_, _, _)
readProperties(l, b, remlength) ==
  LET r == readProperty(b)
      more == [l EXCEPT !.array = Append(@, r.p), !.max = grown(l, Len(l.array) = l.max)]
  IN  IF remlength > 0 THEN readProperties(more, r.rest, (remlength - r.len) % ByteBase^4)
      ELSE [rc |-> 1, l |-> l, rest |-> b]

readProps(b) ==
  LET n == decodeBuf(b)
  IN  IF b = <<>> THEN [rc |-> 0, l |-> NoProps, rest |-> b]
      ELSE readProperties([NoProps EXCEPT !.length = n.v], n.rest, n.v)

propertyCount(l, id) == Len(SelectSeq(l.array, LAMBDA p : p.id = id))

\* MQTTProperties_getPropertyAt: the loop, with cur_index properties passed.
RECURSIVE getPropertyFrom(_, _, _, _, _)
getPropertyFrom(l, id, index, i, cur) ==
  IF i > Len(l.array) THEN <<>>
  ELSE IF l.array[i].id # id THEN getPropertyFrom(l, id, index, i + 1, cur)
  ELSE IF cur = index THEN <<l.array[i]>>
  ELSE getPropertyFrom(l, id, index, i + 1, cur + 1)

getPropertyAt(l, id, index) == getPropertyFrom(l, id, index, 1, 0)

\* MQTTProperties_getNumericValueAt answers with an int.
getNumericValueAt(l, id, index) ==
  LET p == getPropertyAt(l, id, index)
      n == p[1].n
  IN  IF p = <<>> THEN -9999999
      ELSE IF getType(id) \in {"byte", "two"} THEN n
      ELSE IF getType(id) \in {"four", "variable"}
           THEN IF n < ByteBase^4 \div 2 THEN n ELSE n - ByteBase^4
      ELSE -999999

-----------------------------------------------------------------------------
(* What the client sends: the header byte, the length that is allocated and *)
(* announced, and what is written.                                         *)

Header(type, dup, qos, retain) ==
  type * 16 + (IF dup THEN 8 ELSE 0) + 2 * qos + (IF retain THEN 1 ELSE 0)

Sum(seq) == FoldLeft(+, 0, seq)

Flag(b, n) == IF b THEN n ELSE 0

MQIsdp == <<77, 81, 73, 115, 100, 112>>
MQTT   == <<77, 81, 84, 84>>

\* MQTTPacket_send_connect.  will, username and password are sequences of at
\* most one element.
send_connect(version, c, connectProps, willProps) ==
  LET v5   == version >= 5
      will == c.will # <<>>
      len  == (IF version = 3 THEN 12 ELSE 10) + Len(c.clientID) + 2
              + (IF will THEN Len(c.will[1].topic) + 2 + Len(c.will[1].payload) + 2 ELSE 0)
              + (IF c.username # <<>> THEN Len(c.username[1]) + 2 ELSE 0)
              + (IF c.password # <<>> THEN Len(c.password[1]) + 2 ELSE 0)
              + (IF v5 THEN propsLen(connectProps) + (IF will THEN propsLen(willProps) ELSE 0) ELSE 0)
      flags == Flag(c.clean, 2) + Flag(will, 4)
               + (IF will THEN 8 * c.will[1].qos + Flag(c.will[1].retained, 32) ELSE 0)
               + Flag(c.password # <<>>, 64) + Flag(c.username # <<>>, 128)
  IN  [head |-> Header(CONNECT, FALSE, 0, FALSE), len |-> len,
       body |-> writeData(IF version = 3 THEN MQIsdp ELSE MQTT) \o <<version, flags>>
                \o writeInt(c.keepAlive)
                \o (IF v5 THEN writeProps(connectProps) ELSE <<>>)
                \o writeData(c.clientID)
                \o (IF will THEN (IF v5 THEN writeProps(willProps) ELSE <<>>)
                                 \o writeData(c.will[1].topic) \o writeData(c.will[1].payload)
                    ELSE <<>>)
                \o (IF c.username # <<>> THEN writeData(c.username[1]) ELSE <<>>)
                \o (IF c.password # <<>> THEN writeData(c.password[1]) ELSE <<>>)]

\* The lengths of the topics of a list, each with what goes with it.
Topics(topics, extra) == Sum([i \in DOMAIN topics |-> Len(topics[i]) + extra])

\* opts is empty for the NULL pointer.
subopts(version, qos, opts, i) ==
  IF version >= 5 /\ opts # <<>>
  THEN qos + 4 * opts[i].noLocal + 8 * opts[i].retainAsPublished + 16 * opts[i].retainHandling
  ELSE qos

send_subscribe(version, topics, qoss, opts, props, msgid) ==
  [head |-> Header(SUBSCRIBE, FALSE, 1, FALSE),
   len  |-> 2 + Topics(topics, 3) + (IF version >= 5 THEN propsLen(props) ELSE 0),
   body |-> writeInt(msgid)
            \o (IF version >= 5 THEN writeProps(props) ELSE <<>>)
            \o FlattenSeq([i \in DOMAIN topics |->
                             Append(writeData(topics[i]), subopts(version, qoss[i], opts, i))])]

send_unsubscribe(version, topics, props, msgid) ==
  [head |-> Header(UNSUBSCRIBE, FALSE, 1, FALSE),
   len  |-> 2 + Topics(topics, 2) + (IF version >= 5 THEN propsLen(props) ELSE 0),
   body |-> writeInt(msgid)
            \o (IF version >= 5 THEN writeProps(props) ELSE <<>>)
            \o FlattenSeq([i \in DOMAIN topics |-> writeData(topics[i])])]

send_disconnect(version, reason, props) ==
  LET long == version >= 5 /\ (props # NullProps \/ reason # 0)
      null == props = NullProps
  IN  [head |-> Header(DISCONNECT, FALSE, 0, FALSE),
       len  |-> IF long THEN 1 + (IF null THEN 0 ELSE propsLen(props)) ELSE 0,
       body |-> IF long THEN <<reason>> \o (IF null THEN <<>> ELSE writeProps(props)) ELSE <<>>]

\* MQTTPacket_send_ack, for PUBACK, PUBREC, PUBREL and PUBCOMP.
send_ack(type, msgid, dup) ==
  [head |-> Header(type, dup, IF type = PUBREL THEN 1 ELSE 0, FALSE), len |-> 2,
   body |-> writeInt(msgid)]

send_pingreq == [head |-> Header(PINGREQ, FALSE, 0, FALSE), len |-> 0, body |-> <<>>]

\* MQTTPacket_send_publish; MQTTPacket_sends adds up the lengths of the buffers.
send_publish(version, m, dup, qos, retained) ==
  LET buflen == (IF qos > 0 THEN 2 ELSE 0) + (IF version >= 5 THEN propsLen(m.props) ELSE 0)
  IN  [head |-> Header(PUBLISH, dup, qos, retained),
       len  |-> 2 + Len(m.topic) + buflen + Len(m.payload),
       body |-> writeData(m.topic)
                \o (IF qos > 0 THEN writeInt(m.msgId) ELSE <<>>)
                \o (IF version >= 5 THEN writeProps(m.props) ELSE <<>>)
                \o m.payload]

\* MQTTPacket_send and MQTTPacket_sends: the header, the length, the packet.
onWire(packet) == <<packet.head>> \o encode(packet.len) \o packet.body

-----------------------------------------------------------------------------
(* What the client receives: the functions of the table new_packets.       *)

NoPack == [null |-> TRUE, flags |-> 0, rc |-> 0, msgId |-> 0, props |-> NoProps,
           codes |-> <<>>, topic |-> <<>>, payload |-> <<>>]
Pack   == [NoPack EXCEPT !.null = FALSE]

\* The pack with the properties read from b, or none.
withProps(p, b) ==
  LET r == readProps(b) IN IF r.rc = 1 THEN [p EXCEPT !.props = r.l] ELSE NoPack

connack(version, b) ==
  LET p == [Pack EXCEPT !.flags = b[1], !.rc = b[2]]
  IN  CASE version < 5 -> IF Len(b) = 2 THEN p ELSE NoPack
        [] version >= 5 /\ Len(b) > 2 -> withProps(p, After(b, 2))
        [] OTHER -> [p EXCEPT !.props = Uninitialised]

publish(version, head, b) ==
  LET t    == readUTF(b)
      qos  == (head \div 2) % 4
      id   == IF qos > 0 THEN readInt(t.rest) ELSE [v |-> 0, rest |-> t.rest]
      r    == readProps(id.rest)
      p    == [Pack EXCEPT !.flags = head % 16, !.topic = t.v, !.msgId = id.v]
  IN  IF t.null THEN NoPack
      ELSE IF version < 5 THEN [p EXCEPT !.payload = id.rest]
      ELSE IF r.rc = 1 THEN [p EXCEPT !.props = r.l, !.payload = r.rest]
      ELSE NoPack

\* Mutant: a packet with a reason code and no properties is taken for one
\* without either.
ackShort(version, head, b) ==
  LET id == IF head \div 16 # DISCONNECT THEN readInt(b) ELSE [v |-> 0, rest |-> b]
      p  == [Pack EXCEPT !.msgId = id.v]
  IN  IF version < 5 \/ Len(b) <= 3 THEN p
      ELSE withProps([p EXCEPT !.rc = id.rest[1]], After(id.rest, 1))

ack(version, head, b) ==
  LET id == IF head \div 16 # DISCONNECT THEN readInt(b) ELSE [v |-> 0, rest |-> b]
      p  == [Pack EXCEPT !.msgId = id.v]
  IN  IF version < 5 \/ Len(b) <= 2 THEN p
      ELSE LET q == [p EXCEPT !.rc = id.rest[1]]
           IN  IF Len(b) > 3 THEN withProps(q, After(id.rest, 1)) ELSE q

suback(version, b) ==
  LET id == readInt(b)
      r  == IF version >= 5 THEN readProps(id.rest) ELSE [rc |-> 1, l |-> NoProps, rest |-> id.rest]
  IN  IF r.rc # 1 \/ r.rest = <<>> THEN NoPack
      ELSE [Pack EXCEPT !.msgId = id.v, !.props = r.l, !.codes = r.rest]

unsuback(version, b) ==
  LET id == readInt(b)
      r  == readProps(id.rest)
  IN  IF version < 5 THEN [Pack EXCEPT !.msgId = id.v]
      ELSE IF r.rc # 1 \/ r.rest = <<>> THEN NoPack
      ELSE [Pack EXCEPT !.msgId = id.v, !.props = r.l, !.codes = r.rest]
=============================================================================
