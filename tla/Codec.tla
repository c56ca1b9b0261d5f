------------------------------- MODULE Codec -------------------------------
(***************************************************************************)
(* What the MQTT library makes of the data it is given: an application     *)
(* puts together a property list and has packets sent, the broker's        *)
(* packets are taken apart, strings are checked for UTF-8, and the address *)
(* of a server or a proxy is read.  Every behaviour is one of these jobs.  *)
(*                                                                         *)
(*   job     "packets", "utf8", "server" or "proxy"                        *)
(*   props   the property list of the application, or the broker's         *)
(*   sent    the packet the client put together, with what it was to say   *)
(*   said    what the broker said;  pack  what the client made of it       *)
(*   text    the string that is looked at;  meant  what it stands for      *)
(*   auth    MQTTProtocol_connect and the loop of MQTTProtocol_specialChars *)
(***************************************************************************)
EXTENDS Packets

CONSTANTS Values,        \* properties that are added to a list
          MaxProps,      \* how many, at most
          Requests,      \* packets the client sends
          Answers,       \* packets the broker sends
          Chars,         \* bytes of a string that is checked
          MaxChars,      \* how many, at most
          Servers,       \* addresses of servers, with host and port
          Proxies,       \* values of http_proxy, with host, port and credentials
          Behind         \* what may lie in memory behind a block, up to a NUL

VARIABLES job, props, sent, said, pack, text, meant, auth

vars == <<job, props, sent, said, pack, text, meant, auth>>

T == INSTANCE Text

None == [kind |-> "none"]
DefaultPort == 1883

Idle == [p0 |-> <<>>, p1 |-> <<>>, len |-> 0, at |-> "start", proxy |-> <<>>,
         http_proxy_auth |-> <<>>, host |-> <<>>, port |-> 0, basic |-> <<>>]

Init ==
  /\ job \in {"packets", "utf8", "server", "proxy"}
  /\ props = NoProps
  /\ sent = None /\ said = None /\ pack = NoPack
  /\ CASE job \in {"packets", "utf8"} -> text = <<>> /\ meant = None
       [] job = "server" -> \E e \in Servers : text = e.text /\ meant = e
       [] job = "proxy"  -> \E e \in Proxies : text = e.text /\ meant = e
  /\ auth = Idle

-----------------------------------------------------------------------------
(* Packets. *)

Fresh == sent = None /\ said = None

addProperty ==
  /\ job = "packets" /\ Fresh /\ Len(props.array) < MaxProps
  /\ \E p \in Values : props' = add(props, p)
  /\ UNCHANGED <<job, sent, said, pack, text, meant, auth>>

\* The functions that send a packet get a copy of the application's list, or
\* none.  Only MQTT 5 has properties.
build(r, version, l) ==
  CASE r.kind = "connect"     -> send_connect(version, r, l, l)
    [] r.kind = "subscribe"   -> send_subscribe(version, r.topics, r.qoss, r.opts, l, r.msgId)
    [] r.kind = "unsubscribe" -> send_unsubscribe(version, r.topics, l, r.msgId)
    [] r.kind = "publish"     -> send_publish(version, [r EXCEPT !.props = copy(props)], r.dup, r.qos,
                                              r.retained)
    [] r.kind = "ack"         -> send_ack(r.type, r.msgId, r.dup)
    [] r.kind = "ping"        -> send_pingreq
    [] r.kind = "disconnect"  -> send_disconnect(version, r.reason, l)

request ==
  /\ job = "packets" /\ Fresh
  /\ \E r \in Requests, version \in 3..5, null \in BOOLEAN :
       /\ version < 5 => props = NoProps
       /\ r.kind = "publish" => ~null
       /\ LET l == IF null THEN NullProps ELSE copy(props)
          IN  sent' = [kind |-> r.kind, r |-> r, version |-> version, null |-> null,
                       packet |-> build(r, version, l)]
  /\ UNCHANGED <<job, props, said, pack, text, meant, auth>>

-----------------------------------------------------------------------------
(* The MQTT standard: the bytes of a packet that says what it is to say.   *)

StdInt(n, k) == [i \in 1..k |-> (n \div ByteBase^(k - i)) % ByteBase]

StdVar(n) ==
  LET k == CHOOSE k \in 1..MaxLengthBytes : /\ n < LengthBase^k
                                            /\ k = 1 \/ n >= LengthBase^(k - 1)
  IN  [i \in 1..k |-> ((n \div LengthBase^(i - 1)) % LengthBase) + (IF i < k THEN More ELSE 0)]

StdData(d) == StdInt(Len(d), 2) \o d

StdProperty(p) ==
  <<p.id>> \o CASE getType(p.id) = "byte"     -> StdInt(p.n, 1)
                [] getType(p.id) = "two"      -> StdInt(p.n, 2)
                [] getType(p.id) = "four"     -> StdInt(p.n, 4)
                [] getType(p.id) = "variable" -> StdVar(p.n)
                [] getType(p.id) \in {"binary", "string"} -> StdData(p.data)
                [] getType(p.id) = "pair"     -> StdData(p.data) \o StdData(p.value)

StdProps(version, array) ==
  LET b == FlattenSeq([i \in DOMAIN array |-> StdProperty(array[i])])
  IN  IF version < 5 THEN <<>> ELSE StdVar(Len(b)) \o b

Each(seq, F(_)) == FlattenSeq([i \in DOMAIN seq |-> F(i)])

\* A reason code and properties, shortened as far as form says.
StdReason(version, rc, array, form) ==
  IF version < 5 THEN <<>>
  ELSE IF form = "full" \/ array # <<>> THEN <<rc>> \o StdProps(version, array)
  ELSE IF form = "reason" \/ rc # 0 THEN <<rc>> ELSE <<>>

StdConnect(v, r, array) ==
  LET will == r.will # <<>>
      bits == (IF r.clean THEN {1} ELSE {}) \cup (IF will THEN {2} ELSE {})
              \cup (IF will /\ r.will[1].qos \in {1, 3} THEN {3} ELSE {})
              \cup (IF will /\ r.will[1].qos \in {2, 3} THEN {4} ELSE {})
              \cup (IF will /\ r.will[1].retained THEN {5} ELSE {})
              \cup (IF r.password # <<>> THEN {6} ELSE {}) \cup (IF r.username # <<>> THEN {7} ELSE {})
      Bit(i) == IF i \in bits THEN 2^i ELSE 0
  IN  StdData(IF v = 3 THEN MQIsdp ELSE MQTT) \o <<v, Sum([i \in 1..7 |-> Bit(i)])>>
      \o StdInt(r.keepAlive, 2) \o StdProps(v, array) \o StdData(r.clientID)
      \o (IF will THEN StdProps(v, array) \o StdData(r.will[1].topic) \o StdData(r.will[1].payload)
          ELSE <<>>)
      \o Each(r.username, LAMBDA i : StdData(r.username[i]))
      \o Each(r.password, LAMBDA i : StdData(r.password[i]))

\* The packet that asks for r, without the fixed header.
Standard(v, r, array, null) ==
  CASE r.kind = "connect" -> StdConnect(v, r, array)
    [] r.kind = "subscribe" ->
         LET o(i) == IF v < 5 \/ r.opts = <<>> THEN 0
                     ELSE r.opts[i].noLocal * 4 + r.opts[i].retainAsPublished * 8
                          + r.opts[i].retainHandling * 16
             T1(i) == Append(StdData(r.topics[i]), o(i) + r.qoss[i])
         IN  StdInt(r.msgId, 2) \o StdProps(v, array) \o Each(r.topics, T1)
    [] r.kind = "unsubscribe" ->
         StdInt(r.msgId, 2) \o StdProps(v, array) \o Each(r.topics, LAMBDA i : StdData(r.topics[i]))
    [] r.kind = "publish" ->
         StdData(r.topic) \o (IF r.qos > 0 THEN StdInt(r.msgId, 2) ELSE <<>>)
         \o StdProps(v, array) \o r.payload
    [] r.kind = "ack" -> StdInt(r.msgId, 2)
    [] r.kind = "ping" -> <<>>
    [] r.kind = "disconnect" ->
         StdReason(v, r.reason, array, IF null THEN "short" ELSE "full")

\* The first byte of a packet: the type, and flags that only a PUBLISH packet
\* has the choice of.
StdFirst(r) ==
  CASE r.kind = "connect"     -> 16
    [] r.kind = "subscribe"   -> 128 + 2
    [] r.kind = "unsubscribe" -> 160 + 2
    [] r.kind = "publish"     -> 48 + (IF r.dup THEN 8 ELSE 0) + 2 * r.qos + (IF r.retained THEN 1 ELSE 0)
    [] r.kind = "ack"         -> r.type * 16 + (IF r.type = PUBREL THEN 2 ELSE 0)
    [] r.kind = "ping"        -> 192
    [] r.kind = "disconnect"  -> 224

\* What the broker says with a packet a.
Spoken(v, a, array) ==
  CASE a.kind = "connack"  -> <<a.flags, a.rc>> \o StdProps(v, array)
    [] a.kind = "publish"  ->
         StdData(a.topic) \o (IF (a.flags \div 2) % 4 > 0 THEN StdInt(a.msgId, 2) ELSE <<>>)
         \o StdProps(v, array) \o a.payload
    [] a.kind = "ack"      -> StdInt(a.msgId, 2) \o StdReason(v, a.rc, array, a.form)
    [] a.kind = "suback"   -> StdInt(a.msgId, 2) \o StdProps(v, array) \o a.codes
    [] a.kind = "unsuback" -> StdInt(a.msgId, 2) \o (IF v < 5 THEN <<>> ELSE StdProps(v, array) \o a.codes)
    [] a.kind = "disconnect" -> StdReason(v, a.rc, array, a.form)

-----------------------------------------------------------------------------
\* The table new_packets.
parse(v, a, b) ==
  CASE a.kind = "connack"    -> connack(v, b)
    [] a.kind = "publish"    -> publish(v, PUBLISH * 16 + a.flags, b)
    [] a.kind = "ack"        -> ack(v, a.type * 16, b)
    [] a.kind = "suback"     -> suback(v, b)
    [] a.kind = "unsuback"   -> unsuback(v, b)
    [] a.kind = "disconnect" -> ack(v, DISCONNECT * 16, b)

answer ==
  /\ job = "packets" /\ Fresh
  /\ \E a \in Answers, version \in 3..5 :
       /\ version < 5 => props = NoProps /\ a.kind # "disconnect"
       /\ said' = [kind |-> a.kind, a |-> a, version |-> version]
       /\ pack' = parse(version, a, Spoken(version, a, props.array))
  /\ UNCHANGED <<job, props, sent, text, meant, auth>>

-----------------------------------------------------------------------------
(* Strings and addresses. *)

\* One more byte of a string that is given to UTF8_validate.
grow ==
  /\ job = "utf8" /\ Len(text) < MaxChars
  /\ \E c \in Chars : text' = Append(text, c)
  /\ UNCHANGED <<job, props, sent, said, pack, meant, auth>>

opened(proxy, default_port) ==
  LET a == T!addressPort(proxy, default_port)
  IN  [Idle EXCEPT !.at = "done", !.host = T!hostname(proxy, a.len), !.port = a.port]

\* MQTTProtocol_connect without a proxy.
openServer ==
  /\ job = "server" /\ auth.at = "start"
  /\ auth' = opened(text, DefaultPort)
  /\ UNCHANGED <<job, props, sent, said, pack, text, meant>>

\* MQTTProtocol_connect with one: up to the call of MQTTProtocol_specialChars.
findProxy ==
  /\ job = "proxy" /\ auth.at = "start"
  /\ LET p == T!proxyOf(text)
     IN  auth' = [Idle EXCEPT !.at = IF p.auth THEN "decoding" ELSE "opening", !.proxy = p.proxy,
                              !.p1 = p.p1, !.len = p.len]
  /\ UNCHANGED <<job, props, sent, said, pack, text, meant>>

decodeChar ==
  /\ auth.at = "decoding" /\ Head(auth.p1) # T!AT
  /\ auth' = T!specialChar(auth)
  /\ UNCHANGED <<job, props, sent, said, pack, text, meant>>

\* The block that is allocated is as long as the text, and full with it.
encodeAuth ==
  /\ auth.at = "decoding" /\ Head(auth.p1) = T!AT
  /\ auth' = [auth EXCEPT !.at = "opening",
                          !.http_proxy_auth = T!base64_encode(T!base64_encodeLength(auth.len),
                                                              SubSeq(auth.p0, 1, auth.len)).out]
  /\ UNCHANGED <<job, props, sent, said, pack, text, meant>>

openProxy ==
  /\ auth.at = "opening"
  /\ auth' = [opened(auth.proxy, 80) EXCEPT !.at = "asking",
                                           !.http_proxy_auth = auth.http_proxy_auth]
  /\ UNCHANGED <<job, props, sent, said, pack, text, meant>>

\* WebSocket_proxy_connect: the request, whose last header is printed with %s
\* from a block in which no NUL marks the end of the text.  It goes on with
\* whatever lies behind the block.
proxyConnect ==
  /\ auth.at = "asking"
  /\ IF auth.http_proxy_auth = <<>> THEN auth' = [auth EXCEPT !.at = "done"]
     ELSE \E behind \in Behind :
            auth' = [auth EXCEPT !.at = "done", !.basic = T!printed(auth.http_proxy_auth, behind)]
  /\ UNCHANGED <<job, props, sent, said, pack, text, meant>>

Finished ==
  /\ \/ job = "packets" /\ ~Fresh
     \/ job = "utf8"
     \/ auth.at = "done"
  /\ UNCHANGED vars

Next ==
  \/ addProperty \/ request \/ answer
  \/ grow \/ openServer \/ findProxy \/ decodeChar \/ encodeAuth \/ openProxy
  \/ proxyConnect \/ Finished

\* The thread that connects runs.
Spec ==
  /\ Init /\ [][Next]_vars
  /\ WF_vars(findProxy \/ decodeChar \/ encodeAuth \/ openProxy \/ proxyConnect)

-----------------------------------------------------------------------------
(* What holds. *)

\* The four byte values from 2^31 on, which writeInt4 does not write right.
Large(l) == \E i \in DOMAIN l.array : getType(l.array[i].id) = "four" /\ l.array[i].n >= ByteBase^4 \div 2

\* A packet the client sends is, byte for byte and with its fixed header, the
\* one the MQTT standard has for what the application asked for, and it is as
\* long as the length that was worked out beforehand, which is what was
\* allocated.  Left out are lists with a four byte value from 2^31 on.
BrokerUnderstands ==
  sent # None /\ ~Large(props) =>
    LET b == Standard(sent.version, sent.r, IF sent.null THEN <<>> ELSE props.array, sent.null)
    IN  /\ Len(sent.packet.body) = sent.packet.len
        /\ onWire(sent.packet) = <<StdFirst(sent.r)>> \o StdVar(Len(b)) \o b

\* The numbers of a list that the application finds with getNumericValueAt, and
\* the properties it finds with getPropertyAt, are those of the list in order.
Lookup(l, array) ==
  \A p \in ToSet(array) :
    LET of == SelectSeq(array, LAMBDA q : q.id = p.id)
    IN  /\ propertyCount(l, p.id) = Len(of)
        /\ \A i \in DOMAIN of :
             /\ getPropertyAt(l, p.id, i - 1) = <<of[i]>>
             /\ getType(p.id) \in {"byte", "two", "four", "variable"} /\ of[i].n < ByteBase^4 \div 2
                  => getNumericValueAt(l, p.id, i - 1) = of[i].n
        /\ getPropertyAt(l, p.id, Len(of)) = <<>>

\* The reason of a DISCONNECT packet without properties is not read.
Unread == said.kind = "disconnect" /\ props.array = <<>> /\ said.a.rc # 0

\* A packet of the broker is taken apart into what the broker said with it: the
\* fields, the properties in order, within the array allocated for them, and
\* the same again in a copy of the list.
ClientUnderstands ==
  said # None =>
    LET v5 == said.version = 5
        a  == said.a
    IN  /\ ~pack.null
        /\ said.kind \in {"ack", "suback", "unsuback"} => pack.msgId = a.msgId
        /\ said.kind = "publish" => pack.msgId = IF (a.flags \div 2) % 4 > 0 THEN a.msgId ELSE 0
        /\ said.kind \in {"connack", "publish"} => pack.flags = a.flags
        /\ said.kind = "connack" \/ (v5 /\ said.kind \in {"ack", "disconnect"} /\ ~Unread)
             => pack.rc = a.rc
        /\ said.kind = "suback" \/ (v5 /\ said.kind = "unsuback") => pack.codes = a.codes
        /\ said.kind = "publish" => pack.topic = a.topic /\ pack.payload = a.payload
        /\ LET c == copy(pack.props)
           IN  /\ pack.props.array = props.array /\ pack.props.length = props.length
               /\ Len(pack.props.array) <= pack.props.max
               /\ c.array = props.array /\ c.length = props.length /\ Len(c.array) <= c.max
        /\ Lookup(pack.props, props.array)

\* The encodings of the Unicode scalar values.
RECURSIVE Unicode(_)
Unicode(b) ==
  LET cont(n) == \A i \in 2..n : b[i] \div 64 = 2
      is(n) == Len(b) >= n /\ cont(n) /\
        CASE n = 1 -> b[1] < 128
          [] n = 2 -> b[1] \div 32 = 6 /\ (b[1] % 32) * 64 + (b[2] % 64) >= 128
          [] n = 3 -> /\ b[1] \div 16 = 14
                      /\ LET cp == (b[1] % 16) * 4096 + (b[2] % 64) * 64 + (b[3] % 64)
                         IN  cp >= 2048 /\ cp \notin 55296..57343
          [] n = 4 -> /\ b[1] \div 8 = 30
                      /\ LET cp == (b[1] % 8) * 262144 + (b[2] % 64) * 4096 + (b[3] % 64) * 64
                                   + (b[4] % 64)
                         IN  cp \in 65536..1114111
  IN  b = <<>> \/ \E n \in 1..4 : is(n) /\ Unicode(T!From(b, n + 1))

\* A string is accepted for a client id, a user or a topic exactly if it is a
\* sequence of encoded Unicode scalar values: no overlong forms, no surrogates,
\* nothing beyond U+10FFFF, nothing cut short.
UTF8Agrees == job = "utf8" => (T!validate(text) <=> Unicode(text))

\* The bytes that encode the credentials, as far as anything was printed.
Credentials == SubSeq(auth.basic, 1, T!base64_encodeLength(Len(meant.cred)))

\* The host and the port of a server or a proxy are the ones that were written.
\* The header a proxy gets is there if there are credentials, and it begins with
\* the Base64 encoding of the user and the password that were meant, every %XX
\* decoded.  It need not end with it: Base64_encode fills the block, puts no NUL
\* behind the text, and what %s reads further on is sent to the proxy as well.
AddressAsWritten ==
  auth.at = "done" =>
    /\ auth.host = meant.host
    /\ auth.port = meant.port
    /\ job = "proxy" =>
         /\ Len(auth.basic) >= T!base64_encodeLength(Len(meant.cred))
         /\ meant.cred = <<>> => auth.basic = <<>>
         /\ T!base64_decodeLength(Credentials) = Len(meant.cred)
         /\ \A n \in 0..Len(meant.cred) + 1 :
              IsPrefix(T!base64_decode(n, Credentials), meant.cred)
              /\ (n >= Len(meant.cred) => T!base64_decode(n, Credentials) = meant.cred)

\* Reading the user and the password of a proxy comes to an end, and with it
\* MQTTProtocol_connect, if every '%' is followed by two hexadecimal digits.
\* (Left out are those where one is not: specialChar then stays where it is.)
DecodingEnds == job = "proxy" /\ meant.escaped ~> auth.at = "done"
=============================================================================
