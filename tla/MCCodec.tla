------------------------------ MODULE MCCodec ------------------------------
EXTENDS Codec

Prop(id, n, data, value) == [id |-> id, n |-> n, data |-> data, value |-> value]
Str(n) == [i \in 1..n |-> 96 + i]

\* One property of every type, lengths around the boundaries of a length that
\* takes one, two or three bytes, and one nobody knows.
MCValues ==
  {Prop(1, 1, <<>>, <<>>), Prop(33, 17, <<>>, <<>>), Prop(2, 4660, <<>>, <<>>),
   Prop(17, 65535, <<>>, <<>>), Prop(11, 3, <<>>, <<>>), Prop(11, 4, <<>>, <<>>),
   Prop(11, 64, <<>>, <<>>), Prop(9, 0, Str(1), <<>>), Prop(3, 0, Str(9), <<>>),
   Prop(38, 0, Str(2), Str(3)), Prop(38, 0, <<>>, Str(20)), Prop(99, 0, <<>>, <<>>)}

A == <<97>>
BB == <<98, 98>>
Will(q, r) == [topic |-> A, payload |-> BB, qos |-> q, retained |-> r]
Connects ==
  {[kind |-> "connect", clientID |-> A, will |-> w, username |-> u, password |-> p,
    keepAlive |-> 60, clean |-> c] :
     w \in {<<>>, <<Will(1, FALSE)>>, <<Will(2, TRUE)>>}, u \in {<<>>, <<BB>>}, p \in {<<>>, <<A>>},
     c \in BOOLEAN}
Opt(n, a, h) == [noLocal |-> n, retainAsPublished |-> a, retainHandling |-> h]
Subscribes ==
  {[kind |-> "subscribe", topics |-> <<A, BB>>, qoss |-> <<2, 1>>, opts |-> o, msgId |-> 19] :
     o \in {<<>>, <<Opt(1, 0, 2), Opt(0, 1, 1)>>}}
Publishes ==
  {[kind |-> "publish", topic |-> BB, payload |-> y, props |-> NoProps, msgId |-> 18, dup |-> d /\ q > 0,
    qos |-> q, retained |-> d] : q \in 0..2, y \in {<<>>, A}, d \in BOOLEAN}
MCRequests ==
  Connects \cup Subscribes \cup Publishes
  \cup {[kind |-> "unsubscribe", topics |-> <<BB, A, A>>, msgId |-> 255], [kind |-> "ping"]}
  \cup {[kind |-> "ack", type |-> t, msgId |-> 16, dup |-> FALSE] : t \in PUBACK..PUBCOMP}
  \cup {[kind |-> "disconnect", reason |-> r] : r \in {0, 4}}

Forms == {"full", "reason", "short"}
MCDisconnects == {[kind |-> "disconnect", rc |-> r, form |-> f] : r \in {0, 7}, f \in Forms}
MCAnswers ==
  {[kind |-> "connack", flags |-> f, rc |-> r] : f \in {0, 1}, r \in {0, 5}}
  \cup {[kind |-> "publish", flags |-> 2 * q, topic |-> BB, msgId |-> 17, payload |-> y] :
          q \in 0..2, y \in {<<>>, A}}
  \cup {[kind |-> "ack", type |-> t, msgId |-> 31, rc |-> r, form |-> f] :
          t \in PUBACK..PUBCOMP, r \in {0, 7}, f \in Forms}
  \cup {[kind |-> k, msgId |-> 20, codes |-> <<1, 128>>] : k \in {"suback", "unsuback"}}
  \cup MCDisconnects

\* The bytes at the borders of valid_ranges.
MCChars == {0, 127, 128, 143, 144, 159, 160, 191, 193, 194, 223, 224, 237, 239, 240, 243, 244, 245}

Digits == <<49, 56, 56, 51>>
Host == <<104, 46, 110>>
Six == <<58, 58, 49>>
Addresses(d) ==
  {[text |-> Host, host |-> Host, port |-> d], [text |-> Host \o <<58>> \o Digits, host |-> Host, port |-> 1883],
   [text |-> <<91>> \o Six \o <<93>>, host |-> Six, port |-> d],
   [text |-> <<91>> \o Six \o <<93, 58>> \o Digits, host |-> Six, port |-> 1883]}
MCServers == Addresses(DefaultPort)

Scheme == <<104, 58, 47, 47>>
Hex(n) == IF n < 10 THEN 48 + n ELSE IF n = 15 THEN 102 ELSE 55 + n
Written(c, all) ==
  FlattenSeq([i \in DOMAIN c |-> IF all \/ c[i] \in {37, 64} THEN <<37, Hex(c[i] \div 16), Hex(c[i] % 16)>>
                                 ELSE <<c[i]>>])
Creds == UNION {[1..n -> {117, 58, 64, 37, 250}] : n \in 1..4}
\* Nothing, a byte of the next block, or more of the same alphabet.
MCBehind == {<<>>, <<136>>, <<65, 61, 10>>}
MCProxies ==
  {[text |-> Scheme \o a.text, host |-> a.host, port |-> a.port, cred |-> <<>>, escaped |-> TRUE] :
     a \in Addresses(80)}
  \cup {[text |-> Scheme \o Written(c, all) \o <<64>> \o a.text, host |-> a.host, port |-> a.port,
         cred |-> c, escaped |-> TRUE] : c \in Creds, all \in BOOLEAN, a \in {CHOOSE x \in Addresses(80) : x.port = 80}}
  \cup {[text |-> Scheme \o <<117, 37, 90, 90, 64>> \o Host, host |-> Host, port |-> 80,
         cred |-> <<117, 37, 90, 90>>, escaped |-> FALSE]}
=============================================================================
