------------------------------- MODULE MCWire -------------------------------
EXTENDS Wire

P(type, body) == [head |-> type * 16, body |-> body]
Ack  == P(CONNACK, <<21, 22>>)
Pub  == P(PUBLISH, <<31, 32, 33, 34, 35>>)
Pong1 == P(13, <<>>)

Tcp(ps) == [packets |-> ps]

Bin(data)  == [final |-> TRUE, op |-> OP_BINARY, data |-> data]
Ctl(op, data) == [final |-> TRUE, op |-> op, data |-> data]
B(p) == Packet(p)
Answer == HttpLine \o <<OtherLine, AcceptLine, EmptyLine>>
Ws(ps, fs, sh) == [packets |-> ps, answer |-> Answer, frames |-> fs, shared |-> sh]
OneEach(ps) == Ws(ps, [i \in DOMAIN ps |-> Bin(B(ps[i]))], FALSE)

None == [kind |-> "tcp", streams |-> <<>>, due |-> <<>>]
C(kind, streams, d) == [kind |-> kind, streams |-> streams, due |-> d]
Publish(q) == [kind |-> "publish", qos |-> q, topic |-> <<65>>, payload |-> <<66, 67>>]
Ping == [kind |-> "ping"]

S(c1, c2) == [conns |-> <<c1, c2>>, spaces |-> {100}, uninit |-> {1}, newMasks |-> {NoMask},
              masks |-> {<<1, 2, 3, 4>>}, whole |-> TRUE]

\* Two plain connections, one of them lost and opened again.
Plain == S(C("tcp", <<Tcp(<<Ack, Pub>>), Tcp(<<Ack, Pong1>>)>>, <<>>),
           C("tcp", <<Tcp(<<Ack>>)>>, <<>>))

\* Writes that are cut, on a plain connection that is lost once.
Cut == [S(C("tcp", <<Tcp(<<Ack, Pub>>), Tcp(<<Ack>>)>>, <<Publish(1), Ping, Publish(0)>>), None)
          EXCEPT !.spaces = 0..12]

\* A WebSocket: a packet in two frames, pings between packets, long frames.
Split == S(C("ws", <<Ws(<<Ack, Pub>>,
                        <<Bin(B(Ack)), Ctl(OP_PING, <<9>>), Bin(SubSeq(B(Pub), 1, 2)),
                          Bin(From(B(Pub), 3))>>, FALSE)>>, <<>>), None)

\* A WebSocket and a plain connection.
Both == S(C("ws", <<OneEach(<<Ack>>)>>, <<>>), C("tcp", <<Tcp(<<Ack, Pub>>)>>, <<>>))

\* Writes that are cut on a WebSocket, pings from the broker among them.
CutWs == [S(C("ws", <<Ws(<<Ack, Pub>>, <<Bin(B(Ack)), Ctl(OP_PING, <<9>>), Bin(B(Pub))>>, FALSE)>>,
             <<Publish(1), Ping>>), None)
            EXCEPT !.spaces = {0, 3, 8, 12, 100}]

\* What the static buffers do not survive: a ping in a packet, a message in
\* fragments, a connection lost with a frame half read, two WebSockets.
Lossy == S(C("ws", <<Ws(<<Ack, Pub>>,
                        <<Bin(B(Ack)), Bin(SubSeq(B(Pub), 1, 2)), Ctl(OP_PING, <<9>>),
                          Bin(From(B(Pub), 3))>>, FALSE)>>, <<>>), None)
Fragments == S(C("ws", <<Ws(<<Ack, Pub>>,
                        <<Bin(B(Ack)), [Bin(SubSeq(B(Pub), 1, 2)) EXCEPT !.final = FALSE],
                          [Bin(From(B(Pub), 3)) EXCEPT !.op = 0]>>, FALSE)>>, <<>>), None)
Reopened == S(C("ws", <<OneEach(<<Ack, Pub>>), OneEach(<<Ack, Pong1>>)>>, <<Publish(1)>>), None)
Two == S(C("ws", <<OneEach(<<Ack>>)>>, <<>>), C("ws", <<OneEach(<<Ack>>)>>, <<>>))
Closing == S(C("ws", <<Ws(<<Ack>>, <<Bin(B(Ack)), Ctl(OP_CLOSE, <<3, 232>>)>>, FALSE)>>, <<>>), None)
TwoInOne == [S(C("ws", <<Ws(<<Ack, Pub>>, <<Bin(B(Ack) \o B(Pub))>>, TRUE)>>, <<>>), None)
               EXCEPT !.uninit = {1, SOCKET_ERROR}, !.whole = FALSE]

\* A message whose write is cut on a WebSocket, which is then lost.
Again == [S(C("ws", <<OneEach(<<Ack>>), OneEach(<<Ack>>)>>, <<Publish(1)>>), None)
            EXCEPT !.spaces = {9, 100}, !.newMasks = {NoMask, <<1, 2, 3, 4>>}]

MCScenarios ==
  {Plain, Cut, Split, Both, CutWs, Lossy, Fragments, Reopened, Two, Closing, TwoInOne, Again}
=============================================================================
