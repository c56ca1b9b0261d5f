------------------------- MODULE AsyncClientProofs -------------------------
(***************************************************************************)
(* Invariance proofs for the client library, for every set of topics and   *)
(* sockets and every bound.  First what MQTTAsync_addCommand, taking the   *)
(* head and appending do to the order of the command queue and to the      *)
(* commands in it; then type correctness, and the order of the queue with  *)
(* it; last, that the client always comes back.                            *)
(***************************************************************************)
EXTENDS AsyncClient, SequenceTheorems, WellFoundedInduction, TLAPS

-----------------------------------------------------------------------------
(* MQTTAsync_addCommand. *)

\* A non-empty set of positions has a first one.
LEMMA FirstIndex ==
    ASSUME NEW I, I \subseteq Nat, I # {}
    PROVE  Min(I) \in I /\ \A i \in I : Min(I) <= i
<1>1. PICK x \in I : \A y \in I : ~(<<y, x>> \in OpToRel(<, Nat))
  BY WFMin, NatLessThanWellFounded
<1>2. ASSUME NEW y \in I, y < x
      PROVE  <<y, x>> \in OpToRel(<, Nat)
  BY <1>2 DEF OpToRel
<1>3. \A y \in I : ~(y < x)
  BY <1>1, <1>2, Zenon
<1>4. \A y \in I : x <= y
  BY <1>3
<1> QED
  BY <1>4 DEF Min

\* Queue r is q with command c added at the head.
Added(q, c, r) ==
    /\ \A i \in 1..Len(q) : q[i].type # c.type
    /\ Len(r) = Len(q) + 1
    /\ \A i \in 1..Len(q) : r[i + 1] = q[i]

\* Queue r is q with command c in place of the first one of its type, but at
\* the head.
Moved(q, c, r) ==
    \E k \in 1..Len(q) :
        /\ q[k].type = c.type
        /\ \A i \in 1..(k - 1) : q[i].type # c.type
        /\ Len(r) = Len(q)
        /\ \A i \in 1..(k - 1) : r[i + 1] = q[i]
        /\ \A i \in (k + 1)..Len(q) : r[i] = q[i]

\* addCommand puts the command at the head, unless the head is one of its type
\* already; the other commands keep their order, and the first of its type is
\* taken out.
LEMMA AddCommandShape ==
    ASSUME NEW S, NEW q \in Seq(S), NEW c \in S,
           ~(q # <<>> /\ q[1].type = c.type)
    PROVE  /\ addCommand(q, c) \in Seq(S)
           /\ addCommand(q, c)[1] = c
           /\ Added(q, c, addCommand(q, c)) \/ Moved(q, c, addCommand(q, c))
<1> DEFINE I == {i \in 1..Len(q) : q[i].type = c.type}
           k == Min(I)
           r == addCommand(q, c)
<1>1. CASE I = {}
  <2>1. r = <<c>> \o q
    BY <1>1 DEF addCommand, Cons, RemoveFirstMatch
  <2> HIDE DEF r
  <2>2. /\ r \in Seq(S) /\ r[1] = c /\ Len(r) = Len(q) + 1
        /\ \A i \in 1..Len(q) : r[i + 1] = q[i]
    BY <2>1
  <2> QED
    BY <2>2, <1>1 DEF r, Added
<1>2. CASE I # {}
  <2>1. k \in I /\ \A i \in I : k <= i
    BY <1>2, FirstIndex, I \subseteq Nat
  <2>2. r = <<c>> \o (SubSeq(q, 1, k - 1) \o SubSeq(q, k + 1, Len(q)))
    BY <1>2 DEF addCommand, Cons, RemoveFirstMatch, RemoveAt, SelectInSeq
  <2> HIDE DEF k, r
  <2>3. k \in 1..Len(q) /\ q[k].type = c.type /\ \A i \in 1..(k - 1) : q[i].type # c.type
    BY <2>1
  <2>4. /\ r \in Seq(S) /\ r[1] = c /\ Len(r) = Len(q)
        /\ \A i \in 1..(k - 1) : r[i + 1] = q[i]
        /\ \A i \in (k + 1)..Len(q) : r[i] = q[i]
    <3> DEFINE a == SubSeq(q, 1, k - 1)
               b == SubSeq(q, k + 1, Len(q))
    <3>1. a \in Seq(S) /\ Len(a) = k - 1 /\ \A i \in 1..(k - 1) : a[i] = q[i]
      BY <2>3
    <3>2. /\ b \in Seq(S) /\ Len(b) = Len(q) - k
          /\ \A i \in 1..(Len(q) - k) : b[i] = q[k + i]
      BY <2>3
    <3> HIDE DEF a, b
    <3>3. r = <<c>> \o (a \o b)
      BY <2>2 DEF a, b
    <3>4. /\ a \o b \in Seq(S) /\ Len(a \o b) = Len(q) - 1
          /\ \A i \in 1..(k - 1) : (a \o b)[i] = q[i]
          /\ \A i \in k..(Len(q) - 1) : (a \o b)[i] = q[i + 1]
      <4>1. /\ a \o b \in Seq(S) /\ Len(a \o b) = Len(q) - 1
            /\ \A i \in 1..(Len(q) - 1) :
                  (a \o b)[i] = IF i <= k - 1 THEN a[i] ELSE b[i - (k - 1)]
        <5>1. /\ a \o b \in Seq(S) /\ Len(a \o b) = Len(a) + Len(b)
              /\ \A i \in 1..(Len(a) + Len(b)) :
                    (a \o b)[i] = IF i <= Len(a) THEN a[i] ELSE b[i - Len(a)]
          BY <3>1, <3>2, ConcatProperties, Zenon
        <5>2. Len(a) + Len(b) = Len(q) - 1 /\ Len(a) = k - 1
          BY <3>1, <3>2, <2>3
        <5> QED
          BY <5>1, <5>2
      <4>2. ASSUME NEW i \in k..(Len(q) - 1) PROVE (a \o b)[i] = q[i + 1]
        <5>1. i - (k - 1) \in 1..(Len(q) - k) /\ k + (i - (k - 1)) = i + 1 /\ ~(i <= k - 1)
          BY <2>3
        <5> QED
          BY <4>1, <5>1, <3>2, <2>3
      <4> QED
        BY <4>1, <4>2, <2>3, <3>1
    <3>5. /\ r \in Seq(S) /\ r[1] = c /\ Len(r) = Len(q)
          /\ \A i \in 1..(Len(q) - 1) : r[i + 1] = (a \o b)[i]
      BY <2>3, <3>3, <3>4
    <3>6. ASSUME NEW i \in (k + 1)..Len(q) PROVE r[i] = q[i]
      <4> DEFINE m == i - 1
      <4>1. m \in k..(Len(q) - 1) /\ m \in 1..(Len(q) - 1) /\ m + 1 = i
        BY <2>3
      <4> HIDE DEF m
      <4> QED
        BY <4>1, <3>4, <3>5
    <3>7. ASSUME NEW i \in 1..(k - 1) PROVE r[i + 1] = q[i]
      <4>1. i \in 1..(Len(q) - 1)
        BY <2>3
      <4> QED
        BY <4>1, <3>4, <3>5
    <3> QED
      BY <3>5, <3>6, <3>7
  <2> QED
    BY <2>3, <2>4 DEF r, Moved
<1> QED
  BY <1>1, <1>2

\* The members of a sequence are the values at its positions.
LEMMA Members ==
    ASSUME NEW S, NEW s \in Seq(S)
    PROVE  /\ \A x : x \in ToSet(s) <=> \E i \in 1..Len(s) : x = s[i]
           /\ ToSet(s) \subseteq S
BY DEF ToSet

\* The commands in the queue addCommand returns: nothing new but the command
\* itself, nothing lost but commands of its type, and one of its type for sure.
LEMMA AddCommandElements ==
    ASSUME NEW S, NEW q \in Seq(S), NEW c \in S
    PROVE  /\ addCommand(q, c) \in Seq(S)
           /\ ToSet(addCommand(q, c)) \subseteq ToSet(q) \cup {c}
           /\ \A x \in ToSet(q) : x.type # c.type => x \in ToSet(addCommand(q, c))
           /\ \E x \in ToSet(addCommand(q, c)) : x.type = c.type
<1>1. CASE q # <<>> /\ q[1].type = c.type
  <2>1. addCommand(q, c) = q
    BY <1>1, Zenon DEF addCommand
  <2> QED
    BY <1>1, <2>1, Members
<1>2. CASE ~(q # <<>> /\ q[1].type = c.type)
  <2> DEFINE r == addCommand(q, c)
  <2>0. r \in Seq(S) /\ r[1] = c /\ (Added(q, c, r) \/ Moved(q, c, r))
    BY <1>2, AddCommandShape, Zenon
  <2> HIDE DEF r
  <2>1. CASE Added(q, c, r)
    <3> USE <2>1 DEF Added
    <3>1. ASSUME NEW i \in 1..Len(r) PROVE r[i] \in ToSet(q) \cup {c}
      <4> DEFINE m == i - 1
      <4>1. i = 1 \/ (m \in 1..Len(q) /\ m + 1 = i)
        BY <2>1
      <4> HIDE DEF m
      <4> QED
        BY <4>1, <2>0, <2>1, Members
    <3>2. ASSUME NEW i \in 1..Len(q) PROVE q[i] \in ToSet(r)
      <4>1. i + 1 \in 1..Len(r) /\ r[i + 1] = q[i]
        BY <2>1
      <4> QED
        BY <4>1, <2>0, Members
    <3>3. c \in ToSet(r)
      BY <2>0, <2>1, Members
    <3> HIDE <2>1 DEF Added
    <3> QED
      BY <2>0, <3>1, <3>2, <3>3, Members DEF r
  <2>2. CASE Moved(q, c, r)
    <3>0. PICK k \in 1..Len(q) :
                /\ q[k].type = c.type
                /\ \A i \in 1..(k - 1) : q[i].type # c.type
                /\ Len(r) = Len(q)
                /\ \A i \in 1..(k - 1) : r[i + 1] = q[i]
                /\ \A i \in (k + 1)..Len(q) : r[i] = q[i]
      BY <2>2 DEF Moved
    <3>1. ASSUME NEW i \in 1..Len(r) PROVE r[i] \in ToSet(q) \cup {c}
      <4> DEFINE m == i - 1
      <4>1. \/ i = 1
            \/ m \in 1..(k - 1) /\ m \in 1..Len(q) /\ m + 1 = i
            \/ i \in (k + 1)..Len(q) /\ i \in 1..Len(q)
        BY <3>0
      <4> HIDE DEF m
      <4> QED
        BY <4>1, <2>0, <3>0, Members
    <3>2. ASSUME NEW i \in 1..Len(q), q[i].type # c.type PROVE q[i] \in ToSet(r)
      <4>1. \/ i \in 1..(k - 1) /\ i + 1 \in 1..Len(r)
            \/ i \in (k + 1)..Len(q) /\ i \in 1..Len(r)
        BY <3>0, <3>2
      <4> QED
        BY <4>1, <2>0, <3>0, Members
    <3>3. c \in ToSet(r)
      BY <2>0, <3>0, Members
    <3> QED
      BY <2>0, <3>1, <3>2, <3>3, Members DEF r
  <2> QED
    BY <2>0, <2>1, <2>2
<1> QED
  BY <1>1, <1>2

\* addCommand keeps the discipline of the queue: the command goes to the head,
\* the one of its type that may have been there before is gone.
LEMMA AddCommandDisciplined ==
    ASSUME NEW S, NEW q \in Seq(S), NEW c \in S,
           Disciplined(q), c.type # "SUBSCRIBE"
    PROVE  Disciplined(addCommand(q, c))
<1>1. CASE q # <<>> /\ q[1].type = c.type
  BY <1>1, Zenon DEF addCommand
<1>2. CASE ~(q # <<>> /\ q[1].type = c.type)
  <2> DEFINE r == addCommand(q, c)
  <2>0. r \in Seq(S) /\ r[1] = c /\ (Added(q, c, r) \/ Moved(q, c, r))
    BY <1>2, AddCommandShape, Zenon
  <2> HIDE DEF r
  <2>1. CASE Added(q, c, r)
    <3> USE <2>1 DEF Added
    <3>1. \A i \in 2..Len(r) : i - 1 \in 1..Len(q) /\ r[i] = q[i - 1] /\ r[i].type # c.type
      BY <2>1, <2>0
    <3>2. ASSUME NEW i \in 1..Len(r), NEW j \in 1..Len(r), i < j
          PROVE  /\ r[j].type # r[i].type \/ r[j].type = "SUBSCRIBE"
                 /\ r[i].type = "SUBSCRIBE" => r[j].type = "SUBSCRIBE"
      <4>1. CASE i = 1
        BY <4>1, <3>1, <3>2, <2>0
      <4>2. CASE i # 1
        <5>1. /\ i - 1 \in 1..Len(q) /\ j - 1 \in 1..Len(q) /\ i - 1 < j - 1
              /\ r[i] = q[i - 1] /\ r[j] = q[j - 1]
          BY <4>2, <3>1, <3>2
        <5> QED
          BY <5>1 DEF Disciplined
      <4> QED
        BY <4>1, <4>2
    <3>3. Disciplined(r)
      BY <3>2 DEF Disciplined
    <3> QED
      BY <3>3 DEF r
  <2>2. CASE Moved(q, c, r)
    <3>0. PICK k \in 1..Len(q) :
                /\ q[k].type = c.type
                /\ \A i \in 1..(k - 1) : q[i].type # c.type
                /\ Len(r) = Len(q)
                /\ \A i \in 1..(k - 1) : r[i + 1] = q[i]
                /\ \A i \in (k + 1)..Len(q) : r[i] = q[i]
      BY <2>2 DEF Moved
    <3>1. \A i \in 2..k : i - 1 \in 1..(k - 1) /\ r[i] = q[i - 1] /\ r[i].type # c.type
      BY <3>0
    <3>2. \A i \in (k + 1)..Len(q) : r[i] = q[i] /\ r[i].type # c.type
      BY <3>0 DEF Disciplined
    <3>3. ASSUME NEW i \in 1..Len(r), NEW j \in 1..Len(r), i < j
          PROVE  /\ r[j].type # r[i].type \/ r[j].type = "SUBSCRIBE"
                 /\ r[i].type = "SUBSCRIBE" => r[j].type = "SUBSCRIBE"
      <4>1. CASE i = 1
        BY <4>1, <3>0, <3>1, <3>2, <3>3, <2>0
      <4>2. CASE i # 1
        <5>1. PICK m \in 1..Len(q), n \in 1..Len(q) : m < n /\ r[i] = q[m] /\ r[j] = q[n]
          <6>1. CASE j <= k
            <7>1. i - 1 < j - 1 /\ i - 1 \in 1..Len(q) /\ j - 1 \in 1..Len(q)
                  /\ i \in 2..k /\ j \in 2..k
              BY <6>1, <4>2, <3>0, <3>3
            <7>2. r[i] = q[i - 1] /\ r[j] = q[j - 1]
              BY <7>1, <3>1
            <7> QED
              BY <7>1, <7>2
          <6>2. CASE i <= k /\ j > k
            <7>1. i - 1 < j /\ i - 1 \in 1..Len(q) /\ j \in 1..Len(q)
                  /\ i \in 2..k /\ j \in (k + 1)..Len(q)
              BY <6>2, <4>2, <3>0, <3>3
            <7>2. r[i] = q[i - 1] /\ r[j] = q[j]
              BY <7>1, <3>1, <3>2
            <7> QED
              BY <7>1, <7>2
          <6>3. CASE i > k
            <7>1. i \in (k + 1)..Len(q) /\ j \in (k + 1)..Len(q)
                  /\ i \in 1..Len(q) /\ j \in 1..Len(q)
              BY <6>3, <3>0, <3>3
            <7> QED
              BY <7>1, <3>2, <3>3
          <6> QED
            BY <6>1, <6>2, <6>3, <3>0
        <5> QED
          BY <5>1 DEF Disciplined
      <4> QED
        BY <4>1, <4>2
    <3>4. Disciplined(r)
      BY <3>3 DEF Disciplined
    <3> QED
      BY <3>4 DEF r
  <2> QED
    BY <2>0, <2>1, <2>2
<1> QED
  BY <1>1, <1>2

-----------------------------------------------------------------------------
(* The other operations on the command queue. *)

\* Taking the command at the head keeps the discipline.
LEMMA TailCommands ==
    ASSUME NEW S, NEW q \in Seq(S), q # <<>>
    PROVE  /\ Head(q) \in ToSet(q)
           /\ Tail(q) \in Seq(S)
           /\ ToSet(q) = ToSet(Tail(q)) \cup {Head(q)}
           /\ Disciplined(q) =>
                 /\ Disciplined(Tail(q))
                 /\ Head(q).type # "SUBSCRIBE" => \A x \in ToSet(Tail(q)) : x.type # Head(q).type
<1>1. /\ Head(q) = q[1] /\ Len(q) >= 1 /\ Tail(q) \in Seq(S) /\ Len(Tail(q)) = Len(q) - 1
      /\ \A i \in 1..(Len(q) - 1) : Tail(q)[i] = q[i + 1]
  OBVIOUS
<1>2. ASSUME NEW x \in ToSet(q) PROVE x = Head(q) \/ x \in ToSet(Tail(q))
  <2>1. PICK i \in 1..Len(q) : x = q[i]
    BY Members
  <2>2. i = 1 \/ (i - 1 \in 1..Len(Tail(q)) /\ Tail(q)[i - 1] = q[i])
    BY <1>1
  <2> QED
    BY <1>1, <2>1, <2>2, Members
<1>3. \A x : x \in ToSet(Tail(q)) <=> \E i \in 1..Len(Tail(q)) : x = Tail(q)[i]
  BY <1>1, Members, Zenon
<1>4. ToSet(Tail(q)) \subseteq ToSet(q) /\ Head(q) \in ToSet(q)
  <2>1. ASSUME NEW x \in ToSet(Tail(q)) PROVE x \in ToSet(q)
    <3>1. PICK i \in 1..Len(Tail(q)) : x = Tail(q)[i]
      BY <1>3
    <3>2. i + 1 \in 1..Len(q) /\ x = q[i + 1]
      BY <1>1, <3>1
    <3> QED
      BY <3>2, Members
  <2>2. Head(q) \in ToSet(q)
    BY <1>1, Members
  <2> QED
    BY <2>1, <2>2
<1>5. ASSUME Disciplined(q) PROVE Disciplined(Tail(q))
  BY <1>1, <1>5 DEF Disciplined
<1>6. ASSUME Disciplined(q), Head(q).type # "SUBSCRIBE", NEW x \in ToSet(Tail(q))
      PROVE  x.type # Head(q).type
  <2>1. PICK i \in 1..Len(Tail(q)) : x = Tail(q)[i]
    BY <1>3
  <2>2. 1 \in 1..Len(q) /\ i + 1 \in 1..Len(q) /\ 1 < i + 1 /\ x = q[i + 1]
    BY <1>1, <2>1
  <2> QED
    BY <1>1, <1>6, <2>2 DEF Disciplined
<1> QED
  BY <1>1, <1>2, <1>4, <1>5, <1>6

\* Appending a SUBSCRIBE keeps the discipline.
LEMMA AppendCommands ==
    ASSUME NEW S, NEW q \in Seq(S), NEW c \in S
    PROVE  /\ Append(q, c) \in Seq(S)
           /\ ToSet(Append(q, c)) = ToSet(q) \cup {c}
           /\ Disciplined(q) /\ c.type = "SUBSCRIBE" => Disciplined(Append(q, c))
<1> DEFINE r == Append(q, c)
<1>1. /\ r \in Seq(S) /\ Len(r) = Len(q) + 1 /\ r[Len(q) + 1] = c
      /\ \A i \in 1..Len(q) : r[i] = q[i]
  OBVIOUS
<1> HIDE DEF r
<1>2. ToSet(r) = ToSet(q) \cup {c}
  <2>1. \A i \in 1..Len(r) : i = Len(q) + 1 \/ i \in 1..Len(q)
    BY <1>1
  <2>2. ToSet(r) \subseteq ToSet(q) \cup {c}
    BY <1>1, <2>1, Members
  <2>3. ToSet(q) \subseteq ToSet(r) /\ c \in ToSet(r)
    BY <1>1, Members
  <2> QED
    BY <2>2, <2>3
<1>3. ASSUME Disciplined(q), c.type = "SUBSCRIBE" PROVE Disciplined(r)
  BY <1>1, <1>3 DEF Disciplined
<1> QED
  BY <1>1, <1>2, <1>3 DEF r

\* Taking a response out adds none.
LEMMA RemoveResponse ==
    ASSUME NEW S, responses \in Seq(S), NEW token
    PROVE  /\ removeResponse(token) \in Seq(S)
           /\ responses = <<>> => removeResponse(token) = <<>>
<1> DEFINE I == {i \in 1..Len(responses) : responses[i].token = token}
           k == Min(I)
<1>1. CASE I = {}
  BY <1>1 DEF removeResponse, RemoveFirstMatch
<1>2. CASE I # {}
  <2>1. k \in I
    BY <1>2, FirstIndex, I \subseteq Nat
  <2>2. removeResponse(token) = SubSeq(responses, 1, k - 1) \o SubSeq(responses, k + 1, Len(responses))
    BY <1>2 DEF removeResponse, RemoveFirstMatch, RemoveAt, SelectInSeq
  <2> HIDE DEF k
  <2>3. k \in 1..Len(responses)
    BY <2>1
  <2>4. /\ SubSeq(responses, 1, k - 1) \in Seq(S)
        /\ SubSeq(responses, k + 1, Len(responses)) \in Seq(S)
    BY <2>3
  <2>5. removeResponse(token) \in Seq(S)
    BY <2>2, <2>4, ConcatProperties, Zenon
  <2> QED
    BY <2>3, <2>5
<1> QED
  BY <1>1, <1>2

-----------------------------------------------------------------------------
(* Type correctness. *)

\* Every SUBSCRIBE in s has a topic.
Named(s) == \A x \in ToSet(s) : x.type = "SUBSCRIBE" => x.topic \in Filters

\* A queue of well-formed commands in the order addCommand keeps.
GoodQueue(q) == q \in Seq(CommandType) /\ Named(q) /\ Disciplined(q)

\* The types and the order of the queue, and that every SUBSCRIBE on its way
\* from the application to the broker has a topic.
TypeInv ==
    /\ GoodQueue(commands)
    /\ LinkTypeOK /\ Named(outb)
    /\ SessionTypeOK /\ CallTypeOK /\ RecvTypeOK /\ BudgetTypeOK
    /\ AppTypeOK /\ (app \in {"assign", "add"} => appTopic \in Filters)

\* The commands the client makes are well typed.
LEMMA CommandTypes ==
    /\ \A v \in {0, 3, 4}, b \in BOOLEAN :
          Connect(v, b) \in CommandType /\ Connect(v, b).type = "CONNECT"
    /\ Disconnect \in CommandType /\ Disconnect.type = "DISCONNECT"
    /\ \A t \in Filters \cup {NoTopic}, k \in 0..MaxMsgId :
          /\ Subscribe(t, k) \in CommandType
          /\ Subscribe(t, k).type = "SUBSCRIBE" /\ Subscribe(t, k).topic = t
BY ClientAssumption DEF Connect, Disconnect, Subscribe, Command, CommandType

\* So are the packets, whatever their fields.
LEMMA PacketTypes ==
    \A t \in Filters \cup {NoTopic}, k \in 0..MaxMsgId :
        /\ \A type \in {"CONNECT", "SUBSCRIBE", "PINGREQ"} : Packet(type, t, k) \in OutPacket
        /\ \A type \in {"CONNACK", "SUBACK", "PINGRESP", "PUBLISH"} : Packet(type, t, k) \in InPacket
        /\ NoPacket \in AckPacket
        /\ \A type : /\ Packet(type, t, k).type = type
                      /\ Packet(type, t, k).topic = t
                      /\ Packet(type, t, k).id = k
BY ClientAssumption DEF Packet, PacketType, OutPacket, InPacket, AckPacket, NoPacket

\* So are the ids of packets that have none.
LEMMA SmallIds == 0 \in 0..MaxMsgId /\ 1 \in 0..MaxMsgId
BY ClientAssumption

\* The packets without a topic or an id.
LEMMA PlainPackets ==
    /\ \A type \in {"CONNECT", "PINGREQ"} :
          /\ Packet(type, NoTopic, 0) \in OutPacket
          /\ Packet(type, NoTopic, 0).type = type
    /\ Packet("PINGRESP", NoTopic, 0) \in InPacket
    /\ \A k \in {0, 1} : Packet("CONNACK", NoTopic, k) \in InPacket
    /\ \A t \in Filters : Packet("PUBLISH", t, 0) \in InPacket
BY SmallIds DEF Packet, PacketType, OutPacket, InPacket

\* So are empty queues.
LEMMA EmptyTyped ==
    <<>> \in Seq(CommandType) /\ <<>> \in Seq(OutPacket) /\ <<>> \in Seq(InPacket) /\ Named(<<>>)
<1>1. Named(<<>>)
  BY DEF Named, ToSet
<1> QED
  BY <1>1, EmptySeq, Zenon

\* What the client does to the queue keeps it good.
LEMMA GoodQueueKept ==
    ASSUME NEW q, GoodQueue(q)
    PROVE  /\ \A v \in {0, 3, 4}, b \in BOOLEAN : GoodQueue(addCommand(q, Connect(v, b)))
           /\ GoodQueue(addCommand(q, Disconnect))
           /\ \A t \in Filters, k \in 0..MaxMsgId : GoodQueue(Append(q, Subscribe(t, k)))
           /\ q # <<>> => /\ GoodQueue(Tail(q)) /\ Head(q) \in CommandType
                          /\ Head(q).type = "SUBSCRIBE" => Head(q).topic \in Filters
<1>1. ASSUME NEW c \in CommandType, c.type # "SUBSCRIBE" PROVE GoodQueue(addCommand(q, c))
  <2>1. /\ addCommand(q, c) \in Seq(CommandType)
        /\ ToSet(addCommand(q, c)) \subseteq ToSet(q) \cup {c}
    BY AddCommandElements, Zenon DEF GoodQueue
  <2>2. Disciplined(addCommand(q, c))
    BY <1>1, AddCommandDisciplined, Zenon DEF GoodQueue
  <2> QED
    BY <1>1, <2>1, <2>2 DEF GoodQueue, Named
<1>2. ASSUME NEW c \in CommandType, c.type = "SUBSCRIBE", c.topic \in Filters
      PROVE  GoodQueue(Append(q, c))
  <2>1. /\ Append(q, c) \in Seq(CommandType) /\ Disciplined(Append(q, c))
        /\ ToSet(Append(q, c)) = ToSet(q) \cup {c}
    BY <1>2, AppendCommands DEF GoodQueue
  <2> QED
    BY <1>2, <2>1 DEF GoodQueue, Named
<1>3. ASSUME q # <<>> PROVE /\ GoodQueue(Tail(q)) /\ Head(q) \in CommandType
                            /\ Head(q).type = "SUBSCRIBE" => Head(q).topic \in Filters
  <2>1. /\ Tail(q) \in Seq(CommandType) /\ Disciplined(Tail(q))
        /\ Head(q) \in ToSet(q) /\ ToSet(q) = ToSet(Tail(q)) \cup {Head(q)}
    BY <1>3, TailCommands, Zenon DEF GoodQueue
  <2>2. Head(q) \in CommandType
    BY <1>3 DEF GoodQueue
  <2> QED
    BY <2>1, <2>2 DEF GoodQueue, Named
<1> QED
  BY <1>1, <1>2, <1>3, CommandTypes

\* So do the packets written.
LEMMA OutboxKept ==
    ASSUME NEW s \in Seq(OutPacket), Named(s)
    PROVE  /\ \A p \in OutPacket : p.type # "SUBSCRIBE" \/ p.topic \in Filters =>
                 Append(s, p) \in Seq(OutPacket) /\ Named(Append(s, p))
           /\ s # <<>> =>
                 /\ Tail(s) \in Seq(OutPacket) /\ Named(Tail(s))
                 /\ Head(s) \in OutPacket
                 /\ Head(s).type = "SUBSCRIBE" => Head(s).topic \in Filters
<1>1. ASSUME NEW p \in OutPacket, p.type # "SUBSCRIBE" \/ p.topic \in Filters
      PROVE  Append(s, p) \in Seq(OutPacket) /\ Named(Append(s, p))
  <2>1. Append(s, p) \in Seq(OutPacket) /\ ToSet(Append(s, p)) = ToSet(s) \cup {p}
    BY AppendCommands
  <2> QED
    BY <1>1, <2>1 DEF Named
<1>2. ASSUME s # <<>>
      PROVE  /\ Tail(s) \in Seq(OutPacket) /\ Named(Tail(s))
             /\ Head(s) \in OutPacket
             /\ Head(s).type = "SUBSCRIBE" => Head(s).topic \in Filters
  <2>1. /\ Tail(s) \in Seq(OutPacket) /\ Head(s) \in ToSet(s)
        /\ ToSet(s) = ToSet(Tail(s)) \cup {Head(s)}
    BY <1>2, TailCommands
  <2>2. Head(s) \in OutPacket
    BY <1>2
  <2> QED
    BY <2>1, <2>2 DEF Named
<1> QED
  BY <1>1, <1>2

\* A session that is cleaned up is well typed.
LEMMA CleanSessionTyped == cleanSession => SessionTypeOK'
BY SmallIds, EmptyTyped, Zenon DEF cleanSession, SessionTypeOK

\* Giving an attempt up keeps the types.
LEMMA NextOrCloseTyped ==
    ASSUME TypeInv, NEW q, GoodQueue(q), nextOrClose(q)
    PROVE  /\ GoodQueue(commands') /\ LinkTypeOK' /\ SessionTypeOK' /\ Named(outb')
           /\ callback' = callback \/ callback' = Callback("closed")
<1>1. GoodQueue(addCommand(q, Connect(4, TRUE)))
  BY GoodQueueKept
<1>2. closeOnly => LinkTypeOK' /\ Named(outb')
  BY EmptyTyped DEF closeOnly, LinkTypeOK, ConnStates
<1>3. UNCHANGED sessionVars \/ cleanSession => SessionTypeOK'
  BY CleanSessionTyped DEF SessionTypeOK, sessionVars, TypeInv
<1> QED
  BY <1>1, <1>2, <1>3 DEF nextOrClose, closeSession

\* So does the keepalive.
LEMMA RetryTyped ==
    ASSUME TypeInv, NEW ping \in BOOLEAN, retry(ping) \/ keepaliveDue(ping)
    PROVE  /\ GoodQueue(commands') /\ pingOut' \in BOOLEAN
           /\ outb' \in Seq(OutPacket) /\ Named(outb')
<1>1. GoodQueue(commands) /\ GoodQueue(addCommand(commands, Disconnect))
  BY GoodQueueKept DEF TypeInv
<1> DEFINE ping1 == Packet("PINGREQ", NoTopic, 0)
<1>2. ping1 \in OutPacket /\ ping1.type = "PINGREQ"
  BY PlainPackets, Zenon
<1> HIDE DEF ping1
<1>3. /\ Append(outb, ping1) \in Seq(OutPacket)
      /\ Named(Append(outb, ping1))
  BY <1>2, OutboxKept DEF TypeInv, LinkTypeOK
<1> QED
  BY <1>1, <1>3 DEF retry, keepaliveDue, TypeInv, LinkTypeOK, ping1

\* The callbacks the client runs are well typed.
LEMMA CallbackTypes ==
    /\ NoCallback \in CallbackType
    /\ \A why \in {"connectFailed", "cancel", "lost", "closed", "message"} :
          Callback(why) \in CallbackType /\ Callback(why).why = why
    /\ \A v \in {0, 3, 4}, b \in BOOLEAN :
          [Callback("connectFailed") EXCEPT !.ver = v, !.timed = b] \in CallbackType
    /\ \A t \in Filters \cup {NoTopic} : [Callback("message") EXCEPT !.topic = t] \in CallbackType
BY DEF NoCallback, Callback, CallbackType

\* Whatever is left alone stays well typed.
LEMMA Frames ==
    ASSUME TypeInv
    PROVE  /\ UNCHANGED commands => GoodQueue(commands')
           /\ UNCHANGED linkVars => LinkTypeOK' /\ Named(outb')
           /\ UNCHANGED outb => outb' \in Seq(OutPacket) /\ Named(outb')
           /\ UNCHANGED sessionVars => SessionTypeOK'
           /\ UNCHANGED <<connect, callback>> => CallTypeOK'
           /\ UNCHANGED recvThreadVars => RecvTypeOK'
           /\ UNCHANGED budgetVars => BudgetTypeOK'
           /\ UNCHANGED appVars => AppTypeOK' /\ (app' \in {"assign", "add"} => appTopic' \in Filters)
BY DEF TypeInv, GoodQueue, Named, LinkTypeOK, SessionTypeOK, CallTypeOK, RecvTypeOK, BudgetTypeOK,
       AppTypeOK, linkVars, sessionVars, recvThreadVars, budgetVars, appVars

\* The steps of the send thread keep the types.
LEMMA SendThreadTyped ==
    ASSUME TypeInv, processCommand \/ checkTimeouts
    PROVE  TypeInv'
<1>1. commands # <<>> => /\ GoodQueue(Tail(commands)) /\ Head(commands) \in CommandType
                         /\ Head(commands).type = "SUBSCRIBE" => Head(commands).topic \in Filters
  BY GoodQueueKept, Zenon DEF TypeInv
<1> USE Frames
<1>2. commands # <<>> => /\ GoodQueue(addCommand(Tail(commands), Connect(4, TRUE)))
                         /\ GoodQueue(addCommand(Tail(commands), Disconnect))
  BY <1>1, GoodQueueKept
<1>3. commands # <<>> => /\ Head(commands).ver \in {0, 3, 4} /\ Head(commands).timed \in BOOLEAN
                         /\ Head(commands).token \in 0..MaxMsgId
                         /\ nextVersion(Head(commands).ver) \in {3, 4}
  BY <1>1 DEF CommandType, nextVersion
<1>4. ASSUME NEW fd \in Fds, processConnect(fd) PROVE TypeInv'
  <2> DEFINE pack == Packet("CONNECT", NoTopic, 0)
  <2>1. pack \in OutPacket /\ pack.type = "CONNECT"
    BY PlainPackets, Zenon
  <2> HIDE DEF pack
  <2>2. <<pack>> \in Seq(OutPacket) /\ Named(<<pack>>)
    BY <2>1 DEF Named, ToSet
  <2>3. CallTypeOK'
    BY <1>3, <1>4, SMTT(60), ZenonT(60) DEF processConnect, headIs, startConnect, TypeInv, CallTypeOK
  <2>4. outb' \in Seq(OutPacket) /\ Named(outb')
    BY <1>4, <2>2 DEF processConnect, startConnect, linkVars, pack
  <2>5. LinkTypeOK'
    BY <1>4, <2>4 DEF processConnect, startConnect, TypeInv, LinkTypeOK, linkVars, ConnStates
  <2> QED
    BY <1>1, <1>4, <2>3, <2>4, <2>5 DEF processConnect, headIs, TypeInv
<1>5. ASSUME processConnectFail PROVE TypeInv'
  <2>1. CallTypeOK'
    BY <1>3, <1>5, CallbackTypes DEF processConnectFail, headIs, TypeInv, CallTypeOK
  <2>2. BudgetTypeOK'
    BY <1>5, ClientAssumption DEF processConnectFail, TypeInv, BudgetTypeOK
  <2> QED
    BY <1>1, <1>2, <1>5, <2>1, <2>2 DEF processConnectFail, headIs, TypeInv
<1>6. ASSUME processSubscribe PROVE TypeInv'
  <2> DEFINE pack == Packet("SUBSCRIBE", Head(commands).topic, Head(commands).token)
  <2>1. Head(commands).topic \in Filters
    BY <1>1, <1>6 DEF processSubscribe, headIs
  <2>2. pack \in OutPacket /\ pack.topic \in Filters
    BY <1>3, <1>6, <2>1, PacketTypes DEF processSubscribe, headIs
  <2> HIDE DEF pack
  <2>3. outb' \in Seq(OutPacket) /\ Named(outb')
    BY <1>6, <2>2, OutboxKept DEF processSubscribe, TypeInv, LinkTypeOK, pack
  <2>4. LinkTypeOK'
    BY <1>6, <2>3 DEF processSubscribe, TypeInv, LinkTypeOK
  <2>5. SessionTypeOK'
    BY <1>1, <1>6 DEF processSubscribe, headIs, TypeInv, SessionTypeOK
  <2> QED
    BY <1>1, <1>6, <2>3, <2>4, <2>5 DEF processSubscribe, headIs, TypeInv
<1>7. ASSUME processSubscribeError PROVE TypeInv'
  BY <1>2, <1>7 DEF processSubscribeError, headIs, TypeInv
<1>8. ASSUME processDisconnect PROVE TypeInv'
  <2>1. LinkTypeOK' /\ Named(outb')
    BY <1>8, EmptyTyped DEF processDisconnect, closeSession, closeOnly, TypeInv, LinkTypeOK, ConnStates
  <2>2. SessionTypeOK'
    BY <1>8, CleanSessionTyped DEF processDisconnect, closeSession
  <2>3. CallTypeOK'
    BY <1>8, CallbackTypes DEF processDisconnect, TypeInv, CallTypeOK
  <2> QED
    BY <1>1, <1>8, <2>1, <2>2, <2>3 DEF processDisconnect, headIs, TypeInv
<1>9. ASSUME checkTimeouts PROVE TypeInv'
  <2>1. /\ GoodQueue(commands') /\ LinkTypeOK' /\ SessionTypeOK' /\ Named(outb')
        /\ callback' = callback \/ callback' = Callback("closed")
    BY <1>9, NextOrCloseTyped DEF checkTimeouts, TypeInv
  <2>2. CallTypeOK'
    BY <1>9, <2>1, CallbackTypes DEF checkTimeouts, TypeInv, CallTypeOK
  <2> QED
    BY <1>9, <2>1, <2>2 DEF checkTimeouts, TypeInv
<1> QED
  BY <1>4, <1>5, <1>6, <1>7, <1>8, <1>9 DEF processCommand

\* Reading and handling packets keeps the types.
LEMMA ReceiveThreadTyped ==
    ASSUME TypeInv,
           select \/ cycleIdle \/ cycleSocket \/ handleResult \/ cyclePublish \/ messageDone
    PROVE  TypeInv'
<1> USE Frames
<1>1. ASSUME NEW rc \in {"OK", "ERRNO", "SOCKET_ERROR"}, NEW pack \in AckPacket, cycleResult(rc, pack)
      PROVE  RecvTypeOK' /\ UNCHANGED <<connect, appVars, budgetVars>>
  BY <1>1 DEF cycleResult, TypeInv, RecvTypeOK
<1>2. NoPacket \in AckPacket
  BY SmallIds DEF NoPacket, Packet, AckPacket, PacketType
<1>3. ASSUME handling PROVE RecvTypeOK' /\ UNCHANGED <<connect, appVars, budgetVars>>
  BY <1>2, <1>3 DEF handling, RecvTypeOK
<1>4. inb # <<>> => /\ Tail(inb) \in Seq(InPacket)
                    /\ Head(inb).topic \in Filters \cup {NoTopic}
                    /\ Head(inb).type \in {"CONNACK", "SUBACK"} => Head(inb) \in AckPacket
  <2>1. inb # <<>> => Tail(inb) \in Seq(InPacket) /\ Head(inb) \in InPacket
    BY DEF TypeInv, LinkTypeOK
  <2> QED
    BY <2>1 DEF InPacket, AckPacket, PacketType
<1>5. ASSUME NEW ping \in BOOLEAN, retry(ping) \/ keepaliveDue(ping)
      PROVE  /\ GoodQueue(commands') /\ pingOut' \in BOOLEAN
             /\ outb' \in Seq(OutPacket) /\ Named(outb')
  BY <1>5, RetryTyped
<1>6. ASSUME NEW q, GoodQueue(q), nextOrClose(q), UNCHANGED connect
      PROVE  GoodQueue(commands') /\ LinkTypeOK' /\ SessionTypeOK' /\ Named(outb') /\ CallTypeOK'
  BY <1>6, NextOrCloseTyped, CallbackTypes DEF TypeInv, CallTypeOK
<1>7. pingOut \in BOOLEAN
  BY DEF TypeInv, LinkTypeOK
<1> HIDE DEF cycleResult
<1>8. ASSUME select PROVE TypeInv'
  BY <1>8 DEF select, TypeInv, RecvTypeOK, LinkTypeOK
<1>9. ASSUME cycleIdle PROVE TypeInv'
  BY <1>5, <1>7, <1>9 DEF cycleIdle, TypeInv, LinkTypeOK
<1>10. ASSUME cycleNoClient PROVE TypeInv'
  BY <1>1, <1>2, <1>5, <1>7, <1>10 DEF cycleNoClient, TypeInv, LinkTypeOK
<1>11. ASSUME cycleConnecting PROVE TypeInv'
  <2> DEFINE pack == Packet("CONNECT", NoTopic, 0)
  <2>1. pack \in OutPacket /\ pack.type = "CONNECT"
    BY PlainPackets, Zenon
  <2> HIDE DEF pack
  <2>2. outb' \in Seq(OutPacket) /\ Named(outb')
    BY <1>11, <2>1, OutboxKept DEF cycleConnecting, TypeInv, LinkTypeOK, pack
  <2> QED
    BY <1>1, <1>2, <1>11, <2>2 DEF cycleConnecting, TypeInv, LinkTypeOK, ConnStates
<1>12. ASSUME cycleConnectError PROVE TypeInv'
  <2>1. RecvTypeOK' /\ UNCHANGED <<connect, appVars, budgetVars>>
    BY <1>1, <1>2, <1>12 DEF cycleConnectError
  <2> QED
    BY <1>6, <1>12, <2>1 DEF cycleConnectError, TypeInv
<1>13. ASSUME cyclePingresp PROVE TypeInv'
  <2>1. RecvTypeOK' /\ UNCHANGED <<connect, appVars, budgetVars>>
    BY <1>1, <1>2, <1>13 DEF cyclePingresp
  <2> QED
    BY <1>4, <1>5, <1>13, <2>1 DEF cyclePingresp, reading, TypeInv, LinkTypeOK
<1>14. ASSUME cycleAck PROVE TypeInv'
  <2>1. RecvTypeOK' /\ UNCHANGED <<connect, appVars, budgetVars>>
    BY <1>1, <1>4, <1>14 DEF cycleAck, reading
  <2> QED
    BY <1>4, <1>5, <1>7, <1>14, <2>1 DEF cycleAck, reading, TypeInv, LinkTypeOK
<1>15. ASSUME cycleNothing PROVE TypeInv'
  BY <1>1, <1>2, <1>5, <1>7, <1>15 DEF cycleNothing, TypeInv, LinkTypeOK
<1>16. ASSUME cycleReadError PROVE TypeInv'
  <2>1. RecvTypeOK' /\ UNCHANGED <<connect, appVars, budgetVars>>
    BY <1>1, <1>2, <1>16 DEF cycleReadError
  <2>2. CASE nextOrClose(commands)
    BY <1>6, <1>16, <2>1, <2>2 DEF TypeInv
  <2>3. CASE retry(pingOut) /\ rfresh' = TRUE /\ UNCHANGED <<callback, connState, connected, sock,
                tcp, inb, accepted, subs, sessionVars>>
    BY <1>5, <1>7, <1>16, <2>1, <2>3 DEF TypeInv, LinkTypeOK
  <2> QED
    BY <1>16, <2>2, <2>3 DEF cycleReadError
<1>17. ASSUME cyclePublish PROVE TypeInv'
  <2>1. RecvTypeOK' /\ UNCHANGED <<connect, appVars, budgetVars>>
    BY <1>1, <1>2, <1>17 DEF cyclePublish
  <2>2. callback' \in CallbackType
    BY <1>4, <1>17, CallbackTypes DEF cyclePublish, reading
  <2> QED
    BY <1>4, <1>17, <2>1, <2>2 DEF cyclePublish, reading, TypeInv, LinkTypeOK, CallTypeOK
<1>18. ASSUME messageDone PROVE TypeInv'
  BY <1>5, <1>7, <1>18, CallbackTypes, ZenonT(60) DEF messageDone, TypeInv, LinkTypeOK, CallTypeOK
<1>19. ASSUME handleNothing PROVE TypeInv'
  BY <1>3, <1>19 DEF handleNothing, TypeInv
<1>20. ASSUME handleError PROVE TypeInv'
  <2>1. GoodQueue(IF connected THEN addCommand(commands, Disconnect) ELSE commands)
    BY GoodQueueKept DEF TypeInv
  <2> QED
    BY <1>3, <1>6, <1>20, <2>1 DEF handleError, TypeInv
<1>21. ASSUME handleConnack PROVE TypeInv'
  <2>1. CASE cleanSession /\ connected' = TRUE /\ connState' = "NOT_IN_PROGRESS" /\
             UNCHANGED <<commands, callback, sock, pingOut, rfresh, tcp, outb, inb, accepted, subs>>
    <3>1. LinkTypeOK'
      BY <2>1 DEF TypeInv, LinkTypeOK, ConnStates
    <3> QED
      BY <1>3, <1>21, <2>1, <3>1, CleanSessionTyped DEF handleConnack, TypeInv
  <2>2. CASE nextOrClose(commands)
    BY <1>3, <1>6, <1>21, <2>2 DEF handleConnack, TypeInv
  <2> QED
    BY <1>21, <2>1, <2>2 DEF handleConnack
<1>22. ASSUME handleSuback PROVE TypeInv'
  <2>1. SessionTypeOK'
    <3>1. removeResponse(rpack.id) \in Seq(CommandType)
      BY RemoveResponse, Zenon DEF TypeInv, SessionTypeOK
    <3> QED
      BY <1>22, <3>1 DEF handleSuback, TypeInv, SessionTypeOK
  <2> QED
    BY <1>3, <1>22, <2>1 DEF handleSuback, TypeInv
<1> QED
  BY <1>8, <1>9, <1>10, <1>11, <1>12, <1>13, <1>14, <1>15, <1>16, <1>17, <1>18, <1>19, <1>20,
     <1>21, <1>22 DEF cycleSocket, handleResult

\* The network and the broker keep the types.
LEMMA NetworkTyped ==
    ASSUME TypeInv, network
    PROVE  TypeInv'
<1> USE Frames
<1>1. outb # <<>> => /\ Tail(outb) \in Seq(OutPacket) /\ Named(Tail(outb))
                     /\ Head(outb).id \in 0..MaxMsgId
                     /\ Head(outb).type = "SUBSCRIBE" => Head(outb).topic \in Filters
  <2>1. outb # <<>> => /\ Tail(outb) \in Seq(OutPacket) /\ Named(Tail(outb))
                       /\ Head(outb) \in OutPacket
                       /\ Head(outb).type = "SUBSCRIBE" => Head(outb).topic \in Filters
    BY OutboxKept, Zenon DEF TypeInv, LinkTypeOK
  <2> QED
    BY <2>1 DEF OutPacket, PacketType
<1>2. ASSUME NEW p \in InPacket PROVE Append(inb, p) \in Seq(InPacket)
  BY DEF TypeInv, LinkTypeOK
<1>3. ASSUME netUnchanged
      PROVE  /\ GoodQueue(commands') /\ SessionTypeOK' /\ CallTypeOK' /\ RecvTypeOK'
             /\ AppTypeOK' /\ (app' \in {"assign", "add"} => appTopic' \in Filters)
             /\ connState' \in ConnStates /\ connected' \in BOOLEAN /\ sock' \in Fds \cup {0}
             /\ pingOut' \in BOOLEAN /\ rfresh' \in BOOLEAN
  BY <1>3 DEF netUnchanged, TypeInv, LinkTypeOK
<1>4. ASSUME tcpUp PROVE TypeInv'
  BY <1>3, <1>4 DEF tcpUp, TypeInv, LinkTypeOK
<1>5. ASSUME tcpFail PROVE TypeInv'
  <2>1. BudgetTypeOK'
    BY <1>5, ClientAssumption DEF tcpFail, fault, TypeInv, BudgetTypeOK
  <2> QED
    BY <1>3, <1>5, <2>1, EmptyTyped DEF tcpFail, TypeInv, LinkTypeOK
<1>6. ASSUME brokerConnect PROVE TypeInv'
  <2>1. inb' \in Seq(InPacket)
    BY <1>2, <1>6, PlainPackets DEF brokerConnect
  <2>2. BudgetTypeOK'
    BY <1>6, ClientAssumption DEF brokerConnect, fault, TypeInv, BudgetTypeOK
  <2> QED
    BY <1>1, <1>3, <1>6, <2>1, <2>2 DEF brokerConnect, brokerReads, TypeInv, LinkTypeOK
<1>7. ASSUME brokerSubscribe PROVE TypeInv'
  <2>1. Packet("SUBACK", NoTopic, Head(outb).id) \in InPacket
    BY <1>1, <1>7 DEF brokerSubscribe, brokerReads, Packet, InPacket, PacketType
  <2> QED
    BY <1>1, <1>2, <1>3, <1>7, <2>1 DEF brokerSubscribe, brokerReads, TypeInv, LinkTypeOK
<1>8. ASSUME brokerPing PROVE TypeInv'
  BY <1>1, <1>2, <1>3, <1>8, PlainPackets DEF brokerPing, brokerReads, TypeInv, LinkTypeOK
<1>9. ASSUME brokerPublish PROVE TypeInv'
  <2>1. inb' \in Seq(InPacket)
    BY <1>2, <1>9, PlainPackets DEF brokerPublish, TypeInv, LinkTypeOK
  <2>2. BudgetTypeOK'
    BY <1>9, ClientAssumption DEF brokerPublish, TypeInv, BudgetTypeOK
  <2> QED
    BY <1>3, <1>9, <2>1, <2>2 DEF brokerPublish, TypeInv, LinkTypeOK
<1> QED
  BY <1>4, <1>5, <1>6, <1>7, <1>8, <1>9 DEF network

\* So do the application's calls and its callbacks.
LEMMA ApplicationTyped ==
    ASSUME TypeInv, reconnected \/ appConnect \/ callSubscribe \/ assignMsgId \/ subscribeAdd
    PROVE  TypeInv'
<1>1. /\ \A b \in BOOLEAN : GoodQueue(addCommand(commands, Connect(0, b)))
      /\ \A t \in Filters, k \in 0..MaxMsgId : GoodQueue(Append(commands, Subscribe(t, k)))
  BY GoodQueueKept DEF TypeInv
<1> USE Frames
<1>2. ASSUME reconnected PROVE TypeInv'
  <2>1. GoodQueue(commands')
    BY <1>1, <1>2 DEF reconnected
  <2>2. CallTypeOK'
    BY <1>2, CallbackTypes DEF reconnected, TypeInv, CallTypeOK, CallbackType
  <2>3. LinkTypeOK' /\ Named(outb')
    BY <1>2, EmptyTyped DEF reconnected, closeSession, closeOnly, LinkTypeOK, ConnStates
  <2>4. SessionTypeOK'
    BY <1>2, CleanSessionTyped DEF reconnected, closeSession
  <2> QED
    BY <1>2, <2>1, <2>2, <2>3, <2>4 DEF reconnected, TypeInv
<1>3. ASSUME appConnect PROVE TypeInv'
  BY <1>1, <1>3 DEF appConnect, TypeInv, AppTypeOK
<1>4. ASSUME callSubscribe PROVE TypeInv'
  <2> PICK t \in Filters : subscribeMany(t)
    BY <1>4 DEF callSubscribe
  <2> QED
    BY DEF subscribeMany, TypeInv, AppTypeOK
<1>5. ASSUME assignMsgId PROVE TypeInv'
  <2>1. PICK k \in 1..MaxMsgId : msgID' = k /\ appToken' = k
    BY <1>5 DEF assignMsgId
  <2>2. /\ app = "assign" /\ app' = "add"
        /\ UNCHANGED <<commands, connect, callback, linkVars, responses, recvThreadVars, appTopic, budgetVars>>
    BY <1>5, Zenon DEF assignMsgId
  <2>3. SessionTypeOK' /\ AppTypeOK'
    BY <2>1, <2>2, ClientAssumption DEF TypeInv, SessionTypeOK, AppTypeOK
  <2> QED
    BY <2>2, <2>3 DEF TypeInv, LinkTypeOK, CallTypeOK, RecvTypeOK, BudgetTypeOK, linkVars, recvThreadVars, budgetVars
<1>6. ASSUME subscribeAdd PROVE TypeInv'
  <2>1. GoodQueue(commands')
    BY <1>1, <1>6 DEF subscribeAdd, appendCommand, TypeInv, AppTypeOK
  <2> QED
    BY <1>6, <2>1, SmallIds DEF subscribeAdd, TypeInv, AppTypeOK
<1> QED
  BY <1>2, <1>3, <1>4, <1>5, <1>6

\* The initial state is well typed.
LEMMA InitTyped == ClientInit => TypeInv
<1> SUFFICES ASSUME ClientInit PROVE TypeInv
  OBVIOUS
<1>1. GoodQueue(commands) /\ Named(outb)
  BY EmptyTyped DEF ClientInit, GoodQueue, Disciplined
<1>2. LinkTypeOK /\ SessionTypeOK
  BY EmptyTyped, SmallIds DEF ClientInit, LinkTypeOK, SessionTypeOK, ConnStates
<1>3. CallTypeOK
  BY CallbackTypes DEF ClientInit, CallTypeOK
<1>4. RecvTypeOK
  BY SmallIds DEF ClientInit, RecvTypeOK, NoPacket, Packet, AckPacket, PacketType
<1>5. AppTypeOK /\ BudgetTypeOK
  BY SmallIds, ClientAssumption DEF ClientInit, AppTypeOK, BudgetTypeOK
<1> QED
  BY <1>1, <1>2, <1>3, <1>4, <1>5 DEF ClientInit, TypeInv

\* The client's state stays well typed: message ids stay within
\* MAX_MSG_ID, and every SUBSCRIBE sent has a topic.
LEMMA LibraryTyped == TypeInv /\ (libraryStep \/ cyclePublish \/ messageDone) => TypeInv'
BY SendThreadTyped, ReceiveThreadTyped, NetworkTyped, ApplicationTyped DEF libraryStep

\* And so do the steps of the application.
LEMMA TypesStep == TypeInv /\ [ClientNext]_clientVars => TypeInv'
<1> SUFFICES ASSUME TypeInv, [ClientNext]_clientVars PROVE TypeInv'
  OBVIOUS
<1>1. CASE UNCHANGED clientVars
  BY <1>1, Frames DEF clientVars, TypeInv
<1>2. CASE ClientNext
  BY <1>2, LibraryTyped, ApplicationTyped DEF ClientNext
<1> QED
  BY <1>1, <1>2

\* And so it is in every state.
THEOREM TypesInvariant == ClientSpec => []TypeInv
BY TypesStep, InitTyped, PTL DEF ClientSpec

\* The state the program works with always has its type: see ClientTypeOK.
THEOREM TypeCorrect == ClientSpec => []ClientTypeOK
<1>1. TypeInv => ClientTypeOK
  BY DEF TypeInv, ClientTypeOK, GoodQueue
<1> QED
  BY <1>1, TypesInvariant, PTL

\* MQTTAsync_addCommand and its callers never leave two CONNECTs or two
\* DISCONNECTs in the queue, nor either of them behind a SUBSCRIBE.
THEOREM QueueDisciplineHolds == ClientSpec => []QueueDiscipline
<1>1. TypeInv => QueueDiscipline
  BY DEF TypeInv, GoodQueue, QueueDiscipline
<1> QED
  BY <1>1, TypesInvariant, PTL

-----------------------------------------------------------------------------
(***************************************************************************)
(* The client always comes back: the fields that say where the connection  *)
(* stands agree, no CONNECT is ever dropped, and one is always queued or   *)
(* about to be while there is no connection.                               *)
(***************************************************************************)

\* The state before the application has called the library.
Untouched ==
    /\ commands = <<>> /\ idleClient /\ callback = NoCallback
    /\ rpc = "select" /\ tcp = "none" /\ inb = <<>>

\* The three invariants together are inductive, with what they need to know of
\* the callbacks that are about to queue a CONNECT and of the start.
ReconnectInv ==
    /\ ConnectionFields
    /\ HasConnect(commands) => idleClient
    /\ callback.why \in {"connectFailed", "lost", "closed"} => idleClient
    /\ app = "start" => Untouched
    /\ NeverGivesUp

\* What the operations on the queue do to the CONNECT in it.
LEMMA ConnectInQueue ==
    ASSUME NEW q, GoodQueue(q)
    PROVE  /\ \A v \in {0, 3, 4}, b \in BOOLEAN : HasConnect(addCommand(q, Connect(v, b)))
           /\ HasConnect(addCommand(q, Disconnect)) => HasConnect(q)
           /\ \A t \in Filters, k \in 0..MaxMsgId :
                 HasConnect(Append(q, Subscribe(t, k))) <=> HasConnect(q)
           /\ q # <<>> /\ Head(q).type = "CONNECT" => HasConnect(q) /\ ~HasConnect(Tail(q))
           /\ q # <<>> /\ Head(q).type # "CONNECT" => (HasConnect(Tail(q)) <=> HasConnect(q))
<1>1. ASSUME NEW c \in CommandType
      PROVE  /\ c.type = "CONNECT" => HasConnect(addCommand(q, c))
             /\ c.type # "CONNECT" /\ HasConnect(addCommand(q, c)) => HasConnect(q)
  <2>1. /\ ToSet(addCommand(q, c)) \subseteq ToSet(q) \cup {c}
        /\ \E x \in ToSet(addCommand(q, c)) : x.type = c.type
    BY AddCommandElements, Zenon DEF GoodQueue
  <2> QED
    BY <2>1 DEF HasConnect
<1>2. ASSUME NEW c \in CommandType, c.type # "CONNECT"
      PROVE  HasConnect(Append(q, c)) <=> HasConnect(q)
  BY <1>2, AppendCommands DEF GoodQueue, HasConnect
<1>3. ASSUME q # <<>>
      PROVE  /\ Head(q) \in ToSet(q) /\ ToSet(q) = ToSet(Tail(q)) \cup {Head(q)}
             /\ Head(q).type # "SUBSCRIBE" => \A x \in ToSet(Tail(q)) : x.type # Head(q).type
  BY <1>3, TailCommands, Zenon DEF GoodQueue
<1>4. /\ q # <<>> /\ Head(q).type = "CONNECT" => HasConnect(q) /\ ~HasConnect(Tail(q))
      /\ q # <<>> /\ Head(q).type # "CONNECT" => (HasConnect(Tail(q)) <=> HasConnect(q))
  BY <1>3 DEF HasConnect
<1> QED
  BY <1>1, <1>2, <1>4, CommandTypes

\* Before the first call, only that call can be made.
LEMMA OnlyConnectAtStart ==
    ASSUME app = "start", Untouched, ClientNext
    PROVE  appConnect
<1> USE DEF Untouched, idleClient
<1>1. ~processCommand /\ ~checkTimeouts
  BY DEF processCommand, processConnect, processConnectFail, processSubscribe,
         processSubscribeError, processDisconnect, headIs, checkTimeouts
<1>2. ~select /\ ~cycleIdle
  BY DEF select, readable, cycleIdle, keepaliveDue
<1>3. ~cycleSocket /\ ~cyclePublish
  BY DEF cycleSocket, cyclePublish, cycleNoClient, cycleConnecting, cycleConnectError,
         cyclePingresp, cycleAck, cycleNothing, cycleReadError, cycleResult
<1>4. ~handleResult
  BY DEF handleResult, handleNothing, handleError, handleConnack, handleSuback, handling
<1>5. ~network
  BY DEF network, tcpUp, tcpFail, brokerConnect, brokerSubscribe, brokerPing, brokerPublish, brokerReads
<1>6. ~reconnected /\ ~messageDone
  BY DEF reconnected, messageDone, NoCallback
<1>7. ~callSubscribe /\ ~assignMsgId /\ ~subscribeAdd
  BY DEF callSubscribe, subscribeMany, assignMsgId, subscribeAdd
<1> QED
  BY <1>1, <1>2, <1>3, <1>4, <1>5, <1>6, <1>7 DEF ClientNext, libraryStep

\* Closing the connection leaves the fields in agreement.
LEMMA ClosedIsIdle == closeOnly => idleClient' /\ ConnectionFields'
BY DEF closeOnly, idleClient, ConnectionFields

\* Giving an attempt up queues a CONNECT or calls onConFailure, which does.
LEMMA NextOrCloseReconnects ==
    ASSUME TypeInv, NEW q, GoodQueue(q), nextOrClose(q)
    PROVE  /\ idleClient' /\ ConnectionFields'
           /\ HasConnect(commands') \/ callback'.why = "closed"
<1>1. HasConnect(addCommand(q, Connect(4, TRUE)))
  BY ConnectInQueue
<1> QED
  BY <1>1, ClosedIsIdle, CallbackTypes DEF nextOrClose, closeSession

\* The keepalive touches the queue only while connected.
LEMMA RetryReconnects ==
    ASSUME TypeInv, NEW ping \in BOOLEAN, ping => connected, retry(ping) \/ keepaliveDue(ping)
    PROVE  /\ HasConnect(commands') => HasConnect(commands)
           /\ ~connected => UNCHANGED commands
           /\ pingOut' => connected
<1>1. HasConnect(addCommand(commands, Disconnect)) => HasConnect(commands)
  BY ConnectInQueue DEF TypeInv
<1> QED
  BY <1>1 DEF retry, keepaliveDue

\* A step that changes neither the connection nor the callback, and takes no
\* CONNECT from the queue and puts none in, keeps the invariant.
LEMMA ReconnectFrame ==
    ASSUME ReconnectInv, app # "start", app' # "start",
           UNCHANGED <<connState, connected, sock>>, pingOut' => connected,
           callback'.why = callback.why \/
              {callback.why, callback'.why} \cap {"connectFailed", "lost", "closed"} = {},
           HasConnect(commands') => HasConnect(commands),
           ~connected => (HasConnect(commands) => HasConnect(commands'))
    PROVE  ReconnectInv'
BY DEF ReconnectInv, ConnectionFields, NeverGivesUp, idleClient

\* The same for a step after which the client is idle and reconnects.
LEMMA ReconnectIdle ==
    ASSUME app' # "start", idleClient', ConnectionFields',
           HasConnect(commands') \/ callback'.why \in {"connectFailed", "lost", "closed"}
    PROVE  ReconnectInv'
BY DEF ReconnectInv, NeverGivesUp, idleClient

\* The same for a step after which it is connecting or connected.
LEMMA ReconnectBusy ==
    ASSUME app' # "start", ~idleClient', ConnectionFields', ~HasConnect(commands'),
           callback'.why \notin {"connectFailed", "lost", "closed"}
    PROVE  ReconnectInv'
BY DEF ReconnectInv, NeverGivesUp, idleClient

\* The send thread keeps the invariant.
LEMMA SendThreadReconnects ==
    ASSUME TypeInv, ReconnectInv, app # "start", processCommand \/ checkTimeouts
    PROVE  ReconnectInv'
<1>1. GoodQueue(commands) /\ (commands # <<>> => GoodQueue(Tail(commands)))
  BY GoodQueueKept DEF TypeInv
<1>2. headIs("CONNECT") => HasConnect(commands) /\ ~HasConnect(Tail(commands)) /\ idleClient
  BY <1>1, ConnectInQueue DEF headIs, ReconnectInv
<1>3. ASSUME NEW type, headIs(type), type # "CONNECT"
      PROVE  /\ HasConnect(Tail(commands)) <=> HasConnect(commands)
             /\ HasConnect(addCommand(Tail(commands), Disconnect)) => HasConnect(commands)
  BY <1>1, <1>3, ConnectInQueue DEF headIs
<1>4. headIs("CONNECT") => HasConnect(addCommand(Tail(commands), Connect(4, TRUE)))
  BY <1>1, ConnectInQueue DEF headIs
<1>5. NoCallback.why = "none"
  BY DEF NoCallback
<1>6. ASSUME NEW fd \in Fds, processConnect(fd) PROVE ReconnectInv'
  <2>1. /\ idleClient /\ startConnect(fd) /\ ~HasConnect(commands') /\ app' # "start"
        /\ callback'.why = "none"
    BY <1>2, <1>5, <1>6 DEF processConnect, headIs, MutexFree, appVars
  <2>2. ~idleClient' /\ ConnectionFields'
    BY <2>1, ClientAssumption DEF startConnect, idleClient, ReconnectInv, ConnectionFields
  <2> QED
    BY <2>1, <2>2, ReconnectBusy
<1>7. ASSUME processConnectFail PROVE ReconnectInv'
  <2>1. app' # "start" /\ idleClient' /\ ConnectionFields'
    BY <1>7 DEF processConnectFail, linkVars, appVars, idleClient, ReconnectInv, ConnectionFields
  <2>2. HasConnect(commands') \/ callback'.why = "connectFailed"
    BY <1>4, <1>7 DEF processConnectFail, Callback, NoCallback
  <2> QED
    BY <2>1, <2>2, ReconnectIdle
<1>8. ASSUME processSubscribe PROVE ReconnectInv'
  <2>1. HasConnect(commands') <=> HasConnect(commands)
    BY <1>3, <1>8 DEF processSubscribe
  <2> QED
    BY <1>8, <2>1, ReconnectFrame DEF processSubscribe, appVars, ReconnectInv, ConnectionFields
<1>9. ASSUME processSubscribeError PROVE ReconnectInv'
  <2>1. HasConnect(commands') => HasConnect(commands)
    BY <1>3, <1>9 DEF processSubscribeError
  <2> QED
    BY <1>9, <2>1, ReconnectFrame
       DEF processSubscribeError, linkVars, appVars, ReconnectInv, ConnectionFields
<1>10. ASSUME processDisconnect PROVE ReconnectInv'
  <2>1. (HasConnect(commands') <=> HasConnect(commands)) /\ app' # "start" /\ callback.why = "none"
    BY <1>3, <1>5, <1>10 DEF processDisconnect, appVars, headIs, MutexFree
  <2>2. CASE UNCHANGED <<callback, linkVars, sessionVars>>
    BY <2>1, <2>2, ReconnectFrame DEF linkVars, ReconnectInv, ConnectionFields
  <2>3. CASE connState # "NOT_IN_PROGRESS" /\ connState' = "DISCONNECTING" /\
             callback' = Callback("cancel") /\ UNCHANGED <<connected, sock, pingOut>>
    <3>1. ~HasConnect(commands') /\ ~idleClient' /\ ConnectionFields'
      BY <2>1, <2>3 DEF ReconnectInv, ConnectionFields, idleClient
    <3>2. callback'.why = "cancel"
      BY <2>3, CallbackTypes
    <3> QED
      BY <2>1, <3>1, <3>2, ReconnectBusy
  <2>4. CASE closeSession /\ callback' = Callback("lost")
    <3>1. callback'.why = "lost"
      BY <2>4, CallbackTypes
    <3> QED
      BY <2>1, <2>4, <3>1, ClosedIsIdle, ReconnectIdle DEF closeSession
  <2> QED
    BY <1>10, <2>2, <2>3, <2>4 DEF processDisconnect
<1>11. ASSUME checkTimeouts PROVE ReconnectInv'
  <2>1. app' # "start"
    BY <1>11 DEF checkTimeouts, appVars
  <2> QED
    BY <1>1, <1>11, <2>1, NextOrCloseReconnects, ReconnectIdle DEF checkTimeouts
<1> QED
  BY <1>6, <1>7, <1>8, <1>9, <1>10, <1>11 DEF processCommand

\* The receive thread keeps it.
LEMMA ReceiveThreadReconnects ==
    ASSUME TypeInv, ReconnectInv, app # "start",
           select \/ cycleIdle \/ cycleSocket \/ handleResult \/ cyclePublish \/ messageDone
    PROVE  ReconnectInv'
<1>1. GoodQueue(commands) /\ GoodQueue(addCommand(commands, Disconnect))
  BY GoodQueueKept DEF TypeInv
<1>2. pingOut \in BOOLEAN /\ (pingOut => connected)
  BY DEF TypeInv, LinkTypeOK, ReconnectInv, ConnectionFields
<1>3. ASSUME NEW q, GoodQueue(q), nextOrClose(q), UNCHANGED appVars PROVE ReconnectInv'
  BY <1>3, NextOrCloseReconnects, ReconnectIdle DEF appVars
<1>4. ASSUME retry(pingOut) \/ retry(FALSE) \/ keepaliveDue(pingOut),
             UNCHANGED <<connState, connected, sock>>, UNCHANGED appVars,
             \/ UNCHANGED callback
             \/ callback.why = "message" /\ callback' = NoCallback
      PROVE  ReconnectInv'
  <2>1. /\ HasConnect(commands') => HasConnect(commands)
        /\ ~connected => UNCHANGED commands
        /\ pingOut' => connected
    BY <1>2, <1>4, RetryReconnects
  <2>2. callback'.why = callback.why \/
              {callback.why, callback'.why} \cap {"connectFailed", "lost", "closed"} = {}
    BY <1>4, SMTT(60), ZenonT(60) DEF NoCallback
  <2> QED
    BY <1>4, <2>1, <2>2, ReconnectFrame DEF appVars
<1>5. ASSUME UNCHANGED <<commands, connected, sock, pingOut, callback, appVars>>,
             UNCHANGED connState \/ (connState = "TCP_IN_PROGRESS" /\ connState' = "WAIT_FOR_CONNACK")
      PROVE  ReconnectInv'
  BY <1>5 DEF ReconnectInv, ConnectionFields, NeverGivesUp, idleClient, appVars
<1>6. ASSUME select PROVE ReconnectInv'
  BY <1>5, <1>6 DEF select, linkVars
<1>7. ASSUME cycleIdle PROVE ReconnectInv'
  BY <1>4, <1>7 DEF cycleIdle
<1>8. ASSUME cycleSocket PROVE ReconnectInv'
  <2>1. ASSUME NEW rc, NEW pack, cycleResult(rc, pack) PROVE UNCHANGED appVars
    BY <2>1 DEF cycleResult
  <2>2. CASE cycleNoClient
    BY <1>4, <2>1, <2>2 DEF cycleNoClient
  <2>3. CASE cycleConnecting
    BY <1>5, <2>1, <2>3 DEF cycleConnecting
  <2>4. CASE cycleConnectError
    BY <1>1, <1>3, <2>1, <2>4 DEF cycleConnectError
  <2>5. CASE cyclePingresp
    BY <1>4, <2>1, <2>5 DEF cyclePingresp, reading
  <2>6. CASE cycleAck
    BY <1>4, <2>1, <2>6 DEF cycleAck, reading
  <2>7. CASE cycleNothing
    BY <1>4, <2>1, <2>7 DEF cycleNothing
  <2>8. CASE cycleReadError
    BY <1>1, <1>3, <1>4, <2>1, <2>8 DEF cycleReadError
  <2> QED
    BY <1>8, <2>2, <2>3, <2>4, <2>5, <2>6, <2>7, <2>8 DEF cycleSocket
<1>9. ASSUME cyclePublish PROVE ReconnectInv'
  <2>1. callback.why = "none" /\ callback'.why = "message"
    BY <1>9 DEF cyclePublish, cycleResult, MutexFree, Callback, NoCallback
  <2>2. {callback.why, callback'.why} \cap {"connectFailed", "lost", "closed"} = {}
    BY <2>1
  <2> QED
    BY <1>2, <1>9, <2>2, ReconnectFrame DEF cyclePublish, reading, cycleResult, appVars
<1>10. ASSUME messageDone PROVE ReconnectInv'
  BY <1>4, <1>10 DEF messageDone
<1>11. ASSUME handleResult PROVE ReconnectInv'
  <2>1. ASSUME handling PROVE UNCHANGED appVars /\ callback.why = "none"
    BY <2>1 DEF handling, MutexFree, NoCallback
  <2>2. CASE handleNothing
    BY <1>5, <2>1, <2>2 DEF handleNothing, linkVars
  <2>3. CASE handleError
    BY <1>1, <1>3, <2>1, <2>3 DEF handleError
  <2>4. CASE handleConnack
    <3>1. CASE nextOrClose(commands)
      BY <1>1, <1>3, <2>1, <2>4, <3>1 DEF handleConnack
    <3>2. CASE completes /\ connected' = TRUE /\ connState' = "NOT_IN_PROGRESS" /\
               UNCHANGED <<commands, callback, sock, pingOut>>
      <4>1. ~idleClient' /\ ConnectionFields' /\ ~HasConnect(commands')
        BY <3>2 DEF ReconnectInv, completes, idleClient, ConnectionFields
      <4> QED
        BY <2>1, <2>4, <3>2, <4>1, ReconnectBusy DEF handleConnack, appVars
    <3> QED
      BY <2>4, <3>1, <3>2 DEF handleConnack
  <2>5. CASE handleSuback
    BY <1>5, <2>1, <2>5 DEF handleSuback, linkVars
  <2> QED
    BY <1>11, <2>2, <2>3, <2>4, <2>5 DEF handleResult
<1> QED
  BY <1>6, <1>7, <1>8, <1>9, <1>10, <1>11

\* The network, the application's calls and its callbacks keep it.
LEMMA EnvironmentReconnects ==
    ASSUME TypeInv, ReconnectInv, app # "start",
           network \/ reconnected \/ callSubscribe \/ assignMsgId \/ subscribeAdd
    PROVE  ReconnectInv'
<1>1. pingOut => connected
  BY DEF ReconnectInv, ConnectionFields
<1>2. ASSUME network PROVE ReconnectInv'
  <2>1. netUnchanged
    BY <1>2 DEF network, tcpUp, tcpFail, brokerConnect, brokerSubscribe, brokerPing, brokerPublish
  <2> QED
    BY <1>1, <2>1, ReconnectFrame DEF netUnchanged, appVars
<1>3. ASSUME reconnected PROVE ReconnectInv'
  <2>1. HasConnect(commands') /\ app' # "start"
    BY <1>3, ConnectInQueue DEF reconnected, TypeInv, appVars
  <2>2. idleClient' /\ ConnectionFields'
    <3>1. CASE callback.why = "cancel"
      BY <1>3, <3>1, ClosedIsIdle DEF reconnected, closeSession
    <3>2. CASE callback.why # "cancel"
      BY <1>3, <3>2 DEF reconnected, ReconnectInv, ConnectionFields, idleClient, linkVars
    <3> QED
      BY <3>1, <3>2
  <2> QED
    BY <2>1, <2>2, ReconnectIdle
<1>4. ASSUME callSubscribe PROVE ReconnectInv'
  <2>1. /\ app' # "start" /\ UNCHANGED <<connState, connected, sock, pingOut>>
        /\ UNCHANGED callback /\ UNCHANGED commands
    BY <1>4 DEF callSubscribe, subscribeMany, linkVars
  <2> QED
    BY <1>1, <2>1, ReconnectFrame, Zenon
<1>5. ASSUME assignMsgId PROVE ReconnectInv'
  BY <1>1, <1>5, ReconnectFrame DEF assignMsgId, linkVars
<1>6. ASSUME subscribeAdd PROVE ReconnectInv'
  <2>1. HasConnect(commands') <=> HasConnect(commands)
    BY <1>6, ConnectInQueue DEF subscribeAdd, appendCommand, TypeInv, AppTypeOK
  <2> QED
    BY <1>1, <1>6, <2>1, ReconnectFrame DEF subscribeAdd, linkVars
<1> QED
  BY <1>2, <1>3, <1>4, <1>5, <1>6

\* The inductive invariant holds from the start on.
THEOREM ReconnectInvariant == ClientSpec => []ReconnectInv
<1>1. ClientInit => ReconnectInv
  BY EmptyTyped DEF ClientInit, ReconnectInv, ConnectionFields, HasConnect, ToSet, NeverGivesUp,
     Untouched, idleClient, NoCallback
<1>2. TypeInv /\ ReconnectInv /\ [ClientNext]_clientVars => ReconnectInv'
  <2> SUFFICES ASSUME TypeInv, ReconnectInv, [ClientNext]_clientVars PROVE ReconnectInv'
    OBVIOUS
  <2>1. CASE UNCHANGED clientVars
    BY <2>1 DEF clientVars, linkVars, recvThreadVars, appVars, ReconnectInv, ConnectionFields,
       NeverGivesUp, Untouched, idleClient
  <2>2. CASE ClientNext /\ app = "start"
    <3>1. appConnect /\ Untouched
      BY <2>2, OnlyConnectAtStart DEF ReconnectInv
    <3>2. HasConnect(commands')
      BY <3>1, ConnectInQueue DEF appConnect, TypeInv
    <3> QED
      BY <3>1, <3>2, ReconnectIdle
         DEF appConnect, Untouched, idleClient, linkVars, ReconnectInv, ConnectionFields
  <2>3. CASE ClientNext /\ app # "start"
    BY <2>3, SendThreadReconnects, ReceiveThreadReconnects, EnvironmentReconnects
       DEF ClientNext, libraryStep, appConnect
  <2> QED
    BY <2>1, <2>2, <2>3
<1> QED
  BY <1>1, <1>2, TypesInvariant, PTL DEF ClientSpec

\* c->connected, c->connect_state and the socket never contradict each other,
\* whichever thread changes them.
THEOREM ConnectionFieldsHold == ClientSpec => []ConnectionFields
<1>1. ReconnectInv => ConnectionFields
  BY DEF ReconnectInv
<1> QED
  BY <1>1, ReconnectInvariant, PTL

\* MQTTAsync_processCommand never meets a CONNECT while the client is
\* connecting or connected, so none is dropped.
THEOREM NoConnectDropped == ClientSpec => []ConnectNeverIgnored
<1>1. TypeInv /\ ReconnectInv => ConnectNeverIgnored
  BY ConnectInQueue DEF TypeInv, ReconnectInv, ConnectNeverIgnored, headIs
<1> QED
  BY <1>1, TypesInvariant, ReconnectInvariant, PTL

\* While there is no connection, a CONNECT is queued or a callback that calls
\* myReconnctMQTT is running.
THEOREM AlwaysReconnecting == ClientSpec => []NeverGivesUp
<1>1. ReconnectInv => NeverGivesUp
  BY DEF ReconnectInv
<1> QED
  BY <1>1, ReconnectInvariant, PTL
=============================================================================
