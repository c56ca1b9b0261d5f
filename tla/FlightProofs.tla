---------------------------- MODULE FlightProofs ----------------------------
(***************************************************************************)
(* The messages in flight of the synchronous client and the packets about  *)
(* them: what writing, reading, losing and sending again keep true; and    *)
(* that the locked sections of MQTTClient.c, as functions of the whole     *)
(* state, keep it sound.                                                   *)
(***************************************************************************)
EXTENDS SyncClient, Functions, TLAPS

-----------------------------------------------------------------------------
(* Messages in flight, and their packets. *)

IsSeq(q) == q \in Seq(Range(q))

\* The message ids of the packets of this type in q, and that no two share one.
Ids(q, type) == {x.id : x \in {y \in Range(q) : y.type = type}}
Once(q, type) ==
    \A i, j \in 1..Len(q) :
        q[i].type = type /\ q[j].type = type /\ q[i].id = q[j].id => i = j

\* No two messages in flight share a message id.
Distinct(out) == \A i, j \in 1..Len(out) : out[i].id = out[j].id => i = j

\* What the client sends.
Requests == {"UPGRADE", "CONNECT", "SUBSCRIBE", "UNSUBSCRIBE", "PUBLISH"}

\* A PUBLISH that is written, or partly written, carries a message in flight,
\* and a PUBACK answers one that the broker got; there is at most one packet for
\* each message, and none without a connection.
Flight(out, con, up, dn, pend, got) ==
    /\ IsSeq(out) /\ IsSeq(up) /\ IsSeq(dn) /\ IsSeq(pend) /\ Len(pend) <= 1
    /\ Distinct(out)
    /\ Once(up, "PUBLISH") /\ Once(dn, "PUBACK")
    /\ Ids(up, "PUBLISH") \cap Ids(pend, "PUBLISH") = {}
    /\ Ids(up, "PUBLISH") \cap Ids(dn, "PUBACK") = {}
    /\ Ids(pend, "PUBLISH") \cap Ids(dn, "PUBACK") = {}
    /\ \A x \in Range(up) \cup Range(pend) :
          /\ x.type \in Requests
          /\ x.type = "PUBLISH" => \E e \in Range(out) : e.id = x.id /\ e.msg = x.msg
    /\ \A x \in Range(dn) :
          x.type = "PUBACK" => \E e \in Range(out) : e.id = x.id /\ e.msg \in got
    /\ ~con => Ids(up, "PUBLISH") = {} /\ Ids(pend, "PUBLISH") = {} /\ Ids(dn, "PUBACK") = {}

\* A function on 1..n is a sequence.
LEMMA Listed ==
    ASSUME NEW S, NEW n \in Nat, NEW f, f = [i \in 1..n |-> f[i]], \A i \in 1..n : f[i] \in S
    PROVE  f \in Seq(S) /\ Len(f) = n
<1>1. [i \in 1..n |-> f[i]] \in Seq(S) /\ Len([i \in 1..n |-> f[i]]) = n
  OBVIOUS
<1> QED
  BY <1>1, Zenon

\* A sequence with an element has a length.
LEMMA NotEmpty ==
    ASSUME NEW S, NEW q \in Seq(S), q # <<>>
    PROVE  Len(q) \in Nat \ {0}
<1>1. Len(q) \in Nat
  OBVIOUS
<1>2. ASSUME Len(q) = 0 PROVE FALSE
  BY <1>2
<1> QED
  BY <1>1, <1>2

\* The elements of a concatenation.
LEMMA Joined ==
    ASSUME NEW S, NEW a \in Seq(S), NEW b \in Seq(S)
    PROVE  /\ a \o b \in Seq(S) /\ Len(a \o b) = Len(a) + Len(b)
           /\ \A i \in 1..(Len(a) + Len(b)) : (a \o b)[i] = IF i <= Len(a) THEN a[i] ELSE b[i - Len(a)]
OBVIOUS

\* A sequence of anything.
LEMMA Sequences ==
    ASSUME NEW S, NEW q \in Seq(S)
    PROVE  IsSeq(q) /\ Len(q) \in Nat /\ Range(q) \subseteq S
           /\ \A x : x \in Range(q) <=> \E i \in 1..Len(q) : x = q[i]
<1>1. Len(q) \in Nat /\ DOMAIN q = 1..Len(q) /\ \A i \in 1..Len(q) : q[i] \in S
  OBVIOUS
<1>2. \A x : x \in Range(q) <=> \E i \in 1..Len(q) : x = q[i]
  BY <1>1 DEF Range
<1>3. IsSeq(q)
  <2>1. \A i \in 1..Len(q) : q[i] \in Range(q)
    BY <1>2
  <2> HIDE <1>2
  <2>2. q = [i \in 1..Len(q) |-> q[i]]
    BY <1>1
  <2> QED
    BY <1>1, <2>1, <2>2, Listed DEF IsSeq
<1> QED
  BY <1>1, <1>2, <1>3

\* Adding a packet.
LEMMA Appending ==
    ASSUME NEW q, IsSeq(q), NEW x
    PROVE  /\ IsSeq(Append(q, x)) /\ Append(q, x) # <<>>
           /\ Range(Append(q, x)) = Range(q) \cup {x}
           /\ \A type :
                /\ Ids(Append(q, x), type) =
                      Ids(q, type) \cup (IF x.type = type THEN {x.id} ELSE {})
                /\ Once(q, type) /\ (x.type = type => x.id \notin Ids(q, type))
                      => Once(Append(q, x), type)
<1> DEFINE r == Append(q, x)
<1>1. q \in Seq(Range(q) \cup {x})
  BY DEF IsSeq
<1>2. /\ r \in Seq(Range(q) \cup {x}) /\ r # <<>> /\ Len(q) \in Nat /\ Len(r) = Len(q) + 1
      /\ r[Len(q) + 1] = x /\ \A i \in 1..Len(q) : r[i] = q[i]
  BY <1>1
<1>3. /\ \A y : y \in Range(q) <=> \E i \in 1..Len(q) : y = q[i]
      /\ \A y : y \in Range(r) <=> \E i \in 1..Len(r) : y = r[i]
      /\ IsSeq(r)
  BY <1>1, <1>2, Sequences
<1> HIDE DEF r
<1>4. \A i \in 1..Len(r) : i = Len(q) + 1 \/ i \in 1..Len(q)
  BY <1>2
<1>5. Range(r) = Range(q) \cup {x}
  <2>1. \A i \in 1..Len(q) : i \in 1..Len(r)
    BY <1>2
  <2>2. Len(q) + 1 \in 1..Len(r)
    BY <1>2
  <2> QED
    BY <1>2, <1>3, <1>4, <2>1, <2>2
<1>6. ASSUME NEW type
      PROVE  /\ Ids(r, type) = Ids(q, type) \cup (IF x.type = type THEN {x.id} ELSE {})
             /\ Once(q, type) /\ (x.type = type => x.id \notin Ids(q, type)) => Once(r, type)
  <2>1. Ids(r, type) = Ids(q, type) \cup (IF x.type = type THEN {x.id} ELSE {})
    BY <1>5 DEF Ids
  <2>2. \A i \in 1..Len(q) : q[i].type = type => q[i].id \in Ids(q, type)
    BY <1>3 DEF Ids
  <2>3. Once(q, type) /\ (x.type = type => x.id \notin Ids(q, type)) => Once(r, type)
    BY <1>2, <1>4, <2>2 DEF Once
  <2> QED
    BY <2>1, <2>3
<1> QED
  BY <1>2, <1>3, <1>5, <1>6 DEF r

\* Taking the first one.
LEMMA Taking ==
    ASSUME NEW q, IsSeq(q), q # <<>>
    PROVE  /\ IsSeq(Tail(q))
           /\ Range(q) = Range(Tail(q)) \cup {Head(q)}
           /\ \A type :
                /\ Ids(q, type) =
                      Ids(Tail(q), type) \cup (IF Head(q).type = type THEN {Head(q).id} ELSE {})
                /\ Once(q, type) =>
                      /\ Once(Tail(q), type)
                      /\ Head(q).type = type => Head(q).id \notin Ids(Tail(q), type)
<1> DEFINE r == Tail(q)
           x == Head(q)
<1>1. /\ r \in Seq(Range(q)) /\ Len(q) \in Nat /\ Len(q) >= 1 /\ Len(r) = Len(q) - 1
      /\ x = q[1] /\ \A i \in 1..Len(r) : i + 1 \in 1..Len(q) /\ r[i] = q[i + 1]
  BY DEF IsSeq
<1>2. /\ \A y : y \in Range(q) <=> \E i \in 1..Len(q) : y = q[i]
      /\ \A y : y \in Range(r) <=> \E i \in 1..Len(r) : y = r[i]
      /\ IsSeq(r)
  BY <1>1, Sequences DEF IsSeq
<1> HIDE DEF r, x
<1>3. \A i \in 1..Len(q) : i = 1 \/ (i - 1 \in 1..Len(r) /\ q[i] = r[i - 1])
  BY <1>1
<1>4. Range(q) = Range(r) \cup {x}
  <2>1. ASSUME NEW y \in Range(q) PROVE y \in Range(r) \cup {x}
    BY <1>1, <1>2, <1>3
  <2>2. ASSUME NEW y \in Range(r) PROVE y \in Range(q)
    BY <1>1, <1>2
  <2>3. x \in Range(q)
    <3>1. 1 \in 1..Len(q)
      BY <1>1
    <3> QED
      BY <1>1, <1>2, <3>1
  <2> QED
    BY <2>1, <2>2, <2>3
<1>5. ASSUME NEW type
      PROVE  /\ Ids(q, type) = Ids(r, type) \cup (IF x.type = type THEN {x.id} ELSE {})
             /\ Once(q, type) => Once(r, type) /\ (x.type = type => x.id \notin Ids(r, type))
  <2>1. Ids(q, type) = Ids(r, type) \cup (IF x.type = type THEN {x.id} ELSE {})
    BY <1>4 DEF Ids
  <2>2. ASSUME Once(q, type) PROVE Once(r, type)
    <3> SUFFICES ASSUME NEW i \in 1..Len(r), NEW j \in 1..Len(r),
                        r[i].type = type, r[j].type = type, r[i].id = r[j].id
                 PROVE  i = j
      BY DEF Once
    <3>1. i + 1 = j + 1
      BY <1>1, <2>2 DEF Once
    <3> QED
      BY <3>1
  <2>3. ASSUME Once(q, type), x.type = type, x.id \in Ids(r, type) PROVE FALSE
    <3>1. PICK i \in 1..Len(r) : r[i].type = type /\ r[i].id = x.id
      BY <1>2, <2>3 DEF Ids
    <3>2. 1 \in 1..Len(q) /\ i + 1 \in 1..Len(q) /\ 1 # i + 1
      BY <1>1
    <3> QED
      BY <1>1, <2>3, <3>1, <3>2 DEF Once
  <2> QED
    BY <2>1, <2>2, <2>3
<1> QED
  BY <1>2, <1>4, <1>5 DEF r, x

\* None.
LEMMA Emptying ==
    /\ IsSeq(<<>>) /\ Range(<<>>) = {} /\ Len(<<>>) = 0
    /\ \A type : Ids(<<>>, type) = {} /\ Once(<<>>, type)
<1>1. <<>> \in Seq({}) /\ Len(<<>>) = 0
  OBVIOUS
<1>2. Range(<<>>) = {}
  BY DEF Range
<1>3. IsSeq(<<>>)
  BY <1>1, <1>2 DEF IsSeq
<1> QED
  BY <1>1, <1>2, <1>3 DEF Ids, Once

\* A packet by itself.
LEMMA Single ==
    ASSUME NEW x
    PROVE  /\ IsSeq(<<x>>) /\ Len(<<x>>) = 1 /\ Range(<<x>>) = {x}
           /\ \A type : Ids(<<x>>, type) = IF x.type = type THEN {x.id} ELSE {}
<1>1. <<x>> = Append(<<>>, x)
  OBVIOUS
<1>2. Len(<<x>>) = 1
  OBVIOUS
<1> DEFINE e == <<>>
<1>3. IsSeq(e) /\ Range(e) = {} /\ \A type : Ids(e, type) = {}
  BY Emptying
<1> HIDE DEF e
<1>4. IsSeq(Append(e, x)) /\ Range(Append(e, x)) = {x}
  BY <1>3, Appending
<1>5. ASSUME NEW type PROVE Ids(Append(e, x), type) = IF x.type = type THEN {x.id} ELSE {}
  <2>1. Ids(Append(e, x), type) = Ids(e, type) \cup (IF x.type = type THEN {x.id} ELSE {})
    BY <1>3, Appending
  <2>2. Ids(e, type) = {}
    BY <1>3
  <2> QED
    BY <2>1, <2>2
<1> QED
  BY <1>1, <1>2, <1>4, <1>5 DEF e

-----------------------------------------------------------------------------
(* What keeps messages and packets together. *)

\* Without packets there is nothing to say.
LEMMA NoPackets ==
    ASSUME NEW out, IsSeq(out), Distinct(out), NEW con, NEW got
    PROVE  Flight(out, con, <<>>, <<>>, <<>>, got)
BY Emptying DEF Flight

\* A packet that carries no message is written, at once or in part.
LEMMA OtherWritten ==
    ASSUME NEW out, NEW con, NEW up, NEW dn, NEW pend, NEW got,
           Flight(out, con, up, dn, pend, got), NEW p, p.type \in Requests \ {"PUBLISH"}
    PROVE  /\ Flight(out, con, Append(up, p), dn, pend, got)
           /\ Flight(out, con, up, dn, <<p>>, got)
<1>1. IsSeq(up)
  BY DEF Flight
<1>2. /\ IsSeq(Append(up, p)) /\ Range(Append(up, p)) = Range(up) \cup {p}
      /\ Ids(Append(up, p), "PUBLISH") = Ids(up, "PUBLISH")
      /\ Once(up, "PUBLISH") => Once(Append(up, p), "PUBLISH")
  <2>1. /\ IsSeq(Append(up, p)) /\ Range(Append(up, p)) = Range(up) \cup {p}
        /\ Ids(Append(up, p), "PUBLISH") =
              Ids(up, "PUBLISH") \cup (IF p.type = "PUBLISH" THEN {p.id} ELSE {})
        /\ Once(up, "PUBLISH") => Once(Append(up, p), "PUBLISH")
    BY <1>1, Appending
  <2> QED
    BY <2>1
<1>3. IsSeq(<<p>>) /\ Len(<<p>>) = 1 /\ Range(<<p>>) = {p} /\ Ids(<<p>>, "PUBLISH") = {}
  BY Single
<1>4. Flight(out, con, Append(up, p), dn, pend, got)
  BY <1>2 DEF Flight
<1>5. Flight(out, con, up, dn, <<p>>, got)
  BY <1>3 DEF Flight
<1> QED
  BY <1>4, <1>5

\* A message is added under an id that is free.
LEMMA MessageAdded ==
    ASSUME NEW out, NEW up, NEW dn, NEW pend, NEW got, Flight(out, TRUE, up, dn, pend, got),
           NEW e, \A f \in Range(out) : f.id # e.id
    PROVE  /\ Flight(Append(out, e), TRUE, up, dn, pend, got)
           /\ Range(Append(out, e)) = Range(out) \cup {e}
           /\ e.id \notin Ids(up, "PUBLISH") \cup Ids(pend, "PUBLISH") \cup Ids(dn, "PUBACK")
<1>1. IsSeq(out)
  BY DEF Flight
<1>2. IsSeq(Append(out, e)) /\ Range(Append(out, e)) = Range(out) \cup {e}
  BY <1>1, Appending
<1>3. Distinct(Append(out, e))
  <2> DEFINE r == Append(out, e)
             n == Len(out)
  <2>1. /\ n \in Nat /\ Len(r) = n + 1 /\ r[n + 1] = e /\ \A i \in 1..n : r[i] = out[i]
    BY <1>1 DEF IsSeq
  <2>2. \A i \in 1..n : out[i].id # e.id
    BY <1>1, Sequences DEF IsSeq
  <2> HIDE DEF r
  <2>3. \A i \in 1..Len(r) : i = n + 1 \/ i \in 1..n
    BY <2>1
  <2>4. \A i, j \in 1..n : out[i].id = out[j].id => i = j
    BY DEF Flight, Distinct
  <2>5. Distinct(r)
    BY <2>1, <2>2, <2>3, <2>4 DEF Distinct
  <2> QED
    BY <2>5 DEF r
<1>4. Flight(Append(out, e), TRUE, up, dn, pend, got)
  BY <1>2, <1>3 DEF Flight
<1>5. e.id \notin Ids(up, "PUBLISH") \cup Ids(pend, "PUBLISH") \cup Ids(dn, "PUBACK")
  BY DEF Flight, Ids
<1> QED
  BY <1>2, <1>4, <1>5

\* Its packet is written.
LEMMA MessageWritten ==
    ASSUME NEW out, NEW up, NEW dn, NEW pend, NEW got, Flight(out, TRUE, up, dn, pend, got),
           NEW p, p.type = "PUBLISH", \E e \in Range(out) : e.id = p.id /\ e.msg = p.msg,
           p.id \notin Ids(up, "PUBLISH") \cup Ids(pend, "PUBLISH") \cup Ids(dn, "PUBACK")
    PROVE  /\ Flight(out, TRUE, Append(up, p), dn, pend, got)
           /\ Flight(out, TRUE, up, dn, <<p>>, got)
<1>1. IsSeq(up)
  BY DEF Flight
<1>2. /\ IsSeq(Append(up, p)) /\ Range(Append(up, p)) = Range(up) \cup {p}
      /\ Ids(Append(up, p), "PUBLISH") = Ids(up, "PUBLISH") \cup {p.id}
      /\ Once(up, "PUBLISH") => Once(Append(up, p), "PUBLISH")
  BY <1>1, Appending
<1>3. IsSeq(<<p>>) /\ Len(<<p>>) = 1 /\ Range(<<p>>) = {p} /\ Ids(<<p>>, "PUBLISH") = {p.id}
  BY Single
<1>4. p.type \in Requests
  BY DEF Requests
<1>5. Flight(out, TRUE, Append(up, p), dn, pend, got)
  BY <1>2, <1>4 DEF Flight
<1>6. Flight(out, TRUE, up, dn, <<p>>, got)
  BY <1>3, <1>4 DEF Flight
<1> QED
  BY <1>5, <1>6

\* The rest of a partial write follows, or is dropped with the connection.
LEMMA WriteContinued ==
    ASSUME NEW out, NEW con, NEW up, NEW dn, NEW pend, NEW got,
           Flight(out, con, up, dn, pend, got)
    PROVE  Flight(out, con, up, dn, <<>>, got) /\ Flight(out, con, up \o pend, dn, <<>>, got)
<1>1. Flight(out, con, up, dn, <<>>, got)
  BY Emptying DEF Flight
<1>2. CASE pend = <<>>
  <2>1. up \o pend = up
    BY <1>2 DEF Flight, IsSeq
  <2> QED
    BY <1>1, <2>1
<1>3. CASE pend # <<>>
  <2> DEFINE p == pend[1]
  <2>1. pend \in Seq(Range(pend)) /\ up \in Seq(Range(up)) /\ Len(pend) <= 1
    BY DEF Flight, IsSeq
  <2>2. pend = <<p>>
    <3>1. Len(pend) \in Nat \ {0} /\ DOMAIN pend = 1..Len(pend) /\ pend = [i \in DOMAIN pend |-> pend[i]]
      BY <1>3, <2>1, NotEmpty
    <3>2. Len(pend) = 1
      BY <2>1, <3>1
    <3>3. pend = [i \in 1..1 |-> p]
      BY <3>1, <3>2
    <3> QED
      BY <3>3
  <2> HIDE DEF p
  <2>3. up \o pend = Append(up, p)
    <3>1. up \in Seq(Range(up) \cup {p})
      BY <2>1
    <3> QED
      BY <2>2, <3>1
  <2>4. Range(pend) = {p} /\ \A type : Ids(pend, type) = IF p.type = type THEN {p.id} ELSE {}
    BY <2>2, Single
  <2>5. CASE p.type # "PUBLISH"
    <3>1. p.type \in Requests
      BY <2>4 DEF Flight
    <3> QED
      BY <1>1, <2>3, <2>5, <3>1, OtherWritten
  <2>6. CASE p.type = "PUBLISH"
    <3>1. con = TRUE \/ con # TRUE
      OBVIOUS
    <3>2. /\ \E e \in Range(out) : e.id = p.id /\ e.msg = p.msg
          /\ p.id \notin Ids(up, "PUBLISH") \cup Ids(dn, "PUBACK") /\ con
      BY <2>4, <2>6 DEF Flight
    <3>3. Flight(out, TRUE, up, dn, <<>>, got)
      BY <1>1, <3>2 DEF Flight
    <3>4. Flight(out, TRUE, Append(up, p), dn, <<>>, got)
      BY <2>6, <3>2, <3>3, Emptying, MessageWritten
    <3> QED
      BY <1>1, <2>3, <3>2, <3>4 DEF Flight
  <2> QED
    BY <2>5, <2>6
<1> QED
  BY <1>2, <1>3

\* The connection is lost, with what was on its way.
LEMMA PacketsLost ==
    ASSUME NEW out, NEW con, NEW up, NEW dn, NEW pend, NEW got,
           Flight(out, con, up, dn, pend, got)
    PROVE  Flight(out, con, <<>>, dn, pend, got) /\ Flight(out, con, <<>>, <<>>, pend, got)
BY Emptying DEF Flight

\* The broker takes a packet and answers it; a message it takes it has got.
LEMMA PacketAnswered ==
    ASSUME NEW out, NEW con, NEW up, NEW dn, NEW pend, NEW got, NEW got2,
           Flight(out, con, up, dn, pend, got), up # <<>>, got \subseteq got2,
           NEW a, a.id = Head(up).id, a.type = Reply(Head(up).type),
           Head(up).type = "PUBLISH" => Head(up).msg \in got2
    PROVE  Flight(out, con, Tail(up), Append(dn, a), pend, got2)
<1> DEFINE p == Head(up)
<1>1. IsSeq(up) /\ IsSeq(dn)
  BY DEF Flight
<1>2. /\ IsSeq(Tail(up)) /\ Range(up) = Range(Tail(up)) \cup {p}
      /\ Ids(up, "PUBLISH") = Ids(Tail(up), "PUBLISH") \cup (IF p.type = "PUBLISH" THEN {p.id} ELSE {})
      /\ Once(Tail(up), "PUBLISH")
      /\ p.type = "PUBLISH" => p.id \notin Ids(Tail(up), "PUBLISH")
  BY <1>1, Taking DEF Flight
<1>3. /\ a.type = "PUBACK" => a.id \notin Ids(dn, "PUBACK")
      /\ a.type = "PUBACK" <=> p.type = "PUBLISH"
  <2>1. p.type \in Requests
    BY <1>2 DEF Flight
  <2>2. a.type = "PUBACK" <=> p.type = "PUBLISH"
    BY <2>1 DEF Requests, Reply
  <2> HIDE DEF p
  <2>3. p.type = "PUBLISH" => p.id \in Ids(up, "PUBLISH")
    BY <1>2
  <2> QED
    BY <2>2, <2>3 DEF Flight, p
<1>4. /\ IsSeq(Append(dn, a)) /\ Range(Append(dn, a)) = Range(dn) \cup {a}
      /\ Ids(Append(dn, a), "PUBACK") = Ids(dn, "PUBACK") \cup (IF a.type = "PUBACK" THEN {a.id} ELSE {})
      /\ Once(Append(dn, a), "PUBACK")
  <2>1. Once(dn, "PUBACK")
    BY Zenon DEF Flight
  <2> QED
    BY <1>1, <1>3, <2>1, Appending
<1> HIDE DEF p
<1>5. CASE p.type = "PUBLISH"
  <2>1. p.id \in Ids(up, "PUBLISH") /\ p \in Range(up)
    BY <1>2, <1>5
  <2>2. PICK e \in Range(out) : e.id = p.id /\ e.msg = p.msg
    BY <1>5, <2>1 DEF Flight
  <2>3. \A x \in Range(Append(dn, a)) :
           x.type = "PUBACK" => \E f \in Range(out) : f.id = x.id /\ f.msg \in got2
    BY <1>3, <1>4, <1>5, <2>2 DEF Flight, p
  <2>4. con
    BY <2>1 DEF Flight
  <2>5. /\ Ids(Tail(up), "PUBLISH") \cap Ids(pend, "PUBLISH") = {}
        /\ Ids(Tail(up), "PUBLISH") \cap Ids(Append(dn, a), "PUBACK") = {}
        /\ Ids(pend, "PUBLISH") \cap Ids(Append(dn, a), "PUBACK") = {}
    BY <1>2, <1>3, <1>4, <1>5, <2>1 DEF Flight, p
  <2> QED
    BY <1>2, <1>4, <2>3, <2>4, <2>5 DEF Flight
<1>6. CASE p.type # "PUBLISH"
  <2>1. Ids(Tail(up), "PUBLISH") = Ids(up, "PUBLISH") /\ Ids(Append(dn, a), "PUBACK") = Ids(dn, "PUBACK")
    BY <1>2, <1>3, <1>4, <1>6 DEF p
  <2> QED
    BY <1>2, <1>3, <1>4, <1>6, <2>1 DEF Flight, p
<1> QED
  BY <1>5, <1>6

\* The broker sends something else.
LEMMA OtherSent ==
    ASSUME NEW out, NEW con, NEW up, NEW dn, NEW pend, NEW got,
           Flight(out, con, up, dn, pend, got), NEW p, p.type # "PUBACK"
    PROVE  Flight(out, con, up, Append(dn, p), pend, got)
<1>1. IsSeq(dn)
  BY DEF Flight
<1>2. /\ IsSeq(Append(dn, p)) /\ Range(Append(dn, p)) = Range(dn) \cup {p}
      /\ Ids(Append(dn, p), "PUBACK") = Ids(dn, "PUBACK") \cup (IF p.type = "PUBACK" THEN {p.id} ELSE {})
      /\ Once(dn, "PUBACK") => Once(Append(dn, p), "PUBACK")
  BY <1>1, Appending
<1>3. Ids(Append(dn, p), "PUBACK") = Ids(dn, "PUBACK")
  BY <1>2
<1> QED
  BY <1>2, <1>3 DEF Flight

\* A packet other than a PUBACK is read.
LEMMA OtherRead ==
    ASSUME NEW out, NEW con, NEW up, NEW dn, NEW pend, NEW got,
           Flight(out, con, up, dn, pend, got), dn # <<>>
    PROVE  /\ Flight(out, con, up, Tail(dn), pend, got)
           /\ Head(dn).type = "PUBACK" => Head(dn).id \notin Ids(Tail(dn), "PUBACK")
<1>1. IsSeq(dn) /\ Once(dn, "PUBACK")
  BY DEF Flight
<1>2. /\ IsSeq(Tail(dn)) /\ Range(dn) = Range(Tail(dn)) \cup {Head(dn)}
      /\ Ids(dn, "PUBACK") = Ids(Tail(dn), "PUBACK")
            \cup (IF Head(dn).type = "PUBACK" THEN {Head(dn).id} ELSE {})
      /\ Once(Tail(dn), "PUBACK")
      /\ Head(dn).type = "PUBACK" => Head(dn).id \notin Ids(Tail(dn), "PUBACK")
  BY <1>1, Taking
<1>3. Ids(Tail(dn), "PUBACK") \subseteq Ids(dn, "PUBACK")
  BY <1>2
<1> QED
  BY <1>2, <1>3 DEF Flight

\* MQTTProtocol_handlePubacks takes the message out; the others stay.
LEMMA MessageRemoved ==
    ASSUME NEW out, IsSeq(out), Distinct(out), NEW id
    PROVE  LET r == handlePubacks(out, id)
           IN  /\ IsSeq(r) /\ Distinct(r)
               /\ Range(r) = {e \in Range(out) : e.id # id}
<1> DEFINE I == {i \in 1..Len(out) : out[i].id = id}
           k == Min(I)
           h == handlePubacks(out, id)
           S == Range(out)
<1> SUFFICES IsSeq(h) /\ Distinct(h) /\ Range(h) = {e \in Range(out) : e.id # id}
  OBVIOUS
<1>1. out \in Seq(S)
  BY DEF IsSeq
<1>2. \A x : x \in S <=> \E i \in 1..Len(out) : x = out[i]
  BY <1>1, Sequences
<1>3. Len(out) \in Nat
  BY <1>1
<1>0. DOMAIN out = 1..Len(out)
  BY <1>1
<1>4. CASE I = {}
  <2>1. h = out
    BY <1>0, <1>4 DEF handlePubacks
  <2>2. \A e \in Range(out) : e.id # id
    BY <1>2, <1>4
  <2> QED
    BY <2>1, <2>2
<1>5. CASE I # {}
  <2>1. k \in I
    <3>1. PICK i \in I : TRUE
      BY <1>5
    <3>2. I = {i} /\ i \in Nat
      BY <1>3, <3>1 DEF Distinct
    <3> HIDE DEF I
    <3> QED
      BY <3>2 DEF Min
  <2>2. h = SubSeq(out, 1, k - 1) \o SubSeq(out, k + 1, Len(out))
    BY <1>0, <1>5 DEF handlePubacks
  <2>3. k \in 1..Len(out) /\ out[k].id = id
    BY <2>1
  <2> HIDE DEF k, h, S
  <2> DEFINE a == SubSeq(out, 1, k - 1)
             b == SubSeq(out, k + 1, Len(out))
             r == a \o b
             n == Len(out)
             m(i) == IF i < k THEN i ELSE i + 1
  <2>4. /\ a \in Seq(S) /\ Len(a) = k - 1 /\ \A i \in 1..(k - 1) : a[i] = out[i]
        /\ b \in Seq(S) /\ Len(b) = n - k /\ \A i \in 1..(n - k) : b[i] = out[k + i]
    BY <1>1, <2>3
  <2> HIDE DEF a, b
  <2>5. /\ r \in Seq(S) /\ Len(r) = n - 1
        /\ \A i \in 1..(n - 1) : r[i] = IF i <= k - 1 THEN a[i] ELSE b[i - (k - 1)]
    <3>1. /\ r \in Seq(S) /\ Len(r) = Len(a) + Len(b)
          /\ \A i \in 1..(Len(a) + Len(b)) : r[i] = IF i <= Len(a) THEN a[i] ELSE b[i - Len(a)]
      BY <2>4, Joined
    <3> HIDE DEF r
    <3> QED
      BY <1>3, <2>3, <2>4, <3>1
  <2> HIDE DEF r
  <2>6. ASSUME NEW i \in 1..Len(r) PROVE m(i) \in 1..n /\ m(i) # k /\ out[m(i)] = r[i]
    <3>1. CASE i < k
      BY <1>3, <2>3, <2>4, <2>5, <3>1
    <3>2. CASE ~(i < k)
      <4>1. i - (k - 1) \in 1..(n - k) /\ k + (i - (k - 1)) = i + 1
        BY <1>3, <2>3, <2>5, <3>2
      <4> QED
        BY <1>3, <2>3, <2>4, <2>5, <3>2, <4>1
    <3> QED
      BY <3>1, <3>2
  <2>7. ASSUME NEW j \in 1..n, j # k PROVE \E i \in 1..Len(r) : m(i) = j
    <3>1. CASE j < k
      <4>1. j \in 1..Len(r) /\ m(j) = j
        BY <1>3, <2>3, <2>5, <3>1
      <4> QED
        BY <4>1
    <3>2. CASE j > k
      <4>1. j - 1 \in 1..Len(r) /\ m(j - 1) = j
        BY <1>3, <2>3, <2>5, <3>2
      <4> QED
        BY <4>1
    <3> QED
      BY <1>3, <2>3, <2>7, <3>1, <3>2
  <2>8. ASSUME NEW i \in 1..Len(r), NEW j \in 1..Len(r) PROVE m(i) = m(j) => i = j
    BY <2>3
  <2> HIDE DEF m
  <2>9. Distinct(r)
    BY <2>6, <2>8 DEF Distinct
  <2>10. IsSeq(r) /\ \A x : x \in Range(r) <=> \E i \in 1..Len(r) : x = r[i]
    BY <2>5, Sequences
  <2>11. ASSUME NEW x \in Range(r) PROVE x \in Range(out) /\ x.id # id
    <3>1. PICK i \in 1..Len(r) : x = r[i]
      BY <2>10
    <3>2. m(i) \in 1..n /\ m(i) # k /\ out[m(i)] = x
      BY <2>6, <3>1
    <3>3. x.id # id
      BY <2>3, <3>2 DEF Distinct
    <3> QED
      BY <1>2, <3>2, <3>3 DEF S
  <2>12. ASSUME NEW x \in Range(out), x.id # id PROVE x \in Range(r)
    <3>1. PICK j \in 1..n : x = out[j]
      BY <1>2 DEF S
    <3>2. PICK i \in 1..Len(r) : m(i) = j
      BY <2>3, <2>7, <2>12, <3>1
    <3> QED
      BY <2>6, <2>10, <3>1, <3>2
  <2>13. h = r
    BY <2>2 DEF r, a, b
  <2> QED
    BY <2>9, <2>10, <2>11, <2>12, <2>13
<1> QED
  BY <1>4, <1>5

\* A PUBACK is read: the message it answers, which the broker has got, is done
\* with, and no other packet is about it.
LEMMA PubackRead ==
    ASSUME NEW out, NEW con, NEW up, NEW dn, NEW pend, NEW got,
           Flight(out, con, up, dn, pend, got), dn # <<>>, Head(dn).type = "PUBACK"
    PROVE  LET id == Head(dn).id
               r  == handlePubacks(out, id)
           IN  /\ Flight(r, con, up, Tail(dn), pend, got)
               /\ Range(r) = {e \in Range(out) : e.id # id}
               /\ \A e \in Range(out) : e.id = id => e.msg \in got
<1> DEFINE id == Head(dn).id
           r  == handlePubacks(out, id)
<1>1. Flight(out, con, up, Tail(dn), pend, got) /\ id \notin Ids(Tail(dn), "PUBACK")
  BY OtherRead
<1>2. IsSeq(r) /\ Distinct(r) /\ Range(r) = {e \in Range(out) : e.id # id}
  BY MessageRemoved DEF Flight
<1>3. Head(dn) \in Range(dn) /\ id \in Ids(dn, "PUBACK")
  <2>1. IsSeq(dn)
    BY DEF Flight
  <2>2. Range(dn) = Range(Tail(dn)) \cup {Head(dn)}
    BY <2>1, Taking
  <2> QED
    BY <2>2 DEF Ids
<1>4. \A e \in Range(out) : e.id = id => e.msg \in got
  <2> SUFFICES ASSUME NEW e \in Range(out), e.id = id PROVE e.msg \in got
    OBVIOUS
  <2>1. PICK f \in Range(out) : f.id = id /\ f.msg \in got
    BY <1>3 DEF Flight
  <2>0. out \in Seq(Range(out))
    BY DEF Flight, IsSeq
  <2>2. \A x : x \in Range(out) <=> \E i \in 1..Len(out) : x = out[i]
    BY <2>0, Sequences
  <2>3. e = f
    BY <2>1, <2>2 DEF Flight, Distinct
  <2> QED
    BY <2>1, <2>3
<1>5. id \notin Ids(up, "PUBLISH") \cup Ids(pend, "PUBLISH")
  BY <1>3 DEF Flight
<1> HIDE DEF r, id
<1>6. \A x \in Range(up) \cup Range(pend) : x.type = "PUBLISH" => x.id # id
  BY <1>5 DEF Ids
<1>7. \A x \in Range(Tail(dn)) : x.type = "PUBACK" => x.id # id
  BY <1>1 DEF Ids
<1>8. Flight(r, con, up, Tail(dn), pend, got)
  BY <1>1, <1>2, <1>6, <1>7 DEF Flight
<1> QED
  BY <1>2, <1>4, <1>8 DEF r, id

\* The packets that carry the first messages in flight once more.
Again(again, out, conn) ==
    /\ IsSeq(again) /\ Len(again) \in 0..Len(out)
    /\ \A i \in 1..Len(again) : again[i] = Publish(out[i].id, conn, out[i].msg)

\* connacked puts all of them together, one packet for each message in flight.
LEMMA AllAgain ==
    ASSUME NEW out, IsSeq(out), NEW conn, NEW again,
           again = [i \in DOMAIN out |-> Publish(out[i].id, conn, out[i].msg)]
    PROVE  Again(again, out, conn) /\ Len(again) = Len(out)
<1>1. Len(out) \in Nat /\ DOMAIN out = 1..Len(out)
  BY DEF IsSeq
<1>2. again \in Seq(Range(again)) /\ Len(again) = Len(out)
  BY <1>1 DEF Range
<1>3. \A i \in 1..Len(again) : again[i] = Publish(out[i].id, conn, out[i].msg)
  BY <1>1, <1>2
<1> QED
  BY <1>1, <1>2, <1>3 DEF IsSeq, Again

\* The messages in flight that were written are among these.
Carried(up, out, k) ==
    \A x \in Range(up) : x.type = "PUBLISH" => \E i \in 1..k : x.id = out[i].id

\* After the CONNACK the first messages in flight are sent again.
LEMMA SentAgain ==
    ASSUME NEW out, NEW up, NEW dn, NEW pend, NEW got, NEW conn, NEW again,
           Flight(out, FALSE, up, dn, pend, got), Again(again, out, conn)
    PROVE  Flight(out, TRUE, up \o again, dn, pend, got) /\ Carried(up \o again, out, Len(again))
<1> DEFINE S == Range(up) \cup Range(again)
           r == up \o again
           L == Len(up)
           k == Len(again)
<1>1. out \in Seq(Range(out)) /\ up \in Seq(Range(up)) /\ again \in Seq(Range(again))
  BY DEF Flight, IsSeq, Again
<1>2. Len(out) \in Nat /\ L \in Nat /\ k \in Nat /\ k <= Len(out)
  BY <1>1 DEF Again
<1>3. /\ \A x : x \in Range(out) <=> \E i \in 1..Len(out) : x = out[i]
      /\ \A x : x \in Range(up) <=> \E i \in 1..L : x = up[i]
  BY <1>1, Sequences
<1>4. again \in Seq(S)
  BY <1>1
<1>5. \A i \in 1..k :
         again[i].type = "PUBLISH" /\ again[i].id = out[i].id /\ again[i].msg = out[i].msg
  <2>1. \A i \in 1..k : again[i] = Publish(out[i].id, conn, out[i].msg)
    BY DEF Again
  <2> HIDE DEF k
  <2> QED
    BY <2>1 DEF Publish, Packet
<1>6. up \in Seq(S)
  BY <1>1
<1>7. /\ r \in Seq(S) /\ Len(r) = L + k
      /\ \A i \in 1..(L + k) : r[i] = IF i <= L THEN up[i] ELSE again[i - L]
  <2> HIDE DEF S
  <2>1. /\ r \in Seq(S) /\ Len(r) = L + Len(again)
        /\ \A i \in 1..(L + Len(again)) : r[i] = IF i <= L THEN up[i] ELSE again[i - L]
    BY <1>4, <1>6, Joined
  <2> HIDE DEF r, L
  <2> QED
    BY <2>1
<1> HIDE DEF S, r, L, k
<1>8. IsSeq(r) /\ \A x : x \in Range(r) <=> \E i \in 1..Len(r) : x = r[i]
  BY <1>7, Sequences
<1>9. Ids(up, "PUBLISH") = {} /\ Ids(pend, "PUBLISH") = {} /\ Ids(dn, "PUBACK") = {}
  BY DEF Flight
<1>10. ASSUME NEW i \in 1..Len(r), r[i].type = "PUBLISH"
       PROVE  i - L \in 1..k /\ r[i] = again[i - L]
  <2>1. CASE i <= L
    <3>1. i \in 1..L /\ r[i] = up[i]
      BY <1>2, <1>7, <2>1
    <3>2. up[i].id \in Ids(up, "PUBLISH")
      BY <1>3, <1>10, <3>1 DEF Ids
    <3> QED
      BY <1>9, <3>2
  <2>2. CASE ~(i <= L)
    BY <1>2, <1>7, <2>2
  <2> QED
    BY <2>1, <2>2
<1>11. Once(r, "PUBLISH")
  <2> SUFFICES ASSUME NEW i \in 1..Len(r), NEW j \in 1..Len(r),
                      r[i].type = "PUBLISH", r[j].type = "PUBLISH", r[i].id = r[j].id
               PROVE  i = j
    BY DEF Once
  <2>1. /\ i - L \in 1..k /\ r[i] = again[i - L]
        /\ j - L \in 1..k /\ r[j] = again[j - L]
    BY <1>10
  <2>2. out[i - L].id = out[j - L].id
    BY <1>5, <2>1
  <2>3. i - L = j - L
    BY <1>2, <2>1, <2>2 DEF Flight, Distinct
  <2> QED
    BY <1>2, <1>7, <2>3
<1>12. ASSUME NEW x \in Range(r), x.type = "PUBLISH"
       PROVE  /\ \E e \in Range(out) : e.id = x.id /\ e.msg = x.msg
              /\ \E i \in 1..k : x.id = out[i].id
  <2>1. PICK i \in 1..Len(r) : x = r[i]
    BY <1>8
  <2>2. i - L \in 1..k /\ x = again[i - L]
    BY <1>10, <1>12, <2>1
  <2>3. out[i - L].id = x.id /\ out[i - L].msg = x.msg
    BY <1>5, <2>2
  <2>4. out[i - L] \in Range(out)
    BY <1>2, <1>3, <2>2
  <2> QED
    BY <2>2, <2>3, <2>4
<1>13. ASSUME NEW x \in Range(r) PROVE x.type \in Requests
  <2>1. PICK i \in 1..Len(r) : x = r[i]
    BY <1>8
  <2>2. CASE i <= L
    <3>1. i \in 1..L /\ i \in 1..(L + k)
      BY <1>2, <1>7, <2>1, <2>2
    <3>2. r[i] = up[i]
      BY <1>7, <2>2, <3>1
    <3> QED
      BY <1>3, <2>1, <3>1, <3>2 DEF Flight
  <2>3. CASE ~(i <= L)
    <3>1. i - L \in 1..k /\ r[i] = again[i - L]
      BY <1>2, <1>7, <2>1, <2>3
    <3> QED
      BY <1>5, <2>1, <3>1, ZenonT(30) DEF Requests
  <2> QED
    BY <2>2, <2>3
<1>14. Flight(out, TRUE, r, dn, pend, got)
  BY <1>8, <1>9, <1>11, <1>12, <1>13 DEF Flight
<1> QED
  BY <1>12, <1>14 DEF r, k, Carried

\* The write of one of them is cut short, and those behind it are not sent.
LEMMA SentPartly ==
    ASSUME NEW out, NEW up, NEW dn, NEW pend, NEW got, NEW conn, NEW again, NEW cut,
           Flight(out, FALSE, up, dn, pend, got), cut \in 1..Len(out),
           Again(again, out, conn), Len(again) = Len(out)
    PROVE  Flight(out, TRUE, up \o SubSeq(again, 1, cut - 1), dn, <<again[cut]>>, got)
<1> DEFINE a == SubSeq(again, 1, cut - 1)
           r == up \o a
           p == again[cut]
<1>1. out \in Seq(Range(out)) /\ again \in Seq(Range(again))
  BY DEF Flight, IsSeq, Again
<1>2. Len(out) \in Nat /\ cut - 1 \in 0..Len(out)
  BY <1>1
<1>3. a \in Seq(Range(again)) /\ Len(a) = cut - 1 /\ \A i \in 1..(cut - 1) : a[i] = again[i]
  BY <1>1, <1>2
<1>4. Again(a, out, conn)
  <2>1. IsSeq(a)
    BY <1>3, Sequences
  <2> HIDE DEF a
  <2> QED
    BY <1>2, <1>3, <2>1 DEF Again
<1> HIDE DEF a
<1>5. Flight(out, TRUE, r, dn, pend, got) /\ Carried(r, out, cut - 1)
  <2>1. Flight(out, TRUE, r, dn, pend, got) /\ Carried(r, out, Len(a))
    BY <1>4, SentAgain, ZenonT(30)
  <2> QED
    BY <1>3, <2>1, Zenon
<1> HIDE DEF r
<1>13. p = Publish(out[cut].id, conn, out[cut].msg)
  BY DEF Again
<1> HIDE DEF p
<1>6. p.type = "PUBLISH" /\ p.id = out[cut].id /\ p.msg = out[cut].msg
  BY <1>13 DEF Publish, Packet
<1>7. /\ IsSeq(<<p>>) /\ Len(<<p>>) = 1 /\ Range(<<p>>) = {p} /\ Ids(<<p>>, "PUBLISH") = {p.id}
  BY <1>6, Single
<1>8. p.id \notin Ids(r, "PUBLISH")
  <2> SUFFICES ASSUME NEW x \in Range(r), x.type = "PUBLISH", x.id = p.id PROVE FALSE
    BY DEF Ids
  <2>1. PICK i \in 1..(cut - 1) : x.id = out[i].id
    BY <1>5 DEF Carried
  <2>2. i \in 1..Len(out) /\ i # cut
    BY <1>2, <2>1
  <2> QED
    BY <1>6, <2>1, <2>2 DEF Flight, Distinct
<1>9. Ids(dn, "PUBACK") = {}
  BY DEF Flight
<1>10. out[cut] \in Range(out)
  BY <1>1, Sequences
<1>11. p.type \in Requests /\ \E e \in Range(out) : e.id = p.id /\ e.msg = p.msg
  BY <1>6, <1>10, Zenon DEF Requests
<1>12. Flight(out, TRUE, r, dn, <<p>>, got)
  BY <1>5, <1>7, <1>8, <1>9, <1>11 DEF Flight
<1> QED
  BY <1>12 DEF r, a, p

-----------------------------------------------------------------------------
(* The state a locked section transforms. *)

\* A function, or a record, with these fields.
Fields(f, D) == f = [x \in D |-> f[x]]

StateFields  == {"client", "handle", "lib", "run", "thr", "locks", "net"}
ClientFields == {"connected", "state", "sock", "conn", "outbound", "queue", "msgID", "pubs", "crossed"}
NetFields    == {"up", "dn", "pend", "alive", "tcp"}
ThreadFields == {"prog", "at", "token", "last"}
AtFields     == {"pc", "await", "mode", "version", "late", "rc", "got", "asked", "lost", "clean"}
LockFields   == {"connect", "SUBSCRIBE", "UNSUBSCRIBE"}

ThreadShape(y) == Fields(y, ThreadFields) /\ Fields(y.at, AtFields)

\* The state has the fields that Init gives it.
Shape(s) ==
    /\ Fields(s, StateFields) /\ Fields(s.client, ClientFields) /\ Fields(s.net, NetFields)
    /\ Fields(s.locks, LockFields) /\ Fields(s.thr, Threads)
    /\ \A u \in Threads : ThreadShape(s.thr[u])

\* The message of a token is in flight until the broker has it.
TokenKept(token, out, got) == token = NoToken \/ token.msg \in got \/ token \in Range(out)

Core(s, got) ==
    /\ Shape(s)
    /\ Flight(s.client.outbound, s.client.connected, s.net.up, s.net.dn, s.net.pend, got)
    /\ \A u \in Threads : TokenKept(s.thr[u].token, s.client.outbound, got)

\* While a thread connects the client is not connected.
NotYet(s) == s.locks.connect # "none" => ~s.client.connected

Connecting == {"tcp", "ws", "CONNACK"}

\* A thread in a call has the call ahead of its program; one that waits for a
\* connection holds connect_mutex; and what a successful wait was for the broker has.
Fine(y, lock, u, got) ==
    /\ IsSeq(y.prog)
    /\ y.at # Idle => /\ y.at.pc # "idle" /\ y.prog # <<>>
                      /\ Head(y.prog) = "wait" => y.at.pc = "awaiting"
    /\ y.at.pc \in {"enter", "wait", "turn", "read", "locked"} =>
          /\ y.at.await \in Connecting \cup {"SUBACK", "UNSUBACK"}
          /\ y.at.await \in Connecting => lock = u
    /\ y.at.pc = "stopping" /\ y.at.rc = "disconnected" => lock = u
    /\ y.at = Idle /\ y.last.op = "wait" /\ y.last.rc = "ok" => y.token.msg \in got

\* Between the steps, and within a step of thread t in a call other than wait.
Sound(s, got) ==
    /\ Core(s, got) /\ NotYet(s)
    /\ \A u \in Threads : Fine(s.thr[u], s.locks.connect, u, got)

Acting(s, t, got) ==
    /\ Core(s, got)
    /\ \A u \in Threads \ {t} : Fine(s.thr[u], s.locks.connect, u, got)
    /\ IsSeq(s.thr[t].prog) /\ s.thr[t].prog # <<>> /\ Head(s.thr[t].prog) # "wait"

\* The inductive invariant.
SyncInv ==
    /\ scene \in Scenarios
    /\ broker = [accepted |-> broker.accepted, got |-> broker.got,
                 left |-> broker.left]
    /\ ~scene.cleansession => Sound(Now, broker.got)

\* s2 has the messages, packets, threads and locks of s.
Same(s, s2) ==
    /\ Shape(s2)
    /\ s2.client.outbound = s.client.outbound /\ s2.client.connected = s.client.connected
    /\ s2.net.up = s.net.up /\ s2.net.dn = s.net.dn /\ s2.net.pend = s.net.pend
    /\ s2.thr = s.thr /\ s2.locks = s.locks

\* A state with the same client, threads, locks and connection is as sound.
LEMMA SameKeeps ==
    ASSUME NEW s, NEW s2, NEW got, Same(s, s2)
    PROVE  /\ Sound(s, got) => Sound(s2, got)
           /\ \A t \in Threads : Acting(s, t, got) => Acting(s2, t, got)
           /\ NotYet(s) => NotYet(s2)
<1>1. Core(s, got) => Core(s2, got)
  BY DEF Same, Core
<1>2. NotYet(s) => NotYet(s2)
  BY DEF Same, NotYet
<1> QED
  BY <1>1, <1>2 DEF Same, Sound, Acting

\* A thread keeps its state when another releases or takes the lock.
LEMMA FineKept ==
    ASSUME NEW y, NEW lock, NEW lock2, NEW u, NEW got, Fine(y, lock, u, got),
           lock = u => lock2 = u
    PROVE  Fine(y, lock2, u, got)
BY DEF Fine

\* A thread in a call that is not a wait acts.
LEMMA InCall ==
    ASSUME NEW s, NEW got, Sound(s, got), NEW t \in Threads
    PROVE  /\ s.thr[t].at.pc \notin {"idle", "awaiting"} => Acting(s, t, got)
           /\ s.thr[t].prog # <<>> /\ Head(s.thr[t].prog) # "wait" => Acting(s, t, got)
<1>1. Fine(s.thr[t], s.locks.connect, t, got) /\ Core(s, got)
      /\ \A u \in Threads \ {t} : Fine(s.thr[u], s.locks.connect, u, got)
  BY DEF Sound
<1>2. Idle.pc = "idle"
  BY DEF Idle
<1> QED
  BY <1>1, <1>2 DEF Acting, Fine


\* One field of the state is replaced.
ClientPut(s, c)    == [s EXCEPT !.client = c]
NetPut(s, n)       == [s EXCEPT !.net = n]
LocksPut(s, k)     == [s EXCEPT !.locks = k]
HandlePut(s, h)    == [s EXCEPT !.handle = h]
LibPut(s, l)       == [s EXCEPT !.lib = l]
RunPut(s, r)       == [s EXCEPT !.run = r]
ThreadPut(s, t, y) == [s EXCEPT !.thr[t] = y]
AtPut(s, t, x)     == [s EXCEPT !.thr[t].at = x]

\* s2 is s with one part replaced.
ClientIs(s, s2, c) ==
    /\ Shape(s2) /\ s2.client = c /\ s2.net = s.net /\ s2.thr = s.thr /\ s2.locks = s.locks
    /\ s2.lib = s.lib /\ s2.run = s.run /\ s2.handle = s.handle
NetIs(s, s2, n) ==
    /\ Shape(s2) /\ s2.net = n /\ s2.client = s.client /\ s2.thr = s.thr /\ s2.locks = s.locks
    /\ s2.lib = s.lib /\ s2.run = s.run /\ s2.handle = s.handle
LocksAre(s, s2, k) ==
    /\ Shape(s2) /\ s2.locks = k /\ s2.client = s.client /\ s2.thr = s.thr /\ s2.net = s.net
    /\ s2.lib = s.lib /\ s2.run = s.run /\ s2.handle = s.handle
ThreadIs(s, s2, t, y) ==
    /\ Shape(s2) /\ s2.thr[t] = y /\ \A u \in Threads \ {t} : s2.thr[u] = s.thr[u]
    /\ s2.client = s.client /\ s2.net = s.net /\ s2.locks = s.locks
    /\ s2.lib = s.lib /\ s2.run = s.run /\ s2.handle = s.handle
AtIs(s, s2, t, x) ==
    /\ Shape(s2) /\ s2.thr[t].at = x /\ s2.thr[t].prog = s.thr[t].prog
    /\ s2.thr[t].token = s.thr[t].token /\ s2.thr[t].last = s.thr[t].last
    /\ \A u \in Threads \ {t} : s2.thr[u] = s.thr[u]
    /\ s2.client = s.client /\ s2.net = s.net /\ s2.locks = s.locks
    /\ s2.lib = s.lib /\ s2.run = s.run /\ s2.handle = s.handle

\* What changes the client alone leaves the other parts of the state, and its shape.
LEMMA ClientPutKeeps ==
    ASSUME NEW s, Shape(s), NEW c, Fields(c, ClientFields)
    PROVE  ClientIs(s, ClientPut(s, c), c)
<1> DEFINE s2 == ClientPut(s, c)
<1>1. /\ Fields(s2, StateFields)
      /\ s2.client = c /\ s2.net = s.net /\ s2.thr = s.thr /\ s2.locks = s.locks
      /\ s2.lib = s.lib /\ s2.run = s.run /\ s2.handle = s.handle
  BY DEF Shape, Fields, StateFields, ClientPut
<1> HIDE DEF s2
<1> QED
  BY <1>1 DEF Shape, ClientIs, s2

\* The same for the connection.
LEMMA NetPutKeeps ==
    ASSUME NEW s, Shape(s), NEW n, Fields(n, NetFields)
    PROVE  NetIs(s, NetPut(s, n), n)
<1> DEFINE s2 == NetPut(s, n)
<1>1. /\ Fields(s2, StateFields)
      /\ s2.net = n /\ s2.client = s.client /\ s2.thr = s.thr /\ s2.locks = s.locks
      /\ s2.lib = s.lib /\ s2.run = s.run /\ s2.handle = s.handle
  BY DEF Shape, Fields, StateFields, NetPut
<1> HIDE DEF s2
<1> QED
  BY <1>1 DEF Shape, NetIs, s2

\* For the mutexes.
LEMMA LocksPutKeeps ==
    ASSUME NEW s, Shape(s), NEW k, Fields(k, LockFields)
    PROVE  LocksAre(s, LocksPut(s, k), k)
<1> DEFINE s2 == LocksPut(s, k)
<1>1. /\ Fields(s2, StateFields)
      /\ s2.locks = k /\ s2.client = s.client /\ s2.thr = s.thr /\ s2.net = s.net
      /\ s2.lib = s.lib /\ s2.run = s.run /\ s2.handle = s.handle
  BY DEF Shape, Fields, StateFields, LocksPut
<1> HIDE DEF s2
<1> QED
  BY <1>1 DEF Shape, LocksAre, s2

\* The semaphores, m->pack, m->rc, and the background thread matter to nothing here.
LEMMA OtherPutKeeps ==
    ASSUME NEW s, Shape(s), NEW v
    PROVE  /\ Same(s, HandlePut(s, v)) /\ HandlePut(s, v).lib = s.lib /\ HandlePut(s, v).client = s.client
           /\ Same(s, LibPut(s, v)) /\ LibPut(s, v).client = s.client
           /\ Same(s, RunPut(s, v)) /\ RunPut(s, v).lib = s.lib /\ RunPut(s, v).client = s.client
<1> DEFINE Kept(s2) == s2.net = s.net /\ s2.client = s.client /\ s2.thr = s.thr /\ s2.locks = s.locks
<1>1. ASSUME NEW s2, Fields(s2, StateFields), Kept(s2) PROVE Same(s, s2)
  BY <1>1 DEF Same, Shape
<1>2. Fields(HandlePut(s, v), StateFields) /\ Kept(HandlePut(s, v)) /\ HandlePut(s, v).lib = s.lib
  BY DEF Shape, Fields, StateFields, HandlePut
<1>3. Fields(LibPut(s, v), StateFields) /\ Kept(LibPut(s, v))
  BY DEF Shape, Fields, StateFields, LibPut
<1>4. Fields(RunPut(s, v), StateFields) /\ Kept(RunPut(s, v)) /\ RunPut(s, v).lib = s.lib
  BY DEF Shape, Fields, StateFields, RunPut
<1> QED
  BY <1>1, <1>2, <1>3, <1>4

\* For one thread of the application.
LEMMA ThreadPutKeeps ==
    ASSUME NEW s, Shape(s), NEW t \in Threads, NEW y, ThreadShape(y)
    PROVE  ThreadIs(s, ThreadPut(s, t, y), t, y)
<1> DEFINE s2 == ThreadPut(s, t, y)
<1>1. /\ Fields(s2, StateFields) /\ s2.thr = [s.thr EXCEPT ![t] = y]
      /\ s2.client = s.client /\ s2.net = s.net /\ s2.locks = s.locks
      /\ s2.lib = s.lib /\ s2.run = s.run /\ s2.handle = s.handle
  BY DEF Shape, Fields, StateFields, ThreadPut
<1> HIDE DEF s2
<1>2. Fields(s2.thr, Threads) /\ s2.thr[t] = y /\ \A u \in Threads \ {t} : s2.thr[u] = s.thr[u]
  BY <1>1 DEF Shape, Fields
<1>3. \A u \in Threads : ThreadShape(s2.thr[u])
  BY <1>2 DEF Shape
<1> QED
  BY <1>1, <1>2, <1>3 DEF Shape, ThreadIs, s2

\* For where a thread is in its call.
LEMMA AtPutKeeps ==
    ASSUME NEW s, Shape(s), NEW t \in Threads, NEW x, Fields(x, AtFields)
    PROVE  AtIs(s, AtPut(s, t, x), t, x)
<1> DEFINE y == [s.thr[t] EXCEPT !.at = x]
<1>1. Fields(s.thr[t], ThreadFields)
  BY DEF Shape, ThreadShape
<1>2. /\ Fields(y, ThreadFields) /\ y.at = x /\ y.prog = s.thr[t].prog
      /\ y.token = s.thr[t].token /\ y.last = s.thr[t].last
  BY <1>1 DEF Fields, ThreadFields
<1>3. ThreadShape(y)
  BY <1>2 DEF ThreadShape
<1>4. AtPut(s, t, x) = ThreadPut(s, t, y)
  BY DEF AtPut, ThreadPut
<1> HIDE DEF y
<1>5. ThreadIs(s, ThreadPut(s, t, y), t, y)
  BY <1>3, ThreadPutKeeps, Zenon
<1> QED
  BY <1>2, <1>4, <1>5, Zenon DEF ThreadIs, AtIs

\* The threads' states are those of s, but for thread t.
LEMMA ThreadChanged ==
    ASSUME NEW s, NEW s2, NEW t \in Threads, NEW got, Core(s, got), Shape(s2),
           s2.client.outbound = s.client.outbound, s2.client.connected = s.client.connected,
           s2.net.up = s.net.up, s2.net.dn = s.net.dn, s2.net.pend = s.net.pend,
           s2.thr[t].token = s.thr[t].token, \A u \in Threads \ {t} : s2.thr[u] = s.thr[u]
    PROVE  Core(s2, got)
<1>1. \A u \in Threads : s2.thr[u].token = s.thr[u].token
  OBVIOUS
<1> QED
  BY <1>1 DEF Core

\* A call returns, and releases what it held.
LEMMA Returns ==
    ASSUME NEW s, NEW got, NEW t \in Threads, NEW rc, Core(s, got),
           \A u \in Threads \ {t} : Fine(s.thr[u], s.locks.connect, u, got),
           IsSeq(s.thr[t].prog), s.thr[t].prog # <<>>,
           Head(s.thr[t].prog) = "wait" /\ rc = "ok" => s.thr[t].token.msg \in got,
           s.locks.connect \notin {"none", t} => ~s.client.connected
    PROVE  Sound(Return(s, t, rc), got)
<1> DEFINE x  == s.thr[t].at
           y  == s.thr[t]
           n  == [prog |-> Tail(y.prog), at |-> Idle, token |-> y.token,
                  last |-> [op |-> Head(y.prog), rc |-> rc, asked |-> x.asked, got |-> x.got,
                            clean |-> x.clean]]
           s1 == ThreadPut(s, t, n)
           k  == [l \in DOMAIN s1.locks |-> IF s1.locks[l] = t THEN "none" ELSE s1.locks[l]]
           s2 == LocksPut(s1, k)
<1>1. Shape(s)
  BY DEF Core
<1>2. ThreadShape(n) /\ n.token = y.token
  <2>1. Fields(n, ThreadFields) /\ n.at = Idle /\ n.token = y.token
    BY DEF Fields, ThreadFields
  <2>2. Fields(Idle, AtFields)
    BY DEF Fields, AtFields, Idle
  <2> QED
    BY <2>1, <2>2 DEF ThreadShape
<1> HIDE DEF n
<1>3. /\ Shape(s1) /\ s1.thr[t] = n /\ \A u \in Threads \ {t} : s1.thr[u] = s.thr[u]
      /\ s1.client = s.client /\ s1.net = s.net /\ s1.locks = s.locks
  <2>1. ThreadIs(s, s1, t, n)
    BY <1>1, <1>2, ThreadPutKeeps, Zenon
  <2> HIDE DEF s1
  <2> QED
    BY <1>1, <1>2, <2>1, Zenon DEF ThreadIs
<1>4. Return(s, t, rc) = s2
  BY DEF Return, LocksPut, ThreadPut, n
<1> HIDE DEF s1
<1>5. /\ Fields(k, LockFields)
      /\ k.connect = IF s.locks.connect = t THEN "none" ELSE s.locks.connect
  BY <1>1, <1>3 DEF Shape, Fields, LockFields
<1> HIDE DEF k
<1>9. /\ Shape(s2) /\ s2.thr = s1.thr /\ s2.client = s.client /\ s2.net = s.net /\ s2.locks = k
  <2>1. LocksAre(s1, s2, k)
    BY <1>3, <1>5, LocksPutKeeps, Zenon
  <2> HIDE DEF s2
  <2> QED
    BY <1>3, <1>5, <2>1, Zenon DEF LocksAre
<1> HIDE DEF s2
<1>10. Core(s2, got)
  BY <1>2, <1>3, <1>9, ThreadChanged
<1>6. s2.locks.connect = IF s.locks.connect = t THEN "none" ELSE s.locks.connect
  BY <1>5, <1>9
<1>7. NotYet(s2)
  BY <1>9, <1>6 DEF NotYet
<1>8. ASSUME NEW u \in Threads PROVE Fine(s2.thr[u], s2.locks.connect, u, got)
  <2>1. CASE u = t
    <3>1. IsSeq(Tail(y.prog))
      BY Taking
    <3>2. Fine(n, s2.locks.connect, t, got)
      BY <3>1 DEF Fine, Idle, n
    <3> QED
      BY <1>3, <1>9, <2>1, <3>2, Zenon
  <2>2. CASE u # t
    <3>1. Fine(s.thr[u], s.locks.connect, u, got)
      BY <2>2, Zenon
    <3>2. s2.thr[u] = s.thr[u]
      BY <1>3, <1>9, <2>2, Zenon
    <3>3. s.locks.connect = u => s2.locks.connect = u
      BY <1>6, <2>2, Zenon
    <3>4. Fine(s.thr[u], s2.locks.connect, u, got)
      BY <3>1, <3>3, FineKept, Zenon
    <3> QED
      BY <3>2, <3>4, Zenon
  <2> QED
    BY <2>1, <2>2
<1> QED
  BY <1>4, <1>10, <1>7, <1>8 DEF Sound

\* Within the call of thread t its own state may change.
LEMMA ActingAt ==
    ASSUME NEW s, NEW got, NEW t \in Threads, Acting(s, t, got), NEW x, Fields(x, AtFields)
    PROVE  Acting(AtPut(s, t, x), t, got) /\ AtIs(s, AtPut(s, t, x), t, x)
<1> DEFINE s2 == AtPut(s, t, x)
<1>1. Core(s, got) /\ Shape(s)
  BY DEF Acting, Core
<1>2. AtIs(s, s2, t, x)
  BY <1>1, AtPutKeeps, Zenon
<1> HIDE DEF s2
<1>3. Core(s2, got)
  BY <1>1, <1>2, ThreadChanged DEF AtIs
<1>4. Acting(s2, t, got)
  BY <1>2, <1>3 DEF Acting, AtIs
<1> QED
  BY <1>2, <1>4, Zenon DEF s2

\* The step ends inside the call.
LEMMA StaysInCall ==
    ASSUME NEW s, NEW got, NEW t \in Threads, Acting(s, t, got), NotYet(s), NEW x, Fields(x, AtFields),
           x.pc # "idle",
           x.pc \in {"enter", "wait", "turn", "read", "locked"} =>
              /\ x.await \in Connecting \cup {"SUBACK", "UNSUBACK"}
              /\ x.await \in Connecting => s.locks.connect = t,
           x.pc = "stopping" /\ x.rc = "disconnected" => s.locks.connect = t
    PROVE  Sound(AtPut(s, t, x), got)
<1> DEFINE s2 == AtPut(s, t, x)
<1>1. /\ Acting(s2, t, got) /\ s2.thr[t].at = x
      /\ s2.client = s.client /\ s2.net = s.net /\ s2.locks = s.locks
  <2>1. Acting(s2, t, got) /\ AtIs(s, s2, t, x)
    BY ActingAt, Zenon
  <2> HIDE DEF s2
  <2> QED
    BY <2>1, Zenon DEF AtIs
<1> HIDE DEF s2
<1>2. x # Idle
  BY DEF Idle
<1>3. Fine(s2.thr[t], s2.locks.connect, t, got)
  BY <1>1, <1>2 DEF Fine, Acting
<1>4. NotYet(s2)
  BY <1>1 DEF NotYet
<1>5. Sound(s2, got)
  BY <1>1, <1>3, <1>4 DEF Sound, Acting
<1> QED
  BY <1>5 DEF s2

\* MQTTClient_waitfor, called under the mutex, leaves a sound state.
LEMMA Waits ==
    ASSUME NEW s, NEW got, NEW t \in Threads, Acting(s, t, got), NotYet(s),
           NEW await \in Connecting \cup {"SUBACK", "UNSUBACK"},
           await \in Connecting => s.locks.connect = t
    PROVE  Sound(waitfor(s, t, await), got)
<1> DEFINE x == [s.thr[t].at EXCEPT !.pc = "enter", !.await = await, !.got = NoPack]
<1>1. Fields(s.thr[t].at, AtFields)
  BY DEF Acting, Core, Shape, ThreadShape
<1>2. Fields(x, AtFields) /\ x.pc = "enter" /\ x.await = await
  BY <1>1 DEF Fields, AtFields
<1>3. waitfor(s, t, await) = AtPut(s, t, x)
  BY DEF waitfor, AtPut
<1> HIDE DEF x
<1> QED
  BY <1>2, <1>3, StaysInCall

\* A packet without a message is written.
LEMMA Sends ==
    ASSUME NEW s, NEW got, NEW t \in Threads, Acting(s, t, got), NEW p, p.type \in Requests \ {"PUBLISH"}
    PROVE  /\ Acting(send(s, p), t, got) /\ send(s, p).locks = s.locks
           /\ send(s, p).client = s.client /\ send(s, p).lib = s.lib
<1> DEFINE n  == [s.net EXCEPT !.up = Append(@, p)]
           s2 == NetPut(s, n)
<1>1. Shape(s) /\ Fields(s.net, NetFields)
  BY DEF Acting, Core, Shape
<1>2. /\ Fields(n, NetFields) /\ n.up = Append(s.net.up, p)
      /\ n.dn = s.net.dn /\ n.pend = s.net.pend
  BY <1>1 DEF Fields, NetFields
<1>3. send(s, p) = s2
  BY DEF send, NetPut
<1> HIDE DEF n
<1>4. /\ Shape(s2) /\ s2.net = n /\ s2.client = s.client /\ s2.thr = s.thr /\ s2.locks = s.locks
      /\ s2.lib = s.lib
  <2>1. NetIs(s, s2, n)
    BY <1>1, <1>2, NetPutKeeps, Zenon
  <2> HIDE DEF s2
  <2> QED
    BY <1>1, <1>2, <2>1, Zenon DEF NetIs
<1> HIDE DEF s2
<1>5. Flight(s.client.outbound, s.client.connected, n.up, n.dn, n.pend, got)
  BY <1>2, OtherWritten DEF Acting, Core
<1>6. Core(s2, got)
  BY <1>4, <1>5 DEF Core, Acting
<1> QED
  BY <1>3, <1>4, <1>6 DEF Acting

\* MQTTClient_closeSession of a session to be kept.
LEMMA Closes ==
    ASSUME ~scene.cleansession, NEW s, NEW got, Core(s, got), NEW races
    PROVE  LET d == [closeSession(s) EXCEPT !.client.crossed = @ \/ races]
           IN  /\ Core(d, got) /\ ~d.client.connected
               /\ d.thr = s.thr /\ d.locks = s.locks /\ d.lib = s.lib
<1> DEFINE c  == [s.client EXCEPT !.connected = FALSE, !.state = "none", !.sock = 0]
           s1 == ClientPut(s, c)
           s2 == NetPut(s1, NoNet)
           e  == [s2.client EXCEPT !.crossed = @ \/ races]
           d  == ClientPut(s2, e)
<1>1. Shape(s) /\ Fields(s.client, ClientFields)
  BY DEF Core, Shape
<1>2. Fields(c, ClientFields) /\ c.outbound = s.client.outbound /\ ~c.connected
  BY <1>1, ZenonT(30) DEF Fields, ClientFields
<1>3. closeSession(s) = s2
  BY DEF closeSession, NetPut, ClientPut
<1>4. [closeSession(s) EXCEPT !.client.crossed = @ \/ races] = d
  <2> HIDE DEF s2
  <2> QED
    BY <1>3 DEF ClientPut
<1> HIDE DEF c
<1>5. Shape(s1) /\ s1.client = c /\ s1.thr = s.thr /\ s1.locks = s.locks /\ s1.lib = s.lib
  <2>1. ClientIs(s, s1, c)
    BY <1>1, <1>2, ClientPutKeeps, Zenon
  <2> HIDE DEF s1
  <2> QED
    BY <1>1, <1>2, <2>1, Zenon DEF ClientIs
<1> HIDE DEF s1
<1>6. /\ Fields(NoNet, NetFields) /\ NoNet.up = <<>> /\ NoNet.dn = <<>> /\ NoNet.pend = <<>>
  BY DEF Fields, NetFields, NoNet
<1>7. /\ Shape(s2) /\ s2.client = c /\ s2.thr = s.thr /\ s2.locks = s.locks /\ s2.lib = s.lib
      /\ s2.net = NoNet
  <2>1. NetIs(s1, s2, NoNet)
    BY <1>5, <1>6, NetPutKeeps, Zenon
  <2> HIDE DEF s2
  <2> QED
    BY <1>5, <1>6, <2>1, Zenon DEF NetIs
<1> HIDE DEF s2
<1>8. Fields(e, ClientFields) /\ e.outbound = s.client.outbound /\ ~e.connected
  BY <1>2, <1>7 DEF Fields, ClientFields
<1> HIDE DEF e
<1>9. /\ Shape(d) /\ d.client = e /\ d.thr = s.thr /\ d.locks = s.locks /\ d.lib = s.lib
      /\ d.net = NoNet
  <2>1. ClientIs(s2, d, e)
    BY <1>7, <1>8, ClientPutKeeps, Zenon
  <2> HIDE DEF d
  <2> QED
    BY <1>7, <1>8, <2>1, Zenon DEF ClientIs
<1> HIDE DEF d
<1>10. Flight(s.client.outbound, e.connected, <<>>, <<>>, <<>>, got)
  BY NoPackets DEF Core, Flight
<1>11. Core(d, got)
  BY <1>6, <1>8, <1>9, <1>10 DEF Core
<1> QED
  BY <1>4, <1>8, <1>9, <1>11

\* connectionLost_call adds a connect to what is left to do on its thread.
LEMMA LosesConnection ==
    ASSUME NEW s, NEW got
    PROVE  LET d == connectionLost(s)
           IN  /\ Sound(s, got) => Sound(d, got)
               /\ \A t \in Threads : Acting(s, t, got) => Acting(d, t, got)
               /\ Shape(s) => d.client = s.client /\ d.locks = s.locks /\ d.net = s.net /\ d.lib = s.lib
               /\ Shape(s) => \A u \in Threads : d.thr[u].at = s.thr[u].at /\ d.thr[u].token = s.thr[u].token
<1>1. CASE ~scene.reconnects
  BY <1>1 DEF connectionLost
<1>2. CASE scene.reconnects
  <2> DEFINE y == [s.thr[Lost] EXCEPT !.prog = Append(@, "connect")]
             d == ThreadPut(s, Lost, y)
  <2>1. connectionLost(s) = d
    BY <1>2 DEF connectionLost, ThreadPut
  <2>2. Lost \in Threads
    BY DEF Threads, Lost
  <2> SUFFICES ASSUME Shape(s)
               PROVE  /\ Sound(s, got) => Sound(d, got)
                      /\ \A t \in Threads : Acting(s, t, got) => Acting(d, t, got)
                      /\ d.client = s.client /\ d.locks = s.locks /\ d.net = s.net /\ d.lib = s.lib
                      /\ \A u \in Threads : d.thr[u].at = s.thr[u].at /\ d.thr[u].token = s.thr[u].token
    BY <2>1 DEF Sound, Acting, Core
  <2>3. /\ ThreadShape(y) /\ y.at = s.thr[Lost].at /\ y.token = s.thr[Lost].token
        /\ y.last = s.thr[Lost].last /\ y.prog = Append(s.thr[Lost].prog, "connect")
    <3>1. ThreadShape(s.thr[Lost])
      BY <2>2 DEF Shape
    <3>2. /\ Fields(y, ThreadFields) /\ y.at = s.thr[Lost].at /\ y.token = s.thr[Lost].token
          /\ y.last = s.thr[Lost].last /\ y.prog = Append(s.thr[Lost].prog, "connect")
      BY <3>1 DEF ThreadShape, Fields, ThreadFields
    <3> QED
      BY <3>1, <3>2 DEF ThreadShape
  <2> HIDE DEF y
  <2>4. /\ Shape(d) /\ d.thr[Lost] = y /\ \A u \in Threads \ {Lost} : d.thr[u] = s.thr[u]
        /\ d.client = s.client /\ d.net = s.net /\ d.locks = s.locks /\ d.lib = s.lib
    <3>1. ThreadIs(s, d, Lost, y)
      BY <2>2, <2>3, ThreadPutKeeps, Zenon
    <3> HIDE DEF d
    <3> QED
      BY <2>2, <2>3, <3>1, Zenon DEF ThreadIs
  <2> HIDE DEF d
  <2>5. Core(s, got) => Core(d, got)
    BY <2>2, <2>3, <2>4, ThreadChanged, ZenonT(30)
  <2>6. \A u \in Threads : d.thr[u].at = s.thr[u].at /\ d.thr[u].token = s.thr[u].token
                           /\ d.thr[u].last = s.thr[u].last
    BY <2>3, <2>4
  <2>7. \A u \in Threads : IsSeq(s.thr[u].prog) =>
           /\ IsSeq(d.thr[u].prog)
           /\ s.thr[u].prog # <<>> => d.thr[u].prog # <<>> /\ Head(d.thr[u].prog) = Head(s.thr[u].prog)
    <3> SUFFICES ASSUME IsSeq(s.thr[Lost].prog)
                 PROVE  /\ IsSeq(y.prog)
                        /\ s.thr[Lost].prog # <<>> => y.prog # <<>> /\ Head(y.prog) = Head(s.thr[Lost].prog)
      BY <2>4
    <3> DEFINE q == s.thr[Lost].prog
               T == Range(q) \cup {"connect"}
    <3>1. IsSeq(y.prog)
      BY <2>3, Appending
    <3>2. q \in Seq(T)
      BY DEF IsSeq
    <3> HIDE DEF q, T
    <3>3. Append(q, "connect") # <<>> /\ (q # <<>> => Head(Append(q, "connect")) = Head(q))
      BY <3>2
    <3> QED
      BY <2>3, <3>1, <3>3 DEF q
  <2>8. \A u \in Threads : Fine(s.thr[u], s.locks.connect, u, got) => Fine(d.thr[u], d.locks.connect, u, got)
    <3> SUFFICES ASSUME NEW u \in Threads, Fine(s.thr[u], s.locks.connect, u, got)
                 PROVE  Fine(d.thr[u], s.locks.connect, u, got)
      BY <2>4, Zenon
    <3>1. /\ d.thr[u].at = s.thr[u].at /\ d.thr[u].token = s.thr[u].token /\ d.thr[u].last = s.thr[u].last
          /\ IsSeq(s.thr[u].prog) => /\ IsSeq(d.thr[u].prog)
                                     /\ s.thr[u].prog # <<>> => /\ d.thr[u].prog # <<>>
                                                                /\ Head(d.thr[u].prog) = Head(s.thr[u].prog)
      BY <2>6, <2>7, Zenon
    <3> QED
      BY <3>1 DEF Fine
  <2>9. Sound(s, got) => Sound(d, got)
    BY <2>4, <2>5, <2>8 DEF Sound, NotYet
  <2>10. \A t \in Threads : Acting(s, t, got) => Acting(d, t, got)
    BY <2>5, <2>7, <2>8 DEF Acting
  <2> QED
    BY <2>4, <2>6, <2>9, <2>10
<1> QED
  BY <1>1, <1>2

\* d is s with the connection given up by thread t, which waits for the background
\* thread then or does not.
Abandons(s, d, t, got) ==
    \/ Sound(d, got) /\ d.thr[t].at = s.thr[t].at
    \/ \E p, x : /\ d = AtPut(p, t, x) /\ Sound(p, got) /\ p.thr[t] = s.thr[t]
                 /\ Fields(x, AtFields) /\ x.pc = "stopping"

\* MQTTClient_disconnect1: in a call of thread t, or of a thread that does not
\* wait for the background thread.
LEMMA Disconnects ==
    ASSUME ~scene.cleansession, NEW s, NEW got, NEW t, NEW call, NEW stops
    PROVE  LET d == disconnect1(s, t, call, stops)
           IN  /\ t \in Threads /\ Acting(s, t, got) =>
                    Acting(d, t, got) /\ ~d.client.connected /\ d.locks = s.locks
               /\ Sound(s, got) /\ (t = Run \/ ~s.lib.running) => Sound(d, got)
               /\ Sound(s, got) /\ t \in Threads => Abandons(s, d, t, got)
<1> DEFINE lost   == call /\ s.client.connected
           races  == s.locks.connect \notin {"none", t}
           closed == [closeSession(s) EXCEPT !.client.crossed = @ \/ races]
           p      == stop(closed)
           x      == [p.thr[t].at EXCEPT !.pc = "stopping", !.lost = lost]
           e      == IF stops THEN p ELSE closed
           d      == disconnect1(s, t, call, stops)
<1>1. d = IF stops /\ Stops(closed) /\ t # Run THEN AtPut(p, t, x)
          ELSE IF lost THEN connectionLost(e) ELSE e
  <2> HIDE DEF closed, p
  <2>1. d = IF stops /\ Stops(closed) /\ t # Run
            THEN [p EXCEPT !.thr[t].at = [@ EXCEPT !.pc = "stopping", !.lost = lost]]
            ELSE IF lost THEN connectionLost(e) ELSE e
    BY DEF disconnect1, closed, p
  <2> QED
    BY <2>1 DEF AtPut
<1>2. SUFFICES ASSUME Core(s, got)
               PROVE  /\ t \in Threads /\ Acting(s, t, got) =>
                            Acting(d, t, got) /\ ~d.client.connected /\ d.locks = s.locks
                      /\ Sound(s, got) /\ (t = Run \/ ~s.lib.running) => Sound(d, got)
                      /\ Sound(s, got) /\ t \in Threads => Abandons(s, d, t, got)
  BY DEF Acting, Sound
<1>3. /\ Core(closed, got) /\ ~closed.client.connected
      /\ closed.thr = s.thr /\ closed.locks = s.locks /\ closed.lib = s.lib
  BY <1>2, Closes
<1> HIDE DEF d, closed, races, lost
<1>4. Same(closed, p)
  <2>1. Shape(closed)
    BY <1>3 DEF Core
  <2>2. Same(closed, closed)
    BY <2>1 DEF Same
  <2>3. Same(closed, LibPut(closed, [closed.lib EXCEPT !.tostop = TRUE]))
    BY <2>1, OtherPutKeeps
  <2> QED
    BY <2>2, <2>3 DEF stop, LibPut
<1>5. Sound(s, got) => Sound(closed, got)
  BY <1>3 DEF Sound, NotYet
<1>6. t \in Threads /\ Acting(s, t, got) => Acting(closed, t, got)
  BY <1>3 DEF Acting
<1> HIDE DEF p
<1>7. /\ Sound(s, got) => Sound(p, got)
      /\ t \in Threads /\ Acting(s, t, got) => Acting(p, t, got)
      /\ ~p.client.connected /\ p.locks = s.locks /\ Shape(p) /\ p.thr = s.thr
  <2>1. /\ Sound(closed, got) => Sound(p, got)
        /\ t \in Threads /\ Acting(closed, t, got) => Acting(p, t, got)
    BY <1>4, SameKeeps
  <2> QED
    BY <1>3, <1>4, <1>5, <1>6, <2>1 DEF Same
<1>8. /\ Sound(s, got) => Sound(e, got)
      /\ t \in Threads /\ Acting(s, t, got) => Acting(e, t, got)
      /\ ~e.client.connected /\ e.locks = s.locks /\ Shape(e) /\ e.thr = s.thr
  BY <1>3, <1>5, <1>6, <1>7 DEF Core
<1> HIDE DEF e
<1>9. ASSUME t \in Threads, Acting(s, t, got)
      PROVE  Acting(d, t, got) /\ ~d.client.connected /\ d.locks = s.locks
  <2>1. CASE stops /\ Stops(closed) /\ t # Run
    <3>1. d = AtPut(p, t, x)
      BY <1>1, <2>1
    <3>2. Fields(p.thr[t].at, AtFields)
      BY <1>7, <1>9 DEF Shape, ThreadShape
    <3>3. Fields(x, AtFields)
      BY <3>2 DEF Fields, AtFields
    <3> HIDE DEF x
    <3>4. Acting(p, t, got)
      BY <1>7, <1>9, Zenon
    <3>5. Acting(AtPut(p, t, x), t, got) /\ AtIs(p, AtPut(p, t, x), t, x)
      BY <1>9, <3>3, <3>4, ActingAt, Zenon
    <3> QED
      BY <1>7, <3>1, <3>5, Zenon DEF AtIs
  <2>2. CASE ~(stops /\ Stops(closed) /\ t # Run) /\ lost
    <3>1. d = connectionLost(e)
      BY <1>1, <2>2
    <3> QED
      BY <1>8, <1>9, <3>1, LosesConnection
  <2>3. CASE ~(stops /\ Stops(closed) /\ t # Run) /\ ~lost
    <3>1. d = e
      BY <1>1, <2>3
    <3> QED
      BY <1>8, <1>9, <3>1
  <2> QED
    BY <2>1, <2>2, <2>3
<1>10. ASSUME Sound(s, got), t = Run \/ ~s.lib.running
       PROVE  Sound(d, got)
  <2>1. ~(stops /\ Stops(closed) /\ t # Run)
    BY <1>3, <1>10 DEF Stops
  <2>2. CASE lost
    BY <1>1, <1>8, <1>10, <2>1, <2>2, LosesConnection
  <2>3. CASE ~lost
    BY <1>1, <1>8, <1>10, <2>1, <2>3
  <2> QED
    BY <2>2, <2>3
<1>11. ASSUME Sound(s, got), t \in Threads
       PROVE  Abandons(s, d, t, got)
  <2>1. CASE stops /\ Stops(closed) /\ t # Run
    <3>1. d = AtPut(p, t, x)
      BY <1>1, <2>1
    <3>2. Fields(p.thr[t].at, AtFields)
      BY <1>7, <1>11 DEF Shape, ThreadShape
    <3>3. Fields(x, AtFields) /\ x.pc = "stopping"
      BY <3>2 DEF Fields, AtFields
    <3> HIDE DEF x
    <3> QED
      BY <1>7, <1>11, <3>1, <3>3, Zenon DEF Abandons
  <2>2. CASE ~(stops /\ Stops(closed) /\ t # Run) /\ lost
    <3>1. d = connectionLost(e)
      BY <1>1, <2>2
    <3>2. Sound(connectionLost(e), got) /\ connectionLost(e).thr[t].at = e.thr[t].at
      BY <1>8, <1>11, LosesConnection, Zenon
    <3> QED
      BY <1>8, <3>1, <3>2, Zenon DEF Abandons
  <2>3. CASE ~(stops /\ Stops(closed) /\ t # Run) /\ ~lost
    <3>1. d = e
      BY <1>1, <2>3
    <3> QED
      BY <1>8, <1>11, <3>1, Zenon DEF Abandons
  <2> QED
    BY <2>1, <2>2, <2>3
<1> QED
  BY <1>9, <1>10, <1>11, Zenon DEF d

\* The loop of a call goes on after a MQTTClient_yield.
LEMMA LoopGoesOn ==
    ASSUME NEW s, NEW got, NEW t \in Threads, Sound(s, got), s.thr[t].at.pc \in Loops,
           NEW x, Fields(x, AtFields), x.pc = s.thr[t].at.pc
    PROVE  Sound(AtPut(s, t, x), got)
<1> DEFINE s2 == AtPut(s, t, x)
<1>1. Core(s, got) /\ Shape(s)
  BY DEF Sound, Core
<1>2. AtIs(s, s2, t, x)
  BY <1>1, AtPutKeeps, Zenon
<1> HIDE DEF s2
<1>3. Core(s2, got)
  BY <1>1, <1>2, ThreadChanged DEF AtIs
<1>4. /\ x # Idle /\ s.thr[t].at # Idle
      /\ x.pc \notin {"idle", "enter", "wait", "turn", "read", "locked", "stopping"}
  <2>1. x.pc \in Loops
    BY Zenon
  <2>2. x.pc \notin {"idle", "enter", "wait", "turn", "read", "locked", "stopping"}
    BY <2>1 DEF Loops
  <2>3. Idle.pc = "idle"
    BY DEF Idle
  <2> QED
    BY <2>2, <2>3, Zenon
<1>5. Fine(s.thr[t], s.locks.connect, t, got)
  BY DEF Sound
<1>6. Fine(s2.thr[t], s2.locks.connect, t, got)
  <2>1. /\ s2.thr[t].at = x /\ s2.thr[t].prog = s.thr[t].prog /\ s2.thr[t].token = s.thr[t].token
        /\ s2.thr[t].last = s.thr[t].last /\ s2.locks = s.locks
    BY <1>2, Zenon DEF AtIs
  <2> QED
    BY <1>4, <1>5, <2>1 DEF Fine
<1>7. NotYet(s2)
  <2>1. NotYet(s)
    BY Zenon DEF Sound
  <2>2. s2.client = s.client /\ s2.locks = s.locks
    BY <1>2, Zenon DEF AtIs
  <2> QED
    BY <2>1, <2>2 DEF NotYet
<1>8. ASSUME NEW u \in Threads PROVE Fine(s2.thr[u], s2.locks.connect, u, got)
  BY <1>2, <1>6, Zenon DEF AtIs, Sound
<1>9. Sound(s2, got)
  BY <1>3, <1>7, <1>8, Zenon DEF Sound
<1> QED
  BY <1>9, Zenon DEF s2

\* A call that gives the connection up.
LEMMA GivesUp ==
    ASSUME ~scene.cleansession, NEW s, NEW got, NEW t \in Threads, Acting(s, t, got),
           NEW rc, rc # "disconnected", NEW call, NEW stops
    PROVE  Sound(giveUp(s, t, rc, call, stops), got)
<1> DEFINE d == disconnect1(s, t, call, stops)
           x == [d.thr[t].at EXCEPT !.rc = rc]
<1>1. Acting(d, t, got) /\ ~d.client.connected /\ d.locks = s.locks
  BY Disconnects
<1> HIDE DEF d
<1>2. CASE d.thr[t].at.pc = "stopping"
  <2>1. giveUp(s, t, rc, call, stops) = AtPut(d, t, x)
    BY <1>2 DEF giveUp, AtPut, d
  <2>2. Fields(d.thr[t].at, AtFields)
    BY <1>1 DEF Acting, Core, Shape, ThreadShape
  <2>3. Fields(x, AtFields) /\ x.pc = "stopping" /\ x.rc = rc
    BY <1>2, <2>2 DEF Fields, AtFields
  <2>4. NotYet(d)
    BY <1>1 DEF NotYet
  <2> HIDE DEF x
  <2> QED
    BY <1>1, <2>1, <2>3, <2>4, StaysInCall
<1>3. CASE d.thr[t].at.pc # "stopping"
  <2>1. giveUp(s, t, rc, call, stops) = Return(d, t, rc)
    BY <1>3 DEF giveUp, d
  <2>2. Sound(Return(d, t, rc), got)
    BY <1>1, Returns DEF Acting
  <2> QED
    BY <2>1, <2>2
<1> QED
  BY <1>2, <1>3

\* MQTTProtocol_connect has a socket; the thread runs or not.
LEMMA Opens ==
    ASSUME NEW s, NEW got, NEW t \in Threads, Acting(s, t, got), NEW o
    PROVE  LET d == opened(begun(s), o)
           IN  Acting(d, t, got) /\ d.locks = s.locks /\ d.client.connected = s.client.connected
<1> DEFINE b == begun(s)
           l == LibPut(s, [s.lib EXCEPT !.running = TRUE])
           r == RunPut(l, [l.run EXCEPT !.pc = "cycle"])
           c == [b.client EXCEPT !.sock = 1, !.conn = b.client.conn + 1, !.state = "tcp"]
           f == ClientPut(b, c)
           n == [NoNet EXCEPT !.alive = TRUE, !.tcp = IF o = "immediate" THEN "up" ELSE "connecting"]
           d == NetPut(f, n)
<1>1. Shape(s) /\ Core(s, got)
  BY DEF Acting, Core
<1>2. b = IF startsThread(s) THEN r ELSE s
  BY DEF begun, LibPut, RunPut
<1>3. opened(b, o) = d
  BY DEF opened, ClientPut, NetPut
<1>4. Same(s, b)
  <2>1. Same(s, s)
    BY <1>1 DEF Same
  <2>2. Same(s, l) /\ Shape(l)
    BY <1>1, OtherPutKeeps DEF Same
  <2> HIDE DEF l
  <2>3. Same(l, r)
    BY <2>2, OtherPutKeeps
  <2> QED
    BY <1>2, <2>1, <2>2, <2>3 DEF Same
<1> HIDE DEF b
<1>5. Acting(b, t, got) /\ Shape(b) /\ b.locks = s.locks /\ b.client.connected = s.client.connected
  BY <1>4, SameKeeps DEF Same
<1>6. Fields(c, ClientFields) /\ c.outbound = b.client.outbound /\ c.connected = b.client.connected
  <2>1. Fields(b.client, ClientFields)
    BY <1>5 DEF Shape
  <2> QED
    BY <2>1 DEF Fields, ClientFields
<1>7. Fields(n, NetFields) /\ n.up = <<>> /\ n.dn = <<>> /\ n.pend = <<>>
  BY ZenonT(30) DEF Fields, NetFields, NoNet
<1> HIDE DEF c, n
<1>8. Shape(f) /\ f.client = c /\ f.thr = b.thr /\ f.locks = b.locks
  <2>1. ClientIs(b, f, c)
    BY <1>5, <1>6, ClientPutKeeps, Zenon
  <2> HIDE DEF f
  <2> QED
    BY <1>5, <1>6, <2>1, Zenon DEF ClientIs
<1> HIDE DEF f
<1>9. Shape(d) /\ d.client = c /\ d.thr = b.thr /\ d.locks = b.locks /\ d.net = n
  <2>1. NetIs(f, d, n)
    BY <1>7, <1>8, NetPutKeeps, Zenon
  <2> HIDE DEF d
  <2> QED
    BY <1>7, <1>8, <2>1, Zenon DEF NetIs
<1> HIDE DEF d
<1>10. Flight(c.outbound, c.connected, <<>>, <<>>, <<>>, got)
  <2>1. IsSeq(b.client.outbound) /\ Distinct(b.client.outbound)
    BY <1>5, Zenon DEF Acting, Core, Flight
  <2>2. IsSeq(c.outbound) /\ Distinct(c.outbound)
    BY <1>6, <2>1, Zenon
  <2> QED
    BY <2>2, NoPackets, Zenon
<1>11. Core(d, got)
  BY <1>5, <1>6, <1>7, <1>9, <1>10 DEF Core, Acting
<1>12. Acting(d, t, got)
  BY <1>5, <1>9, <1>11 DEF Acting
<1> QED
  BY <1>3, <1>5, <1>6, <1>9, <1>12 DEF b

\* The greeting is written and the wait begins.
LEMMA Greets ==
    ASSUME NEW s, NEW got, NEW t \in Threads, Acting(s, t, got), s.locks.connect = t, ~s.client.connected
    PROVE  Sound(sendConnect(s, t), got) /\ Sound(greet(s, t), got)
<1>1. ASSUME NEW state, NEW p, p.type \in Requests \ {"PUBLISH"}, NEW await \in Connecting
      PROVE  Sound(waitfor(send([s EXCEPT !.client.state = state], p), t, await), got)
  <2> DEFINE c == [s.client EXCEPT !.state = state]
             f == ClientPut(s, c)
             d == send(f, p)
  <2>1. Shape(s) /\ Fields(s.client, ClientFields)
    BY DEF Acting, Core, Shape
  <2>2. Fields(c, ClientFields) /\ c.outbound = s.client.outbound /\ c.connected = s.client.connected
    BY <2>1 DEF Fields, ClientFields
  <2>3. [s EXCEPT !.client.state = state] = f
    BY DEF ClientPut
  <2> HIDE DEF c
  <2>4. Shape(f) /\ f.client = c /\ f.thr = s.thr /\ f.locks = s.locks /\ f.net = s.net
    <3>1. ClientIs(s, f, c)
      BY <2>1, <2>2, ClientPutKeeps, Zenon
    <3> HIDE DEF f
    <3> QED
      BY <2>1, <2>2, <3>1, Zenon DEF ClientIs
  <2> HIDE DEF f
  <2>5. Same(s, f)
    BY <2>2, <2>4 DEF Same
  <2>6. Acting(f, t, got)
    BY <2>5, SameKeeps, ZenonT(30)
  <2>7. Acting(d, t, got) /\ d.locks = s.locks /\ ~d.client.connected
    <3>1. Acting(d, t, got) /\ d.locks = f.locks /\ d.client = f.client
      BY <1>1, <2>6, Sends, Zenon
    <3> HIDE DEF d
    <3> QED
      BY <2>2, <2>4, <3>1, Zenon
  <2> HIDE DEF d
  <2>8. Sound(waitfor(d, t, await), got)
    BY <2>7, Waits DEF NotYet
  <2> QED
    BY <2>3, <2>8 DEF d
<1>2. /\ Packet("CONNECT", 0, s.client.conn).type \in Requests \ {"PUBLISH"}
      /\ Packet("UPGRADE", 0, s.client.conn).type \in Requests \ {"PUBLISH"}
  BY DEF Packet, Requests
<1>3. Sound(sendConnect(s, t), got)
  BY <1>1, <1>2 DEF sendConnect, Connecting
<1>4. Sound(upgrade(s, t), got)
  BY <1>1, <1>2 DEF upgrade, Connecting
<1> QED
  BY <1>3, <1>4 DEF greet

\* An attempt to connect.
LEMMA Attempts ==
    ASSUME NEW s, NEW got, NEW t \in Threads, Acting(s, t, got), s.locks.connect = t, ~s.client.connected,
           NEW o
    PROVE  Sound(attempt(s, t, o), got)
<1> DEFINE d == opened(begun(s), o)
<1>1. Acting(d, t, got) /\ d.locks = s.locks /\ ~d.client.connected
  BY Opens
<1> HIDE DEF d
<1>2. Sound(greet(d, t), got)
  BY <1>1, Greets
<1>3. Sound(waitfor(d, t, "tcp"), got)
  BY <1>1, Waits DEF NotYet, Connecting
<1> QED
  BY <1>2, <1>3 DEF attempt, d

\* One that failed: with the older version, or the call gives up.
LEMMA Fails ==
    ASSUME ~scene.cleansession, NEW s, NEW got, NEW t \in Threads, Acting(s, t, got),
           s.locks.connect = t, ~s.client.connected, NEW o
    PROVE  /\ Sound(failAttempt(s, t, o), got)
           /\ Acting(begun(s), t, got) /\ begun(s).locks = s.locks /\ ~begun(s).client.connected
<1>1. ASSUME NEW d, Acting(d, t, got), ~d.client.connected, d.locks = s.locks
      PROVE  Acting(begun(d), t, got) /\ begun(d).locks = s.locks /\ ~begun(d).client.connected
  <2> DEFINE l == LibPut(d, [d.lib EXCEPT !.running = TRUE])
             r == RunPut(l, [l.run EXCEPT !.pc = "cycle"])
  <2>1. Shape(d)
    BY <1>1 DEF Acting, Core
  <2>2. Same(d, l) /\ Shape(l)
    BY <2>1, OtherPutKeeps DEF Same
  <2>3. begun(d) = IF startsThread(d) THEN r ELSE d
    BY DEF begun, LibPut, RunPut
  <2> HIDE DEF l
  <2>4. Same(l, r)
    BY <2>2, OtherPutKeeps
  <2>5. Same(d, d)
    BY <2>1 DEF Same
  <2> HIDE DEF r
  <2>6. Same(d, begun(d))
    BY <2>2, <2>3, <2>4, <2>5 DEF Same
  <2> QED
    BY <1>1, <2>6, SameKeeps DEF Same
<1>2. ASSUME NEW d, Acting(d, t, got)
      PROVE  Sound(failLast(d, t), got)
  BY <1>2, GivesUp, ZenonT(30) DEF failLast
<1> DEFINE d == disconnect1(s, t, FALSE, FALSE)
           x == [d.thr[t].at EXCEPT !.version = 3]
           e == AtPut(d, t, x)
<1>3. Acting(d, t, got) /\ ~d.client.connected /\ d.locks = s.locks
  <2>1. ASSUME NEW call, NEW stops
        PROVE  LET f == disconnect1(s, t, call, stops)
               IN  Acting(f, t, got) /\ ~f.client.connected /\ f.locks = s.locks
    BY Disconnects
  <2> QED
    BY <2>1, Zenon
<1>4. failAttempt(s, t, o) =
         IF s.thr[t].at.version = 4 /\ scene.version = 0
         THEN IF fails(e, t, o) THEN failLast(begun(e), t) ELSE attempt(e, t, o)
         ELSE failLast(s, t)
  BY DEF failAttempt, AtPut
<1> HIDE DEF d
<1>5. Fields(x, AtFields)
  <2>1. Fields(d.thr[t].at, AtFields)
    BY <1>3 DEF Acting, Core, Shape, ThreadShape
  <2> QED
    BY <2>1 DEF Fields, AtFields
<1> HIDE DEF x
<1>6. Acting(e, t, got) /\ ~e.client.connected /\ e.locks = s.locks
  <2>1. Acting(e, t, got) /\ AtIs(d, e, t, x)
    BY <1>3, <1>5, ActingAt, Zenon
  <2> HIDE DEF e
  <2> QED
    BY <1>3, <2>1, Zenon DEF AtIs
<1> HIDE DEF e
<1>7. Sound(failLast(begun(e), t), got) /\ Sound(attempt(e, t, o), got) /\ Sound(failLast(s, t), got)
  BY <1>1, <1>2, <1>6, Attempts
<1> QED
  BY <1>1, <1>4, <1>7

\* MQTTClient_connectURI leaves a sound state, whatever becomes of its one or two attempts.
LEMMA Connects ==
    ASSUME ~scene.cleansession, NEW s, NEW got, NEW t \in Threads, Acting(s, t, got),
           s.locks.connect = t, ~s.client.connected, NEW o1, NEW o2
    PROVE  Sound(connectURI(s, t, o1, o2), got)
<1> DEFINE first == IF scene.version = 0 THEN 4 ELSE scene.version
           x == [s.thr[t].at EXCEPT !.version = first]
           e == AtPut(s, t, x)
<1>1. connectURI(s, t, o1, o2) = IF fails(e, t, o1) THEN failAttempt(begun(e), t, o2) ELSE attempt(e, t, o1)
  BY DEF connectURI, AtPut
<1>2. Fields(x, AtFields)
  <2>1. Fields(s.thr[t].at, AtFields)
    BY DEF Acting, Core, Shape, ThreadShape
  <2> QED
    BY <2>1 DEF Fields, AtFields
<1> HIDE DEF x
<1>3. Acting(e, t, got) /\ ~e.client.connected /\ e.locks = s.locks
  <2>1. Acting(e, t, got) /\ AtIs(s, e, t, x)
    BY <1>2, ActingAt, Zenon
  <2> HIDE DEF e
  <2> QED
    BY <2>1, Zenon DEF AtIs
<1> HIDE DEF e
<1>4. Acting(begun(e), t, got) /\ begun(e).locks = s.locks /\ ~begun(e).client.connected
  BY <1>3, Fails
<1>5. Sound(failAttempt(begun(e), t, o2), got)
  BY <1>4, Fails
<1>6. Sound(attempt(e, t, o1), got)
  BY <1>3, Attempts
<1> QED
  BY <1>1, <1>5, <1>6

\* The CONNACK, or the wait for it without one.
LEMMA Connacked ==
    ASSUME ~scene.cleansession, NEW s, NEW got, NEW t \in Threads, Acting(s, t, got),
           s.locks.connect = t, ~s.client.connected, NEW o, NEW sent,
           NEW cut, cut = 0 \/ cut \in 1..Len(s.client.outbound)
    PROVE  Sound(connacked(s, t, o, sent, cut), got)
<1> DEFINE c  == [s.client EXCEPT !.connected = TRUE, !.state = "none"]
           again == [i \in DOMAIN c.outbound |-> Publish(c.outbound[i].id, s.client.conn, c.outbound[i].msg)]
           s1 == HandlePut(s, [s.handle EXCEPT !.pack = NoPack])
           f  == ClientPut(s, c)
           d  == disconnect1(f, t, TRUE, TRUE)
           d1 == AtPut(d, t, [d.thr[t].at EXCEPT !.rc = "disconnected"])
           d2 == HandlePut(d, [d.handle EXCEPT !.pack = NoPack])
           g1 == ClientPut(s1, c)
           n  == writtenAgain(g1.net, again, cut)
           g  == NetPut(g1, n)
<1>1. \/ connacked(s, t, o, sent, cut) \in {failAttempt(s, t, o), failAttempt(s1, t, o), failAttempt(d2, t, o),
                                       Return(g, t, "ok")}
      \/ d.thr[t].at.pc = "stopping" /\ connacked(s, t, o, sent, cut) = d1
  <2> DEFINE e == IF scene.cleansession THEN cleanSession(c) ELSE c
             more(k) == [i \in DOMAIN k.outbound |-> Publish(k.outbound[i].id, s.client.conn, k.outbound[i].msg)]
             dead(k) == disconnect1(ClientPut(s, k), t, TRUE, TRUE)
             K(k) ==
                CASE s.thr[t].at.got = NoPack -> failAttempt(s, t, o)
                  [] s.thr[t].at.got # NoPack /\ ~s.thr[t].at.got.ok -> failAttempt(s1, t, o)
                  [] s.thr[t].at.got.ok /\ ~sent /\ more(k) # <<>> ->
                        IF dead(k).thr[t].at.pc = "stopping"
                        THEN AtPut(dead(k), t, [dead(k).thr[t].at EXCEPT !.rc = "disconnected"])
                        ELSE failAttempt(HandlePut(dead(k), [dead(k).handle EXCEPT !.pack = NoPack]), t, o)
                  [] OTHER ->
                        Return(NetPut(ClientPut(s1, k), writtenAgain(ClientPut(s1, k).net, more(k), cut)), t, "ok")
  <2>1. connacked(s, t, o, sent, cut) = K(e)
    BY DEF connacked, HandlePut, ClientPut, AtPut, NetPut
  <2>2. e = c
    OBVIOUS
  <2> HIDE DEF c, e
  <2>3. K(e) = K(c)
    BY <2>2
  <2>4. d = dead(c) /\ again = more(c)
    OBVIOUS
  <2> HIDE DEF s1, d
  <2>5. K(c) = CASE s.thr[t].at.got = NoPack -> failAttempt(s, t, o)
                 [] s.thr[t].at.got # NoPack /\ ~s.thr[t].at.got.ok -> failAttempt(s1, t, o)
                 [] s.thr[t].at.got.ok /\ ~sent /\ again # <<>> ->
                       IF d.thr[t].at.pc = "stopping" THEN d1 ELSE failAttempt(d2, t, o)
                 [] OTHER -> Return(g, t, "ok")
    BY <2>4
  <2> HIDE DEF K, d1, d2, g, again
  <2> QED
    BY <2>1, <2>3, <2>5
<1>2. Shape(s) /\ Fields(s.client, ClientFields) /\ Core(s, got)
  BY DEF Acting, Core, Shape
<1>3. Fields(c, ClientFields) /\ c.outbound = s.client.outbound /\ c.connected = TRUE
  BY <1>2, ZenonT(30) DEF Fields, ClientFields
<1>4. Same(s, s1)
  BY <1>2, OtherPutKeeps
<1> HIDE DEF c, s1
<1>5. /\ Shape(s1) /\ Acting(s1, t, got) /\ s1.locks = s.locks /\ ~s1.client.connected /\ s1.thr = s.thr
      /\ s1.net.up = s.net.up /\ s1.net.dn = s.net.dn /\ s1.net.pend = s.net.pend
  BY <1>4, SameKeeps DEF Same
<1>6. Sound(failAttempt(s, t, o), got) /\ Sound(failAttempt(s1, t, o), got)
  BY <1>5, Fails
<1>7. Flight(c.outbound, FALSE, s.net.up, s.net.dn, s.net.pend, got)
  BY <1>2, <1>3 DEF Core, Flight
<1>8. Acting(f, t, got) /\ f.locks = s.locks
  <2>1. Shape(f) /\ f.client = c /\ f.net = s.net /\ f.thr = s.thr /\ f.locks = s.locks
    <3>1. ClientIs(s, f, c)
      BY <1>2, <1>3, ClientPutKeeps, Zenon
    <3> HIDE DEF f
    <3> QED
      BY <1>2, <1>3, <3>1, Zenon DEF ClientIs
  <2> HIDE DEF f
  <2>2. Flight(f.client.outbound, f.client.connected, f.net.up, f.net.dn, f.net.pend, got)
    BY <1>3, <1>7, <2>1 DEF Flight
  <2>3. Core(f, got)
    BY <1>2, <1>3, <2>1, <2>2 DEF Core
  <2> QED
    BY <2>1, <2>3 DEF Acting
<1> HIDE DEF f
<1>9. Acting(d, t, got) /\ ~d.client.connected /\ d.locks = s.locks
  <2>1. ASSUME NEW call, NEW stops
        PROVE  LET e == disconnect1(f, t, call, stops)
               IN  Acting(e, t, got) /\ ~e.client.connected /\ e.locks = s.locks
    BY <1>8, Disconnects
  <2> QED
    BY <2>1, Zenon
<1> HIDE DEF d
<1>10. ASSUME d.thr[t].at.pc = "stopping" PROVE Sound(d1, got)
  <2> DEFINE x == [d.thr[t].at EXCEPT !.rc = "disconnected"]
  <2>1. Fields(d.thr[t].at, AtFields)
    BY <1>9 DEF Acting, Core, Shape, ThreadShape
  <2>2. Fields(x, AtFields) /\ x.pc = "stopping"
    BY <1>10, <2>1 DEF Fields, AtFields
  <2>3. NotYet(d)
    BY <1>9 DEF NotYet
  <2> HIDE DEF x
  <2>4. Sound(AtPut(d, t, x), got)
    BY <1>9, <2>2, <2>3, StaysInCall
  <2> QED
    BY <2>4 DEF x
<1>11. Sound(failAttempt(d2, t, o), got)
  <2>1. Shape(d)
    BY <1>9 DEF Acting, Core
  <2>2. Same(d, d2)
    BY <2>1, OtherPutKeeps
  <2> HIDE DEF d2
  <2>3. Acting(d2, t, got) /\ d2.locks = s.locks /\ ~d2.client.connected
    BY <1>9, <2>2, SameKeeps DEF Same
  <2> QED
    BY <2>3, Fails
<1>12. Sound(Return(g, t, "ok"), got)
  <2>1. /\ Shape(g1) /\ g1.client = c /\ g1.net = s1.net /\ g1.thr = s1.thr /\ g1.locks = s1.locks
    <3>1. ClientIs(s1, g1, c)
      BY <1>3, <1>5, ClientPutKeeps, Zenon
    <3> HIDE DEF g1
    <3> QED
      BY <1>3, <1>5, <3>1, Zenon DEF ClientIs
  <2> HIDE DEF g1
  <2>6. Fields(g1.net, NetFields)
    BY <2>1 DEF Shape
  <2>7. IsSeq(c.outbound)
    BY <1>7, Zenon DEF Flight
  <2>8. Again(again, c.outbound, s.client.conn) /\ Len(again) = Len(c.outbound)
    BY <2>7, AllAgain
  <2> HIDE DEF again
  <2>2. /\ Fields(n, NetFields) /\ n.dn = s.net.dn
        /\ cut = 0 => n.up = s.net.up \o again /\ n.pend = s.net.pend
        /\ cut # 0 => n.up = s.net.up \o SubSeq(again, 1, cut - 1) /\ n.pend = <<again[cut]>>
    BY <1>5, <2>1, <2>6 DEF Fields, NetFields, writtenAgain
  <2> HIDE DEF n
  <2>3. /\ Shape(g) /\ g.client = c /\ g.net = n /\ g.thr = s.thr /\ g.locks = s.locks
    <3>1. NetIs(g1, g, n)
      BY <1>5, <2>1, <2>2, NetPutKeeps, Zenon
    <3> HIDE DEF g
    <3> QED
      BY <1>5, <2>1, <2>2, <3>1, Zenon DEF NetIs
  <2> HIDE DEF g
  <2>4. Flight(c.outbound, TRUE, n.up, n.dn, n.pend, got)
    <3>1. CASE cut = 0
      <4>2. Flight(c.outbound, TRUE, s.net.up \o again, s.net.dn, s.net.pend, got)
        BY <1>7, <2>8, SentAgain, ZenonT(30)
      <4> QED
        BY <2>2, <3>1, <4>2
    <3>2. CASE cut # 0
      <4>1. cut \in 1..Len(c.outbound)
        BY <1>3, <3>2
      <4>2. Flight(c.outbound, TRUE, s.net.up \o SubSeq(again, 1, cut - 1), s.net.dn, <<again[cut]>>, got)
        BY <1>7, <2>8, <4>1, SentPartly, ZenonT(30)
      <4> QED
        BY <2>2, <3>2, <4>2
    <3> QED
      BY <3>1, <3>2
  <2>5. Core(g, got)
    BY <1>2, <1>3, <2>3, <2>4 DEF Core
  <2> QED
    BY <2>3, <2>5, Returns DEF Acting
<1> HIDE DEF d1, d2, g
<1> QED
  BY <1>1, <1>6, <1>10, <1>11, <1>12

\* MQTTClient_cycle reads a packet.
LEMMA Cycles ==
    ASSUME NEW s, NEW got, Core(s, got), NEW r \in cycle(s)
    PROVE  /\ Core(r.s, got) /\ r.s.thr = s.thr /\ r.s.locks = s.locks /\ r.s.lib = s.lib
           /\ r.s.client.connected = s.client.connected
<1> DEFINE p == Head(s.net.dn)
           n == [s.net EXCEPT !.dn = Tail(@)]
           e == NetPut(s, n)
           a == [e.client EXCEPT !.outbound = handlePubacks(@, p.id)]
           q == [e.client EXCEPT !.queue = Append(@, p.msg)]
<1>1. \/ r.s = s
      \/ s.net.dn # <<>> /\ r.s \in {e, ClientPut(e, q)}
      \/ s.net.dn # <<>> /\ p.type = "PUBACK" /\ r.s = ClientPut(e, a)
  <2> DEFINE rest   == [s EXCEPT !.net.dn = Tail(@)]
             settled == [rest EXCEPT !.client.outbound = handlePubacks(@, p.id)]
             queued == [rest EXCEPT !.client.queue = Append(@, p.msg)]
  <2>1. PICK f, k, rc :
           /\ r = Result(f, k, rc)
           /\ \/ f = s
              \/ s.net.dn # <<>> /\ (f = rest \/ f = queued)
              \/ s.net.dn # <<>> /\ p.type = "PUBACK" /\ f = settled
    BY ZenonT(30) DEF cycle
  <2>2. r.s = f
    BY <2>1, Zenon DEF Result
  <2>3. rest = e
    BY Zenon DEF NetPut
  <2>4. settled = ClientPut(e, a) /\ queued = ClientPut(e, q)
    BY <2>3, Zenon DEF ClientPut
  <2> HIDE DEF rest, settled, queued, e, a, q
  <2> QED
    BY <2>1, <2>2, <2>3, <2>4, Zenon
<1>2. CASE r.s = s
  BY <1>2
<1>3. CASE s.net.dn # <<>>
  <2>1. Shape(s) /\ Fields(s.net, NetFields)
    BY DEF Core, Shape
  <2>2. Fields(n, NetFields) /\ n.up = s.net.up /\ n.dn = Tail(s.net.dn) /\ n.pend = s.net.pend
    BY <2>1 DEF Fields, NetFields
  <2> HIDE DEF n
  <2>3. /\ Shape(e) /\ e.client = s.client /\ e.net = n /\ e.thr = s.thr /\ e.locks = s.locks /\ e.lib = s.lib
    <3>1. NetIs(s, e, n)
      BY <2>1, <2>2, NetPutKeeps, Zenon
    <3> HIDE DEF e
    <3> QED
      BY <2>1, <2>2, <3>1, Zenon DEF NetIs
  <2> HIDE DEF e
  <2>4. Flight(s.client.outbound, s.client.connected, n.up, n.dn, n.pend, got)
    BY <1>3, <2>2, OtherRead DEF Core
  <2>5. Core(e, got)
    BY <2>3, <2>4 DEF Core
  <2>6. Fields(e.client, ClientFields)
    BY <2>3 DEF Shape
  <2>7. CASE r.s = e
    BY <2>3, <2>5, <2>7
  <2>8. CASE r.s = ClientPut(e, q)
    <3>1. Fields(q, ClientFields) /\ q.outbound = s.client.outbound /\ q.connected = s.client.connected
      BY <2>3, <2>6, ZenonT(30) DEF Fields, ClientFields
    <3> HIDE DEF q
    <3>2. /\ Shape(r.s) /\ r.s.client = q /\ r.s.net = n /\ r.s.thr = s.thr /\ r.s.locks = s.locks
          /\ r.s.lib = s.lib
      <4>1. ClientIs(e, ClientPut(e, q), q)
        BY <2>3, <2>8, <3>1, ClientPutKeeps, Zenon
      <4> QED
        BY <2>3, <2>8, <3>1, <4>1, Zenon DEF ClientIs
    <3>3. Core(r.s, got)
      BY <2>4, <3>1, <3>2 DEF Core
    <3> QED
      BY <3>1, <3>2, <3>3
  <2>9. CASE p.type = "PUBACK" /\ r.s = ClientPut(e, a)
    <3> DEFINE out == handlePubacks(s.client.outbound, p.id)
    <3>1. Fields(a, ClientFields) /\ a.outbound = out /\ a.connected = s.client.connected
      <4>1. a = [e.client EXCEPT !.outbound = out]
        BY <2>3
      <4> HIDE DEF out, a
      <4> QED
        BY <2>3, <2>6, <4>1 DEF Fields, ClientFields
    <3> HIDE DEF a
    <3>3. /\ Flight(out, s.client.connected, n.up, n.dn, n.pend, got)
          /\ Range(out) = {m \in Range(s.client.outbound) : m.id # p.id}
          /\ \A m \in Range(s.client.outbound) : m.id = p.id => m.msg \in got
      <4>1. Flight(s.client.outbound, s.client.connected, s.net.up, s.net.dn, s.net.pend, got)
        BY DEF Core
      <4> DEFINE old == s.client.outbound
                 dn  == s.net.dn
                 con == s.client.connected
                 up  == s.net.up
                 pnd == s.net.pend
      <4>3. Flight(old, con, up, dn, pnd, got) /\ dn # <<>> /\ Head(dn).type = "PUBACK"
        BY <1>3, <2>9, <4>1
      <4>2. /\ Flight(out, con, up, Tail(dn), pnd, got)
            /\ Range(out) = {m \in Range(old) : m.id # p.id}
            /\ \A m \in Range(old) : m.id = p.id => m.msg \in got
        <5> HIDE DEF old, dn, con, up, pnd
        <5>1. /\ Flight(handlePubacks(old, Head(dn).id), con, up, Tail(dn), pnd, got)
              /\ Range(handlePubacks(old, Head(dn).id)) = {m \in Range(old) : m.id # Head(dn).id}
              /\ \A m \in Range(old) : m.id = Head(dn).id => m.msg \in got
          BY <4>3, PubackRead
        <5> QED
          BY <5>1 DEF dn, old
      <4> QED
        BY <2>2, <4>2, Zenon
    <3> HIDE DEF out, p
    <3>2. /\ Shape(r.s) /\ r.s.client = a /\ r.s.net = n /\ r.s.thr = s.thr /\ r.s.locks = s.locks
          /\ r.s.lib = s.lib
      <4>1. r.s = ClientPut(e, a)
        BY <2>9
      <4>2. /\ Shape(ClientPut(e, a)) /\ ClientPut(e, a).client = a /\ ClientPut(e, a).net = e.net
            /\ ClientPut(e, a).thr = e.thr /\ ClientPut(e, a).locks = e.locks
            /\ ClientPut(e, a).lib = e.lib
        <5>1. ClientIs(e, ClientPut(e, a), a)
          BY <2>3, <3>1, ClientPutKeeps, Zenon
        <5> QED
          BY <2>3, <3>1, <5>1, Zenon DEF ClientIs
      <4> QED
        BY <2>3, <4>1, <4>2, Zenon
    <3>4. ASSUME NEW u \in Threads PROVE TokenKept(r.s.thr[u].token, out, got)
      <4>1. TokenKept(s.thr[u].token, s.client.outbound, got)
        BY DEF Core
      <4> QED
        BY <3>2, <3>3, <4>1 DEF TokenKept
    <3>5. Core(r.s, got)
      BY <3>1, <3>2, <3>3, <3>4 DEF Core
    <3> QED
      BY <3>1, <3>2, <3>5
  <2> QED
    BY <1>1, <1>2, <2>7, <2>8, <2>9
<1> QED
  BY <1>1, <1>2, <1>3

\* So between the steps, and within one.
LEMMA CyclesKeep ==
    ASSUME NEW s, NEW got, NEW r \in cycle(s)
    PROVE  /\ Sound(s, got) => Sound(r.s, got)
           /\ \A t \in Threads : Acting(s, t, got) => Acting(r.s, t, got)
           /\ Core(s, got) => r.s.thr = s.thr /\ r.s.locks = s.locks /\ r.s.lib = s.lib
                              /\ r.s.client.connected = s.client.connected
<1>1. SUFFICES ASSUME Core(s, got)
               PROVE  /\ Sound(s, got) => Sound(r.s, got)
                      /\ \A t \in Threads : Acting(s, t, got) => Acting(r.s, t, got)
                      /\ r.s.thr = s.thr /\ r.s.locks = s.locks /\ r.s.lib = s.lib
                      /\ r.s.client.connected = s.client.connected
  BY DEF Sound, Acting
<1>2. /\ Core(r.s, got) /\ r.s.thr = s.thr /\ r.s.locks = s.locks /\ r.s.lib = s.lib
      /\ r.s.client.connected = s.client.connected
  BY <1>1, Cycles
<1> QED
  BY <1>2 DEF Sound, Acting, NotYet
=============================================================================
