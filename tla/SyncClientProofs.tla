-------------------------- MODULE SyncClientProofs --------------------------
(***************************************************************************)
(* MQTTClient_waitForCompletion tells the truth: for any programs of the   *)
(* threads and any number of losses and partial writes.                    *)
(***************************************************************************)
EXTENDS FlightProofs, FiniteSetTheorems

-----------------------------------------------------------------------------
(* The identifier of a message. *)

\* A non-empty set of numbers has a least one.
LEMMA LeastOne ==
    ASSUME NEW I, I \subseteq Nat, I # {}
    PROVE  Min(I) \in I /\ \A i \in I : Min(I) <= i
<1>1. PICK x \in I : \A y \in I : ~(<<y, x>> \in OpToRel(<, Nat))
  BY WFMin, NatLessThanWellFounded
<1>2. ASSUME NEW y \in I, y < x
      PROVE  <<y, x>> \in OpToRel(<, Nat)
  BY <1>2 DEF OpToRel
<1>3. \A y \in I : ~(y < x)
  BY <1>1, <1>2, Zenon
<1>4. \A y \in I : x <= y
  BY <1>3
<1> QED
  BY <1>4 DEF Min

\* MQTTProtocol_assignMsgId finds an id that no message in flight has.
LEMMA FreeId ==
    ASSUME NEW c, IsSeq(c.outbound), Len(c.outbound) < MAX_MSG_ID
    PROVE  \A e \in Range(c.outbound) : e.id # assignMsgId(c)
<1> DEFINE out   == c.outbound
           used  == {out[i].id : i \in DOMAIN out}
           free  == 1..MAX_MSG_ID \ used
           after == {i \in free : i > c.msgID}
           f     == [i \in 1..Len(out) |-> out[i].id]
<1>1. out \in Seq(Range(out))
  BY DEF IsSeq
<1>2. DOMAIN out = 1..Len(out) /\ Len(out) \in Nat
  BY <1>1
<1>3. \A x : x \in Range(out) <=> \E i \in 1..Len(out) : x = out[i]
  BY <1>1, Sequences
<1>4. IsFiniteSet(used) /\ Cardinality(used) <= Len(out)
  <2>1. IsFiniteSet(1..Len(out)) /\ Cardinality(1..Len(out)) = Len(out)
    BY <1>2, FS_Interval
  <2>2. f \in [1..Len(out) -> used]
    BY <1>2
  <2>3. \A x \in used : \E i \in 1..Len(out) : f[i] = x
    BY <1>2
  <2>4. f \in Surjection(1..Len(out), used)
    BY <2>2, <2>3 DEF Surjection
  <2> QED
    BY <2>1, <2>4, FS_Surjection
<1>5. free # {}
  <2> SUFFICES ASSUME free = {} PROVE FALSE
    OBVIOUS
  <2>1. 1..MAX_MSG_ID \subseteq used
    OBVIOUS
  <2>2. Cardinality(1..MAX_MSG_ID) = MAX_MSG_ID
    BY SyncAssumption, FS_Interval
  <2>3. Cardinality(1..MAX_MSG_ID) <= Cardinality(used)
    BY <1>4, <2>1, FS_Subset
  <2>4. Cardinality(used) \in Nat
    BY <1>4, FS_CardinalityType
  <2> QED
    BY <1>2, <1>4, <2>2, <2>3, <2>4, SyncAssumption
<1>6. assignMsgId(c) = IF after # {} THEN Min(after) ELSE Min(free)
  BY DEF assignMsgId
<1>7. free \subseteq Nat /\ after \subseteq Nat
  BY SyncAssumption
<1>8. assignMsgId(c) \in free
  <2>1. CASE after # {}
    <3>1. Min(after) \in after
      BY <1>7, <2>1, LeastOne
    <3> QED
      BY <1>6, <2>1, <3>1
  <2>2. CASE after = {}
    BY <1>5, <1>6, <1>7, <2>2, LeastOne
  <2> QED
    BY <2>1, <2>2
<1> QED
  BY <1>2, <1>3, <1>8

-----------------------------------------------------------------------------
(* The steps. *)

\* The fields of the state.
LEMMA NowIs ==
    /\ Now.client = client /\ Now.handle = handle /\ Now.lib = lib /\ Now.run = run
    /\ Now.thr = thr /\ Now.locks = locks /\ Now.net = net
BY DEF Now

\* A locked section makes its value the new state.
LEMMA Becomes ==
    ASSUME NEW s, NEW got, Become(s), Sound(s, got)
    PROVE  Sound(Now', got)
<1>1. Fields(s, StateFields)
  BY DEF Sound, Core, Shape
<1>2. s = [client |-> s.client, handle |-> s.handle, lib |-> s.lib, run |-> s.run, thr |-> s.thr,
           locks |-> s.locks, net |-> s.net]
  BY <1>1 DEF Fields, StateFields
<1>3. Now' = s
  BY <1>2 DEF Become, Now
<1> QED
  BY <1>3

\* A client's record changes in what does not matter here.
LEMMA ClientSame ==
    ASSUME NEW s, Shape(s), NEW c, Fields(c, ClientFields),
           c.outbound = s.client.outbound, c.connected = s.client.connected
    PROVE  /\ Same(s, ClientPut(s, c)) /\ ClientPut(s, c).lib = s.lib
           /\ ClientPut(s, c).client = c /\ ClientPut(s, c).net = s.net
<1>1. ClientIs(s, ClientPut(s, c), c)
  BY ClientPutKeeps, Zenon
<1> QED
  BY <1>1, Zenon DEF ClientIs, Same

\* The state of a thread changes, and nothing else that matters.
LEMMA AtStep ==
    ASSUME NEW got, NEW t \in Threads, Sound(Now, got), Acting(Now, t, got), NEW x, Fields(x, AtFields),
           thr' = [thr EXCEPT ![t].at = x], UNCHANGED <<client, locks, net>>,
           x.pc # "idle",
           x.pc \in {"enter", "wait", "turn", "read", "locked"} =>
              /\ x.await \in Connecting \cup {"SUBACK", "UNSUBACK"}
              /\ x.await \in Connecting => locks.connect = t,
           x.pc # "stopping"
    PROVE  Sound(Now', got)
<1> DEFINE s2 == AtPut(Now, t, x)
<1>1. Sound(s2, got)
  BY NowIs, StaysInCall DEF Sound
<1>2. s2.thr = thr' /\ s2.client = client' /\ s2.net = net' /\ s2.locks = locks'
  BY NowIs DEF AtPut, Now
<1> HIDE DEF s2
<1>3. Shape(s2)
  BY <1>1 DEF Sound, Core
<1>4. /\ Fields(Now', StateFields) /\ (Now').client = client' /\ (Now').thr = thr'
      /\ (Now').locks = locks' /\ (Now').net = net'
  BY DEF Now, Fields, StateFields
<1>5. Same(s2, Now')
  BY <1>2, <1>3, <1>4 DEF Same, Shape
<1> QED
  BY <1>1, <1>5, SameKeeps

\* What a thread in a wait knows.
LEMMA InWait ==
    ASSUME NEW got, NEW t \in Threads, Sound(Now, got), thr[t].at.pc \in {"enter", "wait", "turn", "read", "locked"}
    PROVE  /\ Acting(Now, t, got) /\ NotYet(Now) /\ Fields(thr[t].at, AtFields)
           /\ thr[t].at.await \in Connecting \cup {"SUBACK", "UNSUBACK"}
           /\ thr[t].at.await \in Connecting => locks.connect = t /\ ~client.connected
<1>1. Acting(Now, t, got)
  BY NowIs, InCall
<1>2. Fine(thr[t], locks.connect, t, got) /\ NotYet(Now)
  BY NowIs DEF Sound
<1>3. Fields(thr[t].at, AtFields)
  BY NowIs DEF Sound, Core, Shape, ThreadShape
<1>4. t # "none"
  BY DEF Threads, Lost
<1> QED
  BY <1>1, <1>2, <1>3, <1>4, NowIs DEF Fine, NotYet

\* MQTTClient_waitfor begins to wait, or finds that the time is up.
LEMMA EnterStep ==
    ASSUME NEW got, NEW t \in Threads, Sound(Now, got), enter(t) \/ waitSem(t) \/ readPack(t)
    PROVE  Sound(Now', got)
<1> DEFINE x == thr[t].at
<1>1. /\ thr[t].at.pc \in {"enter", "wait", "turn", "read", "locked"} /\ UNCHANGED <<client, locks, net>>
  BY DEF enter, waitSem, readPack
<1>2. /\ Acting(Now, t, got) /\ Fields(x, AtFields)
      /\ x.await \in Connecting \cup {"SUBACK", "UNSUBACK"}
      /\ x.await \in Connecting => locks.connect = t
  BY <1>1, InWait
<1>3. ASSUME NEW v, thr' = [thr EXCEPT ![t].at = v], Fields(v, AtFields),
             v.pc \in {"wait", "read", "locked"}, v.await = x.await
      PROVE  Sound(Now', got)
  BY <1>1, <1>2, <1>3, AtStep
<1>4. CASE enter(t)
  <2> DEFINE v == IF x.late THEN [x EXCEPT !.pc = "locked", !.rc = "timeout"]
                  ELSE [x EXCEPT !.pc = "wait", !.rc = "ok", !.mode = IF lib.running THEN "sem" ELSE "loop"]
  <2>1. thr' = [thr EXCEPT ![t].at = v]
    BY <1>4 DEF enter
  <2>2. Fields(v, AtFields) /\ v.pc \in {"wait", "read", "locked"} /\ v.await = x.await
    BY <1>2 DEF Fields, AtFields
  <2> QED
    BY <1>3, <2>1, <2>2
<1>5. CASE waitSem(t)
  <2> DEFINE v == [x EXCEPT !.pc = "read", !.rc = IF semOf(x.await) = "connect" THEN handle.rc ELSE "ok"]
             w == [x EXCEPT !.pc = "read", !.rc = "timeout", !.late = TRUE]
  <2>1. thr' = [thr EXCEPT ![t].at = v] \/ thr' = [thr EXCEPT ![t].at = w]
    BY <1>5 DEF waitSem
  <2>2. /\ Fields(v, AtFields) /\ v.pc \in {"wait", "read", "locked"} /\ v.await = x.await
        /\ Fields(w, AtFields) /\ w.pc \in {"wait", "read", "locked"} /\ w.await = x.await
    BY <1>2 DEF Fields, AtFields
  <2> QED
    BY <1>3, <2>1, <2>2, ZenonT(30)
<1>6. CASE readPack(t)
  <2> DEFINE v == [x EXCEPT !.pc = "locked", !.got = handle.pack]
  <2>1. thr' = [thr EXCEPT ![t].at = v]
    BY <1>6 DEF readPack
  <2>2. Fields(v, AtFields) /\ v.pc \in {"wait", "read", "locked"} /\ v.await = x.await
    BY <1>2 DEF Fields, AtFields
  <2> QED
    BY <1>3, <2>1, <2>2
<1> QED
  BY <1>4, <1>5, <1>6

\* MQTTClient_waitfor reads the socket itself.
LEMMA WaitLoopStep ==
    ASSUME NEW got, NEW t \in Threads, Sound(Now, got), waitLoop(t)
    PROVE  Sound(Now', got)
<1> DEFINE x == thr[t].at
           a(r) == [x EXCEPT !.pc = "turn", !.rc = r.rc, !.got = r.pack]
           b == [x EXCEPT !.pc = "locked", !.late = TRUE]
<1>1. /\ Acting(Now, t, got) /\ NotYet(Now) /\ Fields(x, AtFields)
      /\ x.await \in Connecting \cup {"SUBACK", "UNSUBACK"}
      /\ x.await \in Connecting => locks.connect = t
  BY InWait DEF waitLoop
<1>2. ASSUME NEW s, Acting(s, t, got), NotYet(s), s.locks = locks,
             NEW v, Fields(v, AtFields), v.pc \in {"turn", "locked"}, v.await = x.await
      PROVE  Sound(AtPut(s, t, v), got)
  BY <1>1, <1>2, StaysInCall
<1>3. ASSUME NEW r
      PROVE  /\ Fields(a(r), AtFields) /\ a(r).pc \in {"turn", "locked"} /\ a(r).await = x.await
             /\ Fields(b, AtFields) /\ b.pc \in {"turn", "locked"} /\ b.await = x.await
  BY <1>1 DEF Fields, AtFields
<1>4. (\E r \in cycle(Now) : Become(AtPut(r.s, t, a(r)))) \/ Become(AtPut(Now, t, b))
  BY DEF waitLoop, AtPut
<1> HIDE DEF a, b
<1>5. CASE \E r \in cycle(Now) : Become(AtPut(r.s, t, a(r)))
  <2>1. PICK r \in cycle(Now) : Become(AtPut(r.s, t, a(r)))
    BY <1>5
  <2>2. Acting(r.s, t, got) /\ Sound(r.s, got) /\ r.s.locks = locks
    BY <1>1, <2>1, CyclesKeep, NowIs DEF Sound
  <2>3. Sound(AtPut(r.s, t, a(r)), got)
    BY <1>2, <1>3, <2>2, ZenonT(30) DEF Sound
  <2> QED
    BY <2>1, <2>3, Becomes
<1>6. CASE Become(AtPut(Now, t, b))
  <2>1. Sound(AtPut(Now, t, b), got)
    BY <1>1, <1>2, <1>3, NowIs, ZenonT(30)
  <2> QED
    BY <1>6, <2>1, Becomes
<1> QED
  BY <1>4, <1>5, <1>6

\* It looks at what it has read.
LEMMA WaitTurnStep ==
    ASSUME NEW got, NEW t \in Threads, Sound(Now, got), waitTurn(t)
    PROVE  Sound(Now', got)
<1> DEFINE x == thr[t].at
           a == [x EXCEPT !.pc = "wait", !.got = NoPack]
           b == [x EXCEPT !.pc = "locked"]
           c == [x EXCEPT !.pc = "locked", !.rc = IF net.tcp = "up" THEN "ok" ELSE "error"]
           d == [x EXCEPT !.pc = "locked", !.rc = "error"]
           v == turnOf(x)
<1>1. /\ Acting(Now, t, got) /\ Fields(x, AtFields)
      /\ x.await \in Connecting \cup {"SUBACK", "UNSUBACK"}
      /\ x.await \in Connecting => locks.connect = t
  BY InWait DEF waitTurn
<1>2. thr' = [thr EXCEPT ![t].at = v] /\ UNCHANGED <<client, locks, net>>
  BY DEF waitTurn
<1>3. v \in {a, b, c, d}
  <2>1. v = CASE client.sock = 0 -> a
              [] client.sock # 0 /\ (x.rc = "error" \/ x.got.type = x.await) -> b
              [] client.sock # 0 /\ x.rc # "error" /\ x.got.type # x.await ->
                    CASE client.state = "tcp" -> c
                      [] client.state = "ws" -> d
                      [] OTHER -> a
    BY DEF turnOf
  <2> HIDE DEF a, b, c, d, v
  <2> QED
    BY <2>1
<1>4. ASSUME NEW w \in {a, b, c, d}
      PROVE  Fields(w, AtFields) /\ w.pc \in {"wait", "locked"} /\ w.await = x.await
  BY <1>1, <1>4 DEF Fields, AtFields
<1> HIDE DEF v
<1>5. Fields(v, AtFields) /\ v.pc \in {"wait", "locked"} /\ v.await = x.await
  BY <1>3, <1>4, Zenon
<1> QED
  BY <1>1, <1>2, <1>5, AtStep

\* A call goes on after its wait, with the mutex.
LEMMA ResumeStep ==
    ASSUME ~scene.cleansession, NEW got, NEW t \in Threads, Sound(Now, got), resume(t)
    PROVE  Sound(Now', got)
<1> DEFINE x == thr[t].at
           s == Now
<1>1. /\ Acting(s, t, got) /\ NotYet(s) /\ x.await \in Connecting \cup {"SUBACK", "UNSUBACK"}
      /\ x.await \in Connecting => s.locks.connect = t /\ ~s.client.connected
  BY InWait, NowIs DEF resume
<1>2. PICK o, sent, cut :
         /\ cut \in Cuts(x)
         /\ Become(CASE x.await = "tcp"     -> tcpConnected(s, t, o)
                     [] x.await = "ws"      -> upgraded(s, t, o)
                     [] x.await = "CONNACK" -> connacked(s, t, o, sent, cut)
                     [] x.await \in {"SUBACK", "UNSUBACK"} -> acked(s, t))
  BY ZenonT(30) DEF resume
<1>5. cut = 0 \/ cut \in 1..Len(s.client.outbound)
  <2>1. client.outbound \in Seq(Range(client.outbound))
    BY NowIs DEF Sound, Core, Flight, IsSeq
  <2>2. Len(client.outbound) \in Nat
    BY <2>1
  <2>3. cut \in 0..Len(client.outbound) \/ cut = 0
    BY <1>2 DEF Cuts
  <2> QED
    BY <2>2, <2>3, NowIs
<1> HIDE DEF s
<1>3. CASE x.await \in Connecting
  <2>1. Sound(greet(s, t), got) /\ Sound(sendConnect(s, t), got)
    BY <1>1, <1>3, Greets
  <2>2. Sound(failAttempt(s, t, o), got)
    BY <1>1, <1>3, Fails
  <2>3. Sound(tcpConnected(s, t, o), got) /\ Sound(upgraded(s, t, o), got)
    BY <2>1, <2>2 DEF tcpConnected, upgraded
  <2>4. Sound(connacked(s, t, o, sent, cut), got)
    BY <1>1, <1>3, <1>5, Connacked
  <2>5. \/ Become(tcpConnected(s, t, o)) \/ Become(upgraded(s, t, o))
        \/ Become(connacked(s, t, o, sent, cut))
    BY <1>2, <1>3 DEF Connecting
  <2> QED
    BY <2>3, <2>4, <2>5, Becomes
<1>4. CASE x.await \in {"SUBACK", "UNSUBACK"}
  <2> DEFINE h == HandlePut(s, [s.handle EXCEPT !.pack = NoPack])
             rc == IF s.thr[t].at.rc = "ok" THEN "ok" ELSE "error"
  <2>1. Become(acked(s, t))
    BY <1>2, <1>4
  <2>2. ASSUME NEW call, NEW stops PROVE Sound(giveUp(s, t, "error", call, stops), got)
    BY <1>1, GivesUp
  <2>3. Shape(s)
    BY <1>1 DEF Acting, Core
  <2>4. Same(s, h)
    BY <2>3, OtherPutKeeps
  <2>5. acked(s, t) = IF s.thr[t].at.got = NoPack THEN giveUp(s, t, "error", TRUE, TRUE) ELSE Return(h, t, rc)
    BY DEF acked, HandlePut
  <2> HIDE DEF h, rc
  <2>6. Acting(h, t, got) /\ NotYet(h)
    BY <1>1, <2>4, SameKeeps
  <2>7. Sound(Return(h, t, rc), got)
    BY <2>6, Returns DEF Acting, NotYet
  <2>8. Sound(giveUp(s, t, "error", TRUE, TRUE), got)
    BY <2>2, Zenon
  <2>9. Sound(acked(s, t), got)
    BY <2>5, <2>7, <2>8, ZenonT(30)
  <2> QED
    BY <2>1, <2>9, Becomes
<1> QED
  BY <1>1, <1>3, <1>4

\* MQTTClient_stop has waited for the background thread.
LEMMA StopWaitStep ==
    ASSUME ~scene.cleansession, NEW got, NEW t \in Threads, Sound(Now, got), stopWait(t)
    PROVE  Sound(Now', got)
<1> DEFINE x == thr[t].at
           s == IF x.lost THEN connectionLost(Now) ELSE Now
           e == AtPut(s, t, [s.thr[t].at EXCEPT !.pc = "locked"])
           f == HandlePut(e, [e.handle EXCEPT !.pack = NoPack])
           g == AtPut(s, t, [s.thr[t].at EXCEPT !.rc = "ok"])
<1> SUFFICES ASSUME x.pc = "stopping" PROVE Sound(Now', got)
  <2>1. CASE x.pc = "stopping"
    BY <2>1
  <2>2. CASE x.pc # "stopping"
    <3>1. x.pc \in Loops /\ Become(g)
      BY <2>2 DEF stopWait, AtPut
    <3>2. Shape(Now)
      BY DEF Sound, Core
    <3>3. Sound(s, got) /\ s.thr[t].at = x
      <4>1. Sound(connectionLost(Now), got) /\ connectionLost(Now).thr[t].at = Now.thr[t].at
        BY <3>2, LosesConnection, Zenon
      <4> QED
        BY <4>1, NowIs
    <3> HIDE DEF s
    <3> DEFINE v == [s.thr[t].at EXCEPT !.rc = "ok"]
    <3>4. Fields(s.thr[t].at, AtFields)
      BY <3>3 DEF Sound, Core, Shape, ThreadShape
    <3>5. Fields(v, AtFields) /\ v.pc = s.thr[t].at.pc
      BY <3>4 DEF Fields, AtFields
    <3> HIDE DEF v
    <3>6. Sound(AtPut(s, t, v), got)
      BY <3>1, <3>3, <3>5, LoopGoesOn, Zenon
    <3> QED
      BY <3>1, <3>6, Becomes DEF v
  <2> QED
    BY <2>1, <2>2
<1>1. Shape(Now)
  BY DEF Sound, Core
<1>2. /\ Acting(Now, t, got) /\ NotYet(Now) /\ (x.rc = "disconnected" => locks.connect = t)
  BY InCall, NowIs DEF Sound, Fine
<1>3. Acting(s, t, got) /\ s.locks = locks /\ s.client = client
  BY <1>1, <1>2, LosesConnection, NowIs
<1>4. \/ Become(Return(s, t, x.rc))
      \/ x.rc = "disconnected" /\ \E o : Become(failAttempt(f, t, o))
  BY DEF stopWait, AtPut, HandlePut
<1> HIDE DEF s, g
<1>5. Sound(Return(s, t, x.rc), got)
  BY <1>2, <1>3, NowIs, Returns, ZenonT(30) DEF Acting, NotYet
<1>6. ASSUME x.rc = "disconnected", NEW o PROVE Sound(failAttempt(f, t, o), got)
  <2> DEFINE v == [s.thr[t].at EXCEPT !.pc = "locked"]
  <2>1. Fields(s.thr[t].at, AtFields)
    BY <1>3 DEF Acting, Core, Shape, ThreadShape
  <2>2. Fields(v, AtFields)
    BY <2>1 DEF Fields, AtFields
  <2> HIDE DEF v
  <2>3. Acting(e, t, got) /\ e.locks = locks /\ e.client = client
    <3>1. Acting(e, t, got) /\ AtIs(s, e, t, v)
      BY <1>3, <2>2, ActingAt, Zenon DEF v
    <3> HIDE DEF e
    <3> QED
      BY <1>3, <3>1, Zenon DEF AtIs
  <2> HIDE DEF e
  <2>4. Shape(e)
    BY <2>3 DEF Acting, Core
  <2>5. Same(e, f)
    BY <2>4, OtherPutKeeps
  <2> HIDE DEF f
  <2>6. t # "none"
    BY DEF Threads, Lost
  <2>7. Acting(f, t, got) /\ f.locks.connect = t /\ ~f.client.connected
    BY <1>2, <1>6, <2>3, <2>5, <2>6, SameKeeps, NowIs DEF Same, NotYet
  <2> QED
    BY <2>7, Fails
<1> QED
  BY <1>4, <1>5, <1>6, Becomes

\* A mutex is taken.
LEMMA TakesLock ==
    ASSUME NEW s, NEW got, NEW t \in Threads, Acting(s, t, got), NEW l \in LockFields, s.locks[l] = "none"
    PROVE  LET s2 == LocksPut(s, [s.locks EXCEPT ![l] = t])
           IN  /\ Acting(s2, t, got) /\ s2.locks[l] = t /\ (l # "connect" => s2.locks.connect = s.locks.connect)
               /\ s2.client = s.client /\ s2.net = s.net /\ s2.thr = s.thr /\ s2.lib = s.lib
<1> DEFINE k  == [s.locks EXCEPT ![l] = t]
           s2 == LocksPut(s, k)
<1>1. Shape(s) /\ Fields(s.locks, LockFields)
  BY DEF Acting, Core, Shape
<1>2. Fields(k, LockFields) /\ k[l] = t /\ (l # "connect" => k.connect = s.locks.connect)
  BY <1>1 DEF Fields, LockFields
<1> HIDE DEF k
<1>3. /\ Shape(s2) /\ s2.locks = k /\ s2.client = s.client /\ s2.net = s.net /\ s2.thr = s.thr
      /\ s2.lib = s.lib
  <2>1. LocksAre(s, s2, k)
    BY <1>1, <1>2, LocksPutKeeps, Zenon
  <2> HIDE DEF s2
  <2> QED
    BY <1>1, <1>2, <2>1, Zenon DEF LocksAre
<1> HIDE DEF s2
<1>4. Core(s2, got)
  BY <1>3 DEF Core, Acting
<1>5. \A u \in Threads : u # "none"
  BY DEF Threads, Lost
<1>6. \A u \in Threads \ {t} : Fine(s2.thr[u], s2.locks.connect, u, got)
  BY <1>2, <1>3, <1>5, FineKept DEF Acting
<1> QED
  BY <1>2, <1>3, <1>4, <1>6, ZenonT(30) DEF Acting, s2, k

\* A thread that calls something.
LEMMA Calling ==
    ASSUME NEW got, NEW t \in Threads, Sound(Now, got), NEW op, Calls(t, op), op # "wait"
    PROVE  Acting(Now, t, got) /\ NotYet(Now) /\ Fields(thr[t].at, AtFields)
<1>1. Acting(Now, t, got)
  BY InCall, NowIs DEF Calls
<1>2. Fields(thr[t].at, AtFields)
  BY NowIs DEF Sound, Core, Shape, ThreadShape
<1> QED
  BY <1>1, <1>2 DEF Sound

\* MQTTClient_connect up to its first wait.
LEMMA ConnectStep ==
    ASSUME ~scene.cleansession, NEW got, NEW t \in Threads, Sound(Now, got), connect(t)
    PROVE  Sound(Now', got)
<1> DEFINE s == LocksPut(Now, [Now.locks EXCEPT !["connect"] = t])
<1>1. Acting(Now, t, got) /\ locks["connect"] = "none" /\ ~client.connected
  BY Calling DEF connect
<1>2. \E o1, o2 : Become(connectURI(s, t, o1, o2))
  BY DEF connect, LocksPut
<1>3. Acting(s, t, got) /\ s.locks.connect = t /\ s.client = client
  <2> DEFINE l == "connect"
  <2>1. l \in LockFields /\ Now.locks[l] = "none"
    BY <1>1, NowIs DEF LockFields
  <2>2. s = LocksPut(Now, [Now.locks EXCEPT ![l] = t])
    OBVIOUS
  <2> HIDE DEF l
  <2>3. Acting(s, t, got) /\ s.locks[l] = t /\ s.client = Now.client
    BY <1>1, <2>1, <2>2, TakesLock
  <2> HIDE DEF s
  <2> QED
    BY <2>3, NowIs DEF l
<1> HIDE DEF s
<1>4. \A o1, o2 : Sound(connectURI(s, t, o1, o2), got)
  BY <1>1, <1>3, Connects
<1> QED
  BY <1>2, <1>4, Becomes

\* A state with a packet partly written, or written.
LEMMA PendingPut ==
    ASSUME NEW s, NEW got, NEW t \in Threads, Acting(s, t, got), NEW p,
           Flight(s.client.outbound, s.client.connected, s.net.up, s.net.dn, <<p>>, got)
    PROVE  LET s2 == NetPut(s, [s.net EXCEPT !.pend = <<p>>])
           IN  /\ Acting(s2, t, got) /\ s2.locks = s.locks /\ s2.client = s.client /\ s2.thr = s.thr
<1> DEFINE n  == [s.net EXCEPT !.pend = <<p>>]
           s2 == NetPut(s, n)
<1>1. Shape(s) /\ Fields(s.net, NetFields)
  BY DEF Acting, Core, Shape
<1>2. Fields(n, NetFields) /\ n.up = s.net.up /\ n.dn = s.net.dn /\ n.pend = <<p>>
  BY <1>1 DEF Fields, NetFields
<1> HIDE DEF n
<1>3. Shape(s2) /\ s2.net = n /\ s2.client = s.client /\ s2.thr = s.thr /\ s2.locks = s.locks
  <2>1. NetIs(s, s2, n)
    BY <1>1, <1>2, NetPutKeeps, Zenon
  <2> HIDE DEF s2
  <2> QED
    BY <1>1, <1>2, <2>1, Zenon DEF NetIs
<1> HIDE DEF s2
<1>4. Core(s2, got)
  BY <1>2, <1>3 DEF Core, Acting
<1> QED
  BY <1>3, <1>4 DEF Acting, s2, n

\* MQTTClient_subscribeMany5 and MQTTClient_unsubscribeMany5.
LEMMA AskStep ==
    ASSUME ~scene.cleansession, NEW got, NEW t \in Threads, Sound(Now, got),
           NEW op \in {"SUBSCRIBE", "UNSUBSCRIBE"}, NEW ack \in {"SUBACK", "UNSUBACK"}, ask(t, op, ack)
    PROVE  Sound(Now', got)
<1> DEFINE id == assignMsgId(client)
           p  == Packet(op, id, client.conn)
           s0 == LocksPut(Now, [Now.locks EXCEPT ![op] = t])
           s1 == ClientPut(s0, [s0.client EXCEPT !.msgID = id])
           x  == [s1.thr[t].at EXCEPT !.asked = Packet(ack, id, client.conn), !.clean = ~faults.given]
           s  == AtPut(s1, t, x)
           d  == NetPut(s, [s.net EXCEPT !.pend = <<p>>])
<1>1. Acting(Now, t, got) /\ NotYet(Now) /\ locks[op] = "none"
  BY Calling DEF ask
<1>2. \/ Become(Return(Now, t, "disconnected"))
      \/ Become(waitfor(send(s, p), t, ack)) \/ Become(Return(d, t, "interrupted"))
      \/ Become(giveUp(s, t, "error", TRUE, TRUE))
  <2> DEFINE m == [Now EXCEPT !.locks[op] = t, !.client.msgID = id,
                              !.thr[t].at = [@ EXCEPT !.asked = Packet(ack, id, client.conn),
                                                      !.clean = ~faults.given]]
             e == [m EXCEPT !.net.pend = <<p>>]
  <2>1. \/ Become(Return(Now, t, "disconnected"))
        \/ Become(waitfor(send(m, p), t, ack)) \/ Become(Return(e, t, "interrupted"))
        \/ Become(giveUp(m, t, "error", TRUE, TRUE))
    BY ZenonT(30) DEF ask, Writes
  <2>2. m = s
    BY DEF LocksPut, ClientPut, AtPut
  <2>3. e = NetPut(m, [m.net EXCEPT !.pend = <<p>>])
    BY DEF NetPut
  <2> HIDE DEF m, e, s
  <2>4. e = d
    BY <2>2, <2>3
  <2> QED
    BY <2>1, <2>2, <2>4
<1>3. /\ Acting(s0, t, got) /\ s0.locks.connect = locks.connect /\ s0.client = client
  <2>1. op \in LockFields /\ op # "connect" /\ Now.locks[op] = "none"
    BY <1>1, NowIs DEF LockFields
  <2> QED
    BY <1>1, <2>1, TakesLock, NowIs
<1> HIDE DEF s0
<1>4. Acting(s1, t, got) /\ s1.locks = s0.locks /\ s1.client.connected = client.connected
  <2> DEFINE c == [s0.client EXCEPT !.msgID = id]
  <2>1. Shape(s0) /\ Fields(s0.client, ClientFields)
    BY <1>3 DEF Acting, Core, Shape
  <2>2. Fields(c, ClientFields) /\ c.outbound = s0.client.outbound /\ c.connected = s0.client.connected
    BY <2>1 DEF Fields, ClientFields
  <2> HIDE DEF c
  <2>3. Same(s0, ClientPut(s0, c))
    BY <2>1, <2>2, ClientSame
  <2>4. Same(s0, s1)
    BY <2>3 DEF c
  <2> HIDE DEF s1
  <2> QED
    BY <1>3, <2>4, SameKeeps DEF Same
<1> HIDE DEF s1
<1>5. Fields(x, AtFields)
  <2>1. Fields(s1.thr[t].at, AtFields)
    BY <1>4 DEF Acting, Core, Shape, ThreadShape
  <2> QED
    BY <2>1 DEF Fields, AtFields
<1> HIDE DEF x
<1>6. Acting(s, t, got) /\ s.locks.connect = locks.connect /\ s.client.connected = client.connected
  <2>1. Acting(s, t, got) /\ AtIs(s1, s, t, x)
    BY <1>4, <1>5, ActingAt, Zenon
  <2> HIDE DEF s
  <2> QED
    BY <1>3, <1>4, <2>1, Zenon DEF AtIs
<1> HIDE DEF s
<1>7. NotYet(s)
  BY <1>1, <1>6, NowIs DEF NotYet
<1>8. p.type \in Requests \ {"PUBLISH"}
  BY DEF Packet, Requests
<1> HIDE DEF p
<1>9. Sound(waitfor(send(s, p), t, ack), got)
  <2>1. Acting(send(s, p), t, got) /\ NotYet(send(s, p))
    BY <1>6, <1>7, <1>8, Sends DEF NotYet
  <2>2. ack \notin Connecting
    BY DEF Connecting
  <2> QED
    BY <2>1, <2>2, Waits
<1>10. Sound(Return(d, t, "interrupted"), got)
  <2>1. Flight(s.client.outbound, s.client.connected, s.net.up, s.net.dn, <<p>>, got)
    BY <1>6, <1>8, OtherWritten DEF Acting, Core
  <2>2. Acting(d, t, got) /\ d.locks = s.locks /\ d.client = s.client
    BY <1>6, <2>1, PendingPut
  <2> HIDE DEF d
  <2> QED
    BY <1>7, <2>2, Returns DEF Acting, NotYet
<1>11. Sound(giveUp(s, t, "error", TRUE, TRUE), got)
  <2>1. ASSUME NEW call, NEW stops PROVE Sound(giveUp(s, t, "error", call, stops), got)
    BY <1>6, GivesUp
  <2> QED
    BY <2>1, Zenon
<1>12. Sound(Return(Now, t, "disconnected"), got)
  BY <1>1, Returns DEF Acting, NotYet
<1> HIDE DEF d
<1> QED
  BY <1>2, <1>9, <1>10, <1>11, <1>12, Becomes

\* MQTTClient_publish5 gives the message an id and keeps it until it is acknowledged.
LEMMA PublishStarts ==
    ASSUME ~scene.cleansession, NEW got, NEW t \in Threads, Acting(Now, t, got), NotYet(Now),
           client.connected, ~Full, startPublish(t)
    PROVE  Sound(Now', got)
<1> DEFINE id  == assignMsgId(client)
           msg == client.pubs + 1
           p   == Publish(id, client.conn, msg)
           k   == [id |-> id, msg |-> msg]
           c   == [Now.client EXCEPT !.msgID = id, !.pubs = msg, !.outbound = Append(client.outbound, k)]
           s1  == ClientPut(Now, c)
           y   == [s1.thr[t] EXCEPT !.token = k]
           s   == ThreadPut(s1, t, y)
           d   == NetPut(s, [s.net EXCEPT !.pend = <<p>>])
           e   == AtPut(d, t, [d.thr[t].at EXCEPT !.pc = "writing"])
<1>1. \/ Become(Return(send(s, p), t, "ok")) \/ Become(e) \/ Become(giveUp(s, t, "ok", TRUE, TRUE))
  BY DEF startPublish, Writes, ClientPut, ThreadPut, NetPut, AtPut
<1>2. /\ Shape(Now) /\ Fields(client, ClientFields) /\ Core(Now, got)
      /\ Flight(client.outbound, client.connected, net.up, net.dn, net.pend, got)
  BY NowIs DEF Acting, Core, Shape
<1>3. Flight(client.outbound, TRUE, net.up, net.dn, net.pend, got) /\ IsSeq(client.outbound)
  BY <1>2 DEF Flight
<1>4. \A m \in Range(client.outbound) : m.id # id
  <2>1. client.outbound \in Seq(Range(client.outbound))
    BY <1>3 DEF IsSeq
  <2>2. Len(client.outbound) \in Nat
    BY <2>1
  <2>3. Len(client.outbound) < MAX_MSG_ID
    BY <2>2, SyncAssumption DEF Full
  <2> QED
    BY <1>3, <2>3, FreeId
<1>5. k.id = id /\ k.msg = msg /\ p.type = "PUBLISH" /\ p.id = id /\ p.msg = msg
  BY DEF Publish, Packet
<1> HIDE DEF id, msg, p, k
<1>6. /\ Flight(Append(client.outbound, k), TRUE, net.up, net.dn, net.pend, got)
      /\ Range(Append(client.outbound, k)) = Range(client.outbound) \cup {k}
      /\ p.id \notin Ids(net.up, "PUBLISH") \cup Ids(net.pend, "PUBLISH") \cup Ids(net.dn, "PUBACK")
  <2>1. \A m \in Range(client.outbound) : m.id # k.id
    BY <1>4, <1>5
  <2>2. /\ Flight(Append(client.outbound, k), TRUE, net.up, net.dn, net.pend, got)
        /\ Range(Append(client.outbound, k)) = Range(client.outbound) \cup {k}
        /\ k.id \notin Ids(net.up, "PUBLISH") \cup Ids(net.pend, "PUBLISH") \cup Ids(net.dn, "PUBACK")
    BY <1>3, <2>1, MessageAdded
  <2> QED
    BY <1>5, <2>2
<1>7. Fields(c, ClientFields) /\ c.outbound = Append(client.outbound, k) /\ c.connected = client.connected
  BY <1>2, NowIs, ZenonT(30) DEF Fields, ClientFields
<1> HIDE DEF c
<1>8. Shape(s1) /\ s1.client = c /\ s1.net = net /\ s1.thr = thr /\ s1.locks = locks
  <2>1. ClientIs(Now, s1, c)
    BY <1>2, <1>7, ClientPutKeeps, Zenon
  <2> HIDE DEF s1
  <2> QED
    BY <1>2, <1>7, NowIs, <2>1, Zenon DEF ClientIs
<1> HIDE DEF s1
<1>9. ThreadShape(y) /\ y.token = k /\ y.prog = thr[t].prog
  <2>1. ThreadShape(thr[t])
    BY <1>2, NowIs DEF Shape
  <2>2. Fields(y, ThreadFields) /\ y.token = k /\ y.prog = thr[t].prog /\ y.at = thr[t].at
    BY <1>8, <2>1 DEF ThreadShape, Fields, ThreadFields
  <2> QED
    BY <2>1, <2>2 DEF ThreadShape
<1> HIDE DEF y
<1>10. /\ Shape(s) /\ s.thr[t] = y /\ \A u \in Threads \ {t} : s.thr[u] = thr[u]
       /\ s.client = c /\ s.net = net /\ s.locks = locks
  <2>1. ThreadIs(s1, s, t, y)
    BY <1>8, <1>9, ThreadPutKeeps, Zenon
  <2> HIDE DEF s
  <2> QED
    BY <1>8, <1>9, <2>1, Zenon DEF ThreadIs
<1> HIDE DEF s
<1>11. Flight(s.client.outbound, s.client.connected, s.net.up, s.net.dn, s.net.pend, got)
  BY <1>6, <1>7, <1>10 DEF Flight
<1>12. ASSUME NEW u \in Threads PROVE TokenKept(s.thr[u].token, s.client.outbound, got)
  <2>1. TokenKept(thr[u].token, client.outbound, got)
    BY <1>2, NowIs DEF Core
  <2> QED
    BY <1>6, <1>7, <1>9, <1>10, <2>1, ZenonT(30) DEF TokenKept
<1>13. Core(s, got)
  BY <1>10, <1>11, <1>12 DEF Core
<1>14. Acting(s, t, got) /\ NotYet(s)
  BY <1>7, <1>9, <1>10, <1>13, NowIs DEF Acting, NotYet
<1>15. /\ Flight(c.outbound, TRUE, Append(net.up, p), net.dn, net.pend, got)
       /\ Flight(c.outbound, TRUE, net.up, net.dn, <<p>>, got)
  <2>1. \E m \in Range(c.outbound) : m.id = p.id /\ m.msg = p.msg
    BY <1>5, <1>6, <1>7
  <2> QED
    BY <1>5, <1>6, <1>7, <2>1, MessageWritten, ZenonT(30)
<1>16. Sound(Return(send(s, p), t, "ok"), got)
  <2> DEFINE n == [s.net EXCEPT !.up = Append(@, p)]
             g == NetPut(s, n)
  <2>1. Fields(s.net, NetFields)
    BY <1>10 DEF Shape
  <2>2. Fields(n, NetFields) /\ n.up = Append(net.up, p) /\ n.dn = net.dn /\ n.pend = net.pend
    BY <1>10, <2>1 DEF Fields, NetFields
  <2>3. send(s, p) = g
    BY DEF send, NetPut
  <2> HIDE DEF n
  <2>4. Shape(g) /\ g.net = n /\ g.client = c /\ g.thr = s.thr /\ g.locks = locks
    <3>1. NetIs(s, g, n)
      BY <1>10, <2>2, NetPutKeeps, Zenon
    <3> HIDE DEF g
    <3> QED
      BY <1>10, <2>2, <3>1, Zenon DEF NetIs
  <2> HIDE DEF g
  <2>5. Flight(g.client.outbound, g.client.connected, g.net.up, g.net.dn, g.net.pend, got)
    BY <1>7, <1>15, <2>2, <2>4, ZenonT(30) DEF Flight
  <2>6. Core(g, got)
    BY <1>10, <1>12, <2>4, <2>5 DEF Core
  <2>7. Acting(g, t, got) /\ NotYet(g)
    BY <1>10, <1>14, <2>4, <2>6 DEF Acting, NotYet
  <2> QED
    BY <2>3, <2>7, Returns DEF Acting, NotYet
<1>17. Sound(e, got)
  <2>1. Flight(s.client.outbound, s.client.connected, s.net.up, s.net.dn, <<p>>, got)
    BY <1>7, <1>10, <1>15 DEF Flight
  <2>2. Acting(d, t, got) /\ d.locks = s.locks /\ d.client = s.client
    BY <1>14, <2>1, PendingPut
  <2> HIDE DEF d
  <2> DEFINE x == [d.thr[t].at EXCEPT !.pc = "writing"]
  <2>3. Fields(d.thr[t].at, AtFields)
    BY <2>2 DEF Acting, Core, Shape, ThreadShape
  <2>4. Fields(x, AtFields) /\ x.pc = "writing"
    BY <2>3 DEF Fields, AtFields
  <2>5. NotYet(d)
    BY <1>14, <2>2 DEF NotYet
  <2> HIDE DEF x
  <2>6. Sound(AtPut(d, t, x), got)
    BY <2>2, <2>4, <2>5, StaysInCall
  <2> QED
    BY <2>6 DEF x
<1>18. Sound(giveUp(s, t, "ok", TRUE, TRUE), got)
  <2>1. ASSUME NEW call, NEW stops PROVE Sound(giveUp(s, t, "ok", call, stops), got)
    BY <1>14, GivesUp
  <2> QED
    BY <2>1, Zenon
<1> HIDE DEF e
<1> QED
  BY <1>1, <1>16, <1>17, <1>18, Becomes, ZenonT(30)

\* A thread returns from a call other than a wait.
LEMMA ReturnsFrom ==
    ASSUME NEW s, NEW got, NEW t \in Threads, Acting(s, t, got), NotYet(s), NEW rc
    PROVE  Sound(Return(s, t, rc), got)
BY Returns DEF Acting, NotYet

\* A thread that has called goes on to wait in a loop of its own.
LEMMA GoesOn ==
    ASSUME NEW s, NEW got, NEW t \in Threads, Acting(s, t, got), NotYet(s),
           NEW pc \in {"blocked", "draining", "receiving", "received"}
    PROVE  Sound(AtPut(s, t, [s.thr[t].at EXCEPT !.pc = pc]), got)
<1> DEFINE x == [s.thr[t].at EXCEPT !.pc = pc]
<1>1. Fields(s.thr[t].at, AtFields)
  BY DEF Acting, Core, Shape, ThreadShape
<1>2. Fields(x, AtFields) /\ x.pc = pc
  BY <1>1 DEF Fields, AtFields
<1> HIDE DEF x
<1>3. Sound(AtPut(s, t, x), got)
  BY <1>2, StaysInCall
<1> QED
  BY <1>3 DEF x

\* MQTTClient_publish5: it fails, blocks on the full queue, or writes.
LEMMA PublishStep ==
    ASSUME ~scene.cleansession, NEW got, NEW t \in Threads, Sound(Now, got), publish(t)
    PROVE  Sound(Now', got)
<1> DEFINE y == [thr[t] EXCEPT !.token = NoToken]
           s == ThreadPut(Now, t, y)
           d == AtPut(s, t, [s.thr[t].at EXCEPT !.pc = "blocked"])
<1>1. Acting(Now, t, got) /\ NotYet(Now)
  BY Calling DEF publish
<1>2. CASE Become(Return(Now, t, "disconnected"))
  BY <1>1, <1>2, ReturnsFrom, Becomes
<1>3. CASE client.connected /\ ~Full /\ startPublish(t)
  BY <1>1, <1>3, PublishStarts
<1>4. CASE Become(d)
  <2>1. Shape(Now) /\ Core(Now, got) /\ ThreadShape(thr[t])
    BY <1>1, NowIs DEF Acting, Core, Shape
  <2>2. Fields(y, ThreadFields) /\ y.token = NoToken /\ y.prog = thr[t].prog /\ y.at = thr[t].at
    BY <2>1 DEF ThreadShape, Fields, ThreadFields
  <2>3. ThreadShape(y)
    BY <2>1, <2>2 DEF ThreadShape
  <2> HIDE DEF y
  <2>4. /\ Shape(s) /\ s.thr[t] = y /\ \A u \in Threads \ {t} : s.thr[u] = Now.thr[u]
        /\ s.client = Now.client /\ s.net = Now.net /\ s.locks = Now.locks
    <3>1. ThreadIs(Now, s, t, y)
      BY <2>1, <2>3, ThreadPutKeeps, Zenon
    <3> HIDE DEF s
    <3> QED
      BY <2>1, <2>3, <3>1, Zenon DEF ThreadIs
  <2> HIDE DEF s
  <2>5. \A u \in Threads : TokenKept(s.thr[u].token, s.client.outbound, got)
    BY <2>1, <2>2, <2>4 DEF Core, TokenKept
  <2>6. Core(s, got)
    BY <2>1, <2>4, <2>5 DEF Core
  <2>7. Acting(s, t, got) /\ NotYet(s)
    BY <1>1, <2>2, <2>4, <2>6, NowIs DEF Acting, NotYet
  <2>8. Sound(d, got)
    BY <2>7, GoesOn, ZenonT(30)
  <2> HIDE DEF d
  <2> QED
    BY <1>4, <2>8, Becomes
<1>5. \/ Become(Return(Now, t, "disconnected")) \/ (client.connected /\ ~Full /\ startPublish(t))
      \/ Become(d)
  <2> DEFINE none == [Now EXCEPT !.thr[t].token = NoToken]
  <2>1. \/ Become(Return(Now, t, "disconnected")) \/ (client.connected /\ ~Full /\ startPublish(t))
        \/ Become([none EXCEPT !.thr[t].at.pc = "blocked"])
    BY DEF publish
  <2>2. none = s
    BY NowIs DEF ThreadPut
  <2>3. [none EXCEPT !.thr[t].at.pc = "blocked"] = AtPut(none, t, [none.thr[t].at EXCEPT !.pc = "blocked"])
    BY DEF AtPut
  <2> HIDE DEF none, s
  <2> QED
    BY <2>1, <2>2, <2>3
<1> QED
  BY <1>2, <1>3, <1>4, <1>5

\* The loop of MQTTClient_publish5 on the full queue, and the one on a partial write.
LEMMA UnblockStep ==
    ASSUME ~scene.cleansession, NEW got, NEW t \in Threads, Sound(Now, got), unblock(t) \/ written(t)
    PROVE  Sound(Now', got)
<1>1. Acting(Now, t, got) /\ NotYet(Now)
  BY InCall, NowIs DEF unblock, written, Looks, Sound
<1>2. \/ Become(Return(Now, t, "failure")) \/ Become(Return(Now, t, "ok"))
      \/ (client.connected /\ ~Full /\ startPublish(t))
  BY DEF unblock, written
<1> QED
  BY <1>1, <1>2, ReturnsFrom, Becomes, PublishStarts

\* MQTTClient_waitForCompletion succeeds when the message of its token is no more
\* among the outbound ones; a kept session removes it at its PUBACK only.
LEMMA WaitForCompletionStep ==
    ASSUME NEW got, NEW t \in Threads, Sound(Now, got), waitForCompletion(t)
    PROVE  Sound(Now', got)
<1> DEFINE x == [thr[t].at EXCEPT !.pc = "awaiting"]
           d == AtPut(Now, t, x)
<1>1. /\ Core(Now, got) /\ NotYet(Now) /\ Shape(Now)
      /\ \A u \in Threads : Fine(thr[u], locks.connect, u, got)
      /\ Fields(thr[t].at, AtFields) /\ TokenKept(thr[t].token, client.outbound, got)
  BY NowIs DEF Sound, Core, Shape, ThreadShape
<1>2. IsSeq(thr[t].prog) /\ thr[t].prog # <<>>
  <2>1. Calls(t, "wait") => thr[t].prog # <<>>
    BY DEF Calls
  <2>2. thr[t].at.pc = "awaiting" => thr[t].at # Idle
    BY DEF Idle
  <2> QED
    BY <1>1, <2>1, <2>2 DEF waitForCompletion, Looks, Fine
<1>3. ~InFlight(t) => thr[t].token.msg \in got
  <2>1. thr[t].token # NoToken
    BY DEF waitForCompletion
  <2> QED
    BY <1>1, <2>1 DEF TokenKept, InFlight, Range
<1>4. ASSUME NEW rc, rc = "ok" => thr[t].token.msg \in got
      PROVE  Sound(Return(Now, t, rc), got)
  BY <1>1, <1>2, <1>4, Returns, NowIs DEF NotYet
<1>5. Sound(d, got)
  <2>1. Fields(x, AtFields) /\ x.pc = "awaiting"
    BY <1>1 DEF Fields, AtFields
  <2>2. x # Idle
    BY <2>1 DEF Idle
  <2> HIDE DEF x
  <2>3. /\ Shape(d) /\ d.thr[t].at = x /\ d.thr[t].prog = thr[t].prog
        /\ d.thr[t].token = thr[t].token /\ \A u \in Threads \ {t} : d.thr[u] = thr[u]
        /\ d.client = client /\ d.net = net /\ d.locks = locks
    <3>1. Shape(Now) /\ Now.thr[t] = thr[t]
      BY <1>1, NowIs
    <3>2. /\ Shape(d) /\ d.thr[t].at = x /\ d.thr[t].prog = Now.thr[t].prog
          /\ d.thr[t].token = Now.thr[t].token /\ \A u \in Threads \ {t} : d.thr[u] = Now.thr[u]
          /\ d.client = Now.client /\ d.net = Now.net /\ d.locks = Now.locks
      <4>1. AtIs(Now, d, t, x)
        BY <2>1, <3>1, AtPutKeeps, Zenon
      <4> HIDE DEF d
      <4> QED
        BY <2>1, <3>1, <4>1, Zenon DEF AtIs
    <3> HIDE DEF d
    <3> QED
      BY <3>1, <3>2, NowIs
  <2> HIDE DEF d
  <2>4. Core(d, got)
    BY <1>1, <2>3, ThreadChanged, NowIs
  <2>5. \A u \in Threads : Fine(d.thr[u], d.locks.connect, u, got)
    <3> SUFFICES ASSUME NEW u \in Threads PROVE Fine(d.thr[u], d.locks.connect, u, got)
      OBVIOUS
    <3>1. CASE u = t
      BY <1>2, <2>1, <2>2, <2>3, <3>1 DEF Fine
    <3>2. CASE u # t
      BY <1>1, <2>3, <3>2
    <3> QED
      BY <3>1, <3>2
  <2> QED
    BY <1>1, <2>3, <2>4, <2>5, NowIs DEF Sound, NotYet
<1>6. \/ Become(Return(Now, t, "disconnected")) \/ (~InFlight(t) /\ Become(Return(Now, t, "ok")))
      \/ Become(d) \/ Become(Return(Now, t, "failure"))
  <2>1. [Now EXCEPT !.thr[t].at.pc = "awaiting"] = d
    BY NowIs DEF AtPut
  <2> HIDE DEF d
  <2> QED
    BY <2>1 DEF waitForCompletion
<1> HIDE DEF d
<1>7. Sound(Return(Now, t, "disconnected"), got) /\ Sound(Return(Now, t, "failure"), got)
  BY <1>4
<1>8. ~InFlight(t) => Sound(Return(Now, t, "ok"), got)
  BY <1>3, <1>4
<1> QED
  BY <1>5, <1>6, <1>7, <1>8, Becomes

\* MQTTClient_disconnect5 waits for the messages in flight, then disconnects.
LEMMA DisconnectStep ==
    ASSUME ~scene.cleansession, NEW got, NEW t \in Threads, Sound(Now, got), disconnect(t) \/ drained(t)
    PROVE  Sound(Now', got)
<1> DEFINE c == [client EXCEPT !.state = "disconnecting"]
           s == ClientPut(Now, c)
           d == AtPut(s, t, [s.thr[t].at EXCEPT !.pc = "draining"])
<1>1. Acting(Now, t, got) /\ NotYet(Now)
  <2>1. disconnect(t) => Acting(Now, t, got)
    BY Calling DEF disconnect
  <2>2. drained(t) => Acting(Now, t, got)
    BY InCall, NowIs DEF drained, Looks
  <2> QED
    BY <2>1, <2>2 DEF Sound
<1>2. Become(d) \/ Become(giveUp(Now, t, "ok", FALSE, TRUE))
  <2> DEFINE m == [Now EXCEPT !.client.state = "disconnecting", !.thr[t].at.pc = "draining"]
  <2>1. Become(m) \/ Become(giveUp(Now, t, "ok", FALSE, TRUE))
    BY ZenonT(30) DEF disconnect, drained
  <2>2. m = d
    BY NowIs DEF ClientPut, AtPut
  <2> HIDE DEF m, d
  <2> QED
    BY <2>1, <2>2
<1>3. Sound(giveUp(Now, t, "ok", FALSE, TRUE), got)
  <2>1. ASSUME NEW call, NEW stops PROVE Sound(giveUp(Now, t, "ok", call, stops), got)
    BY <1>1, GivesUp
  <2> QED
    BY <2>1, Zenon
<1>4. Sound(d, got)
  <2>1. Shape(Now) /\ Fields(client, ClientFields)
    BY <1>1, NowIs DEF Acting, Core, Shape
  <2>2. Fields(c, ClientFields) /\ c.outbound = client.outbound /\ c.connected = client.connected
    BY <2>1 DEF Fields, ClientFields
  <2> HIDE DEF c
  <2>3. Same(Now, s)
    BY <2>1, <2>2, ClientSame, NowIs
  <2> HIDE DEF s
  <2>4. Acting(s, t, got) /\ NotYet(s)
    BY <1>1, <2>3, SameKeeps
  <2> QED
    BY <2>4, GoesOn, ZenonT(30)
<1> HIDE DEF d
<1> QED
  BY <1>2, <1>3, <1>4, Becomes, ZenonT(30)

\* What the background thread and the waits change of the client besides.
LEMMA FieldChanged ==
    ASSUME NEW s, Shape(s), NEW v
    PROVE  /\ Same(s, ClientPut(s, [s.client EXCEPT !.state = v]))
           /\ Same(s, ClientPut(s, [s.client EXCEPT !.crossed = v]))
           /\ Same(s, ClientPut(s, [s.client EXCEPT !.queue = v]))
<1> DEFINE a == [s.client EXCEPT !.state = v]
           b == [s.client EXCEPT !.crossed = v]
           c == [s.client EXCEPT !.queue = v]
<1>1. Fields(s.client, ClientFields)
  BY DEF Shape
<1>2. /\ Fields(a, ClientFields) /\ a.outbound = s.client.outbound /\ a.connected = s.client.connected
      /\ Fields(b, ClientFields) /\ b.outbound = s.client.outbound /\ b.connected = s.client.connected
      /\ Fields(c, ClientFields) /\ c.outbound = s.client.outbound /\ c.connected = s.client.connected
  BY <1>1 DEF Fields, ClientFields
<1> HIDE DEF a, b, c
<1>3. Same(s, ClientPut(s, a)) /\ Same(s, ClientPut(s, b)) /\ Same(s, ClientPut(s, c))
  BY <1>2, ClientSame
<1> QED
  BY <1>3 DEF a, b, c

\* A message is delivered from the queue.
LEMMA Delivers ==
    ASSUME NEW s, NEW got, Sound(s, got)
    PROVE  /\ Sound(deliverMessage(s), got)
           /\ \A t \in Threads : Acting(s, t, got) => Acting(deliverMessage(s), t, got)
<1> DEFINE q == IF s.client.queue = <<>> THEN s.client.queue ELSE Tail(s.client.queue)
<1>1. deliverMessage(s) = ClientPut(s, [s.client EXCEPT !.queue = q])
  BY DEF deliverMessage, ClientPut
<1>2. Shape(s)
  BY DEF Sound, Core
<1> HIDE DEF q
<1>3. Same(s, deliverMessage(s))
  BY <1>1, <1>2, FieldChanged, ZenonT(30)
<1> QED
  BY <1>3, SameKeeps

\* MQTTClient_receive: it fails, or waits for a message.
LEMMA ReceiveStep ==
    ASSUME NEW got, NEW t \in Threads, Sound(Now, got), receive(t)
    PROVE  Sound(Now', got)
<1> DEFINE d == AtPut(Now, t, [Now.thr[t].at EXCEPT !.pc = "receiving"])
<1>1. Acting(Now, t, got) /\ NotYet(Now)
  BY Calling DEF receive
<1>2. Become(Return(Now, t, "failure")) \/ Become(Return(Now, t, "disconnected")) \/ Become(d)
  <2>1. [Now EXCEPT !.thr[t].at.pc = "receiving"] = d
    BY DEF AtPut
  <2> HIDE DEF d
  <2> QED
    BY <2>1 DEF receive
<1>3. Sound(d, got)
  BY <1>1, GoesOn
<1> HIDE DEF d
<1> QED
  BY <1>1, <1>2, <1>3, ReturnsFrom, Becomes

\* MQTTClient_cycle in the loop of MQTTClient_receive.
LEMMA ReceivingStep ==
    ASSUME NEW got, NEW t \in Threads, Sound(Now, got), receiving(t)
    PROVE  Sound(Now', got)
<1> DEFINE v(r) == r.s.client.crossed \/ (lib.running /\ r.pack # NoPack)
           c(r) == ClientPut(r.s, [r.s.client EXCEPT !.crossed = v(r)])
           a(r) == [c(r).thr[t].at EXCEPT !.pc = "received", !.rc = r.rc]
           b == [Now.thr[t].at EXCEPT !.pc = "received", !.late = TRUE]
<1>1. Acting(Now, t, got) /\ NotYet(Now)
  BY InCall, NowIs DEF receiving, Sound
<1>2. ASSUME NEW s, Acting(s, t, got), NotYet(s), NEW x, Fields(x, AtFields), x.pc = "received"
      PROVE  Sound(AtPut(s, t, x), got)
  BY <1>2, StaysInCall
<1>3. (\E r \in cycle(Now) : Become(AtPut(c(r), t, a(r)))) \/ Become(AtPut(Now, t, b))
  BY DEF receiving, ClientPut, AtPut
<1>4. CASE Become(AtPut(Now, t, b))
  <2>1. Fields(Now.thr[t].at, AtFields)
    BY <1>1 DEF Acting, Core, Shape, ThreadShape
  <2>2. Fields(b, AtFields) /\ b.pc = "received"
    BY <2>1 DEF Fields, AtFields
  <2> HIDE DEF b
  <2>3. Sound(AtPut(Now, t, b), got)
    BY <1>1, <1>2, <2>2
  <2> QED
    BY <1>4, <2>3, Becomes
<1>5. ASSUME NEW r \in cycle(Now), Become(AtPut(c(r), t, a(r)))
      PROVE  Sound(Now', got)
  <2>1. Sound(r.s, got) /\ Acting(r.s, t, got)
    BY <1>1, CyclesKeep
  <2>2. Shape(r.s)
    BY <2>1 DEF Sound, Core
  <2> HIDE DEF v
  <2>3. Same(r.s, c(r))
    BY <2>2, FieldChanged, ZenonT(30)
  <2> HIDE DEF c
  <2>4. Acting(c(r), t, got) /\ NotYet(c(r))
    BY <2>1, <2>3, SameKeeps DEF Sound
  <2>5. Fields(c(r).thr[t].at, AtFields)
    BY <2>4 DEF Acting, Core, Shape, ThreadShape
  <2>6. Fields(a(r), AtFields) /\ a(r).pc = "received"
    BY <2>5 DEF Fields, AtFields
  <2> HIDE DEF a
  <2>7. Sound(AtPut(c(r), t, a(r)), got)
    BY <1>2, <2>4, <2>6
  <2> QED
    BY <1>5, <2>7, Becomes
<1> QED
  BY <1>3, <1>4, <1>5

\* What follows it: the call ends, or the loop goes on.
LEMMA ReceivedStep ==
    ASSUME ~scene.cleansession, NEW got, NEW t \in Threads, Sound(Now, got), received(t)
    PROVE  Sound(Now', got)
<1> DEFINE d == AtPut(Now, t, [Now.thr[t].at EXCEPT !.pc = "receiving"])
<1>1. Acting(Now, t, got) /\ NotYet(Now)
  BY InCall, NowIs DEF received, Sound
<1>2. Sound(deliverMessage(Now), got) /\ Acting(deliverMessage(Now), t, got)
  BY <1>1, Delivers
<1>3. Sound(Return(deliverMessage(Now), t, "ok"), got)
  BY <1>2, ReturnsFrom DEF Sound
<1>4. Sound(giveUp(deliverMessage(Now), t, "error", TRUE, TRUE), got)
  <2>1. ASSUME NEW call, NEW stops PROVE Sound(giveUp(deliverMessage(Now), t, "error", call, stops), got)
    BY <1>2, GivesUp
  <2> QED
    BY <2>1, Zenon
<1>5. Sound(d, got)
  BY <1>1, GoesOn
<1>6. \/ Become(giveUp(deliverMessage(Now), t, "error", TRUE, TRUE))
      \/ Become(Return(deliverMessage(Now), t, "ok")) \/ Become(d)
  <2>1. [Now EXCEPT !.thr[t].at.pc = "receiving"] = d
    BY DEF AtPut
  <2> HIDE DEF d
  <2> QED
    BY <2>1 DEF received
<1> HIDE DEF d
<1> QED
  BY <1>3, <1>4, <1>5, <1>6, Becomes

\* MQTTClient_cycle in MQTTClient_yield, in the loops of the calls.
LEMMA YieldStep ==
    ASSUME NEW got, NEW t \in Threads, Sound(Now, got), yield(t)
    PROVE  Sound(Now', got)
<1> DEFINE a(r) == [r.s.thr[t].at EXCEPT !.rc = r.rc]
<1>1. PICK r \in cycle(Now) : Become(AtPut(r.s, t, a(r)))
  BY DEF yield, AtPut
<1>2. Sound(r.s, got) /\ r.s.thr = thr
  BY <1>1, CyclesKeep, NowIs DEF Sound
<1>3. thr[t].at.pc \in Loops
  BY DEF yield
<1>4. Fields(r.s.thr[t].at, AtFields)
  BY <1>2 DEF Sound, Core, Shape, ThreadShape
<1>5. Fields(a(r), AtFields) /\ a(r).pc = r.s.thr[t].at.pc
  BY <1>4 DEF Fields, AtFields
<1> HIDE DEF a
<1>6. Sound(AtPut(r.s, t, a(r)), got)
  BY <1>2, <1>3, <1>5, LoopGoesOn, ZenonT(30)
<1> QED
  BY <1>1, <1>6, Becomes

\* After an error MQTTClient_yield disconnects, whichever connection it is by then.
LEMMA YieldErrorStep ==
    ASSUME ~scene.cleansession, NEW got, NEW t \in Threads, Sound(Now, got), yieldError(t)
    PROVE  Sound(Now', got)
<1> DEFINE x == thr[t].at
           v == [Now.thr[t].at EXCEPT !.rc = "ok"]
           s == AtPut(Now, t, v)
           d == disconnect1(s, t, TRUE, TRUE)
           w == [d.thr[t].at EXCEPT !.pc = x.pc, !.rc = "stopping"]
           e == AtPut(d, t, w)
<1>1. x.pc \in Loops /\ (Become(s) \/ Become(IF d.thr[t].at.pc # "stopping" THEN d ELSE e))
  <2> DEFINE m == [Now EXCEPT !.thr[t].at.rc = "ok"]
             n == disconnect1(m, t, TRUE, TRUE)
  <2>1. /\ x.pc \in Loops
        /\ \/ Become(m)
           \/ Become(IF n.thr[t].at.pc # "stopping" THEN n
                     ELSE [n EXCEPT !.thr[t].at = [@ EXCEPT !.pc = x.pc, !.rc = "stopping"]])
    BY ZenonT(30) DEF yieldError
  <2>2. m = s
    BY DEF AtPut
  <2>3. [n EXCEPT !.thr[t].at = [@ EXCEPT !.pc = x.pc, !.rc = "stopping"]]
           = AtPut(n, t, [n.thr[t].at EXCEPT !.pc = x.pc, !.rc = "stopping"])
    <3> HIDE DEF n
    <3> QED
      BY DEF AtPut
  <2> HIDE DEF m, s
  <2> QED
    BY <2>1, <2>2, <2>3, ZenonT(30)
<1>2. Shape(Now) /\ Core(Now, got) /\ Now.thr[t].at = x /\ Fields(Now.thr[t].at, AtFields)
  BY NowIs DEF Sound, Core, Shape, ThreadShape
<1>3. Fields(v, AtFields) /\ v.pc = Now.thr[t].at.pc /\ v.pc = x.pc
  BY <1>2 DEF Fields, AtFields
<1> HIDE DEF v
<1>4. Sound(s, got)
  BY <1>1, <1>2, <1>3, LoopGoesOn, ZenonT(30)
<1>5. s.thr[t].at = v
  <2>1. AtIs(Now, s, t, v)
    BY <1>2, <1>3, AtPutKeeps, Zenon
  <2> QED
    BY <2>1, Zenon DEF AtIs
<1> HIDE DEF s
<1>6. Abandons(s, d, t, got)
  <2>1. ASSUME NEW call, NEW stops PROVE Abandons(s, disconnect1(s, t, call, stops), t, got)
    BY <1>4, Disconnects
  <2> QED
    BY <2>1, Zenon
<1> HIDE DEF d
<1>7. CASE Sound(d, got) /\ d.thr[t].at = s.thr[t].at
  <2>1. d.thr[t].at.pc # "stopping"
    BY <1>1, <1>3, <1>5, <1>7 DEF Loops
  <2> QED
    BY <1>1, <1>4, <1>7, <2>1, Becomes
<1>8. CASE \E p, y : /\ d = AtPut(p, t, y) /\ Sound(p, got) /\ p.thr[t] = s.thr[t]
                     /\ Fields(y, AtFields) /\ y.pc = "stopping"
  <2>1. PICK p, y : /\ d = AtPut(p, t, y) /\ Sound(p, got) /\ p.thr[t] = s.thr[t]
                    /\ Fields(y, AtFields) /\ y.pc = "stopping"
    BY <1>8
  <2>2. Shape(p)
    BY <2>1 DEF Sound, Core
  <2>3. AtIs(p, d, t, y)
    BY <2>1, <2>2, AtPutKeeps, Zenon
  <2>4. d.thr[t].at = y
    BY <2>3, Zenon DEF AtIs
  <2>5. Fields(w, AtFields) /\ w.pc = x.pc
    BY <2>1, <2>4 DEF Fields, AtFields
  <2>6. e = AtPut(p, t, w)
    <3> HIDE DEF w
    <3> QED
      BY <2>1 DEF AtPut
  <2> HIDE DEF w, e
  <2>7. Sound(AtPut(p, t, w), got)
    <3>1. p.thr[t].at.pc \in Loops /\ w.pc = p.thr[t].at.pc
      BY <1>1, <1>3, <1>5, <2>1, <2>5, Zenon
    <3> QED
      BY <2>1, <2>5, <3>1, LoopGoesOn, ZenonT(30)
  <2>8. d.thr[t].at.pc = "stopping"
    BY <2>1, <2>4
  <2> QED
    BY <1>1, <1>4, <2>6, <2>7, <2>8, Becomes
<1> QED
  BY <1>6, <1>7, <1>8, Zenon DEF Abandons

-----------------------------------------------------------------------------
(* The background thread. *)

\* Thread_post_sem.
LEMMA Posts ==
    ASSUME NEW s, NEW got, Sound(s, got), NEW sem
    PROVE  Sound(post(s, sem), got)
<1> DEFINE awaited == \E t \in Threads : s.thr[t].at.pc \in {"enter", "wait", "turn"} /\ semOf(s.thr[t].at.await) = sem
           d == HandlePut(s, [s.handle EXCEPT !.sem[sem] = 1])
           v == s.client.crossed \/ ~awaited
<1>1. Shape(s)
  BY DEF Sound, Core
<1>2. Same(s, d) /\ d.client = s.client
  BY <1>1, OtherPutKeeps
<1>3. post(s, sem) = ClientPut(d, [s.client EXCEPT !.crossed = v])
  BY DEF post, HandlePut, ClientPut
<1> HIDE DEF d, v
<1>4. Sound(d, got)
  BY <1>2, SameKeeps
<1>5. Same(d, post(s, sem))
  BY <1>2, <1>3, <1>4, FieldChanged DEF Sound, Core
<1> QED
  BY <1>4, <1>5, SameKeeps

\* The loop goes on, or the thread ends.
LEMMA Turns ==
    ASSUME NEW s, NEW got, Sound(s, got)
    PROVE  Sound(turn(s), got)
<1> DEFINE v == [running |-> FALSE, tostop |-> FALSE]
<1>1. turn(s) = RunPut(LibPut(s, v), Off) \/ turn(s) = RunPut(s, [Off EXCEPT !.pc = "cycle"])
  BY DEF turn, RunPut, LibPut
<1>2. Shape(s)
  BY DEF Sound, Core
<1> HIDE DEF v
<1>3. Sound(LibPut(s, v), got) /\ Sound(RunPut(s, [Off EXCEPT !.pc = "cycle"]), got)
  BY <1>2, OtherPutKeeps, SameKeeps
<1>4. Shape(LibPut(s, v))
  BY <1>3 DEF Sound, Core
<1>5. Sound(RunPut(LibPut(s, v), Off), got)
  BY <1>3, <1>4, OtherPutKeeps, SameKeeps
<1> QED
  BY <1>1, <1>3, <1>5

\* The thread hands over a packet, or the end of a connect.
LEMMA HandsOver ==
    ASSUME NEW s, NEW got, Sound(s, got)
    PROVE  Sound(handOver(s), got)
<1> DEFINE p == HandlePut(s, [s.handle EXCEPT !.pack = s.run.pack])
           h == HandlePut(s, [s.handle EXCEPT !.rc = IF net.tcp = "failed" THEN "error" ELSE "ok"])
           k == ClientPut(h, [h.client EXCEPT !.state = "none"])
           w == ClientPut(s, [s.client EXCEPT !.state = "connack"])
<1>1. Shape(s)
  BY DEF Sound, Core
<1>2. \/ handOver(s) = s \/ (\E sem \in {"connack", "suback", "unsuback"} : handOver(s) = post(p, sem))
      \/ handOver(s) = post(k, "connect") \/ handOver(s) = post(w, "connect")
  <2> DEFINE pm == [s EXCEPT !.handle.pack = s.run.pack]
             km == [s EXCEPT !.handle.rc = IF net.tcp = "failed" THEN "error" ELSE "ok",
                             !.client.state = "none"]
             wm == [s EXCEPT !.client.state = "connack"]
  <2>1. pm = p /\ km = k /\ wm = w
    BY DEF HandlePut, ClientPut
  <2>2. \/ handOver(s) = s \/ (\E sem \in {"connack", "suback", "unsuback"} : handOver(s) = post(pm, sem))
        \/ handOver(s) = post(km, "connect") \/ handOver(s) = post(wm, "connect")
    BY DEF handOver
  <2> HIDE DEF pm, km, wm, p, k, w
  <2> QED
    BY <2>1, <2>2
<1>3. Sound(p, got) /\ Sound(h, got)
  BY <1>1, OtherPutKeeps, SameKeeps
<1> HIDE DEF h
<1>4. Sound(k, got)
  <2>1. Shape(h)
    BY <1>3 DEF Sound, Core
  <2> QED
    BY <1>3, <2>1, FieldChanged, SameKeeps
<1>5. Sound(w, got)
  BY <1>1, FieldChanged, SameKeeps
<1> HIDE DEF p, k, w
<1> QED
  BY <1>2, <1>3, <1>4, <1>5, Posts

\* An error of the socket closes the session, or ends the wait for the CONNACK.
LEMMA HandlesError ==
    ASSUME ~scene.cleansession, NEW s, NEW got, Sound(s, got)
    PROVE  Sound(handleError(s), got)
<1> DEFINE k == ClientPut(s, [s.client EXCEPT !.state = "none"])
<1>1. handleError(s) = s \/ handleError(s) = disconnect1(s, Run, TRUE, TRUE) \/ handleError(s) = post(k, "connack")
  <2>1. k = [s EXCEPT !.client.state = "none"]
    BY DEF ClientPut
  <2> HIDE DEF k
  <2> QED
    BY <2>1 DEF handleError
<1>2. Shape(s)
  BY DEF Sound, Core
<1>3. Sound(k, got)
  BY <1>2, FieldChanged, SameKeeps, ZenonT(30)
<1> HIDE DEF k
<1>4. Sound(disconnect1(s, Run, TRUE, TRUE), got)
  <2>1. ASSUME NEW call, NEW stops PROVE Sound(disconnect1(s, Run, call, stops), got)
    BY Disconnects
  <2> QED
    BY <2>1, Zenon
<1> QED
  BY <1>1, <1>3, <1>4, Posts

\* The steps of MQTTClient_run.
LEMMA RunSteps ==
    ASSUME ~scene.cleansession, NEW got, Sound(Now, got), RunStep
    PROVE  Sound(Now', got)
<1>1. Shape(Now)
  BY DEF Sound, Core
<1> DEFINE s == ClientPut(Now, [Now.client EXCEPT !.crossed = client.crossed \/ run.conn # client.conn])
           c == RunPut(s, [s.run EXCEPT !.pc = "callback"])
<1>2. s = [Now EXCEPT !.client.crossed = @ \/ run.conn # client.conn]
  BY NowIs DEF ClientPut
<1>3. Sound(s, got) /\ Shape(s)
  <2>1. ASSUME NEW v PROVE Same(Now, ClientPut(Now, [Now.client EXCEPT !.crossed = v]))
    BY <1>1, FieldChanged, ZenonT(30)
  <2>2. Same(Now, s)
    BY <2>1
  <2> HIDE DEF s
  <2> QED
    BY <2>2, SameKeeps DEF Sound, Core
<1> HIDE DEF s
<1>4. CASE runCycle
  <2>1. PICK r \in cycle(Now) : \E v : Become(RunPut(r.s, v))
    BY <1>4, ZenonT(30) DEF runCycle, RunPut
  <2>2. PICK v : Become(RunPut(r.s, v))
    BY <2>1
  <2>3. Sound(r.s, got)
    BY <2>1, CyclesKeep
  <2>4. Sound(RunPut(r.s, v), got)
    BY <2>3, OtherPutKeeps, SameKeeps DEF Sound, Core
  <2> QED
    BY <2>2, <2>4, Becomes
<1>5. CASE keepalive
  <2> DEFINE d == disconnect1(Now, Run, TRUE, TRUE)
             e == RunPut(d, [d.run EXCEPT !.pc = "handle"])
  <2>1. Become(e)
    BY <1>5 DEF keepalive, RunPut
  <2>2. Sound(d, got)
    <3>1. ASSUME NEW call, NEW stops PROVE Sound(disconnect1(Now, Run, call, stops), got)
      BY Disconnects
    <3> QED
      BY <3>1, Zenon
  <2> HIDE DEF d
  <2>3. Shape(d)
    BY <2>2 DEF Sound, Core
  <2>4. Sound(e, got)
    BY <2>2, <2>3, OtherPutKeeps, SameKeeps
  <2> HIDE DEF e
  <2> QED
    BY <2>1, <2>4, Becomes
<1>6. CASE runHandle
  <2>1. \/ Become(turn(Now)) \/ Become(turn(handleError(s))) \/ Become(c) \/ Become(turn(handOver(s)))
    <3>1. [s EXCEPT !.run.pc = "callback"] = c
      BY DEF RunPut
    <3> HIDE DEF c
    <3> QED
      BY <1>2, <1>6, <3>1 DEF runHandle
  <2>2. Sound(c, got)
    BY <1>3, OtherPutKeeps, SameKeeps
  <2> HIDE DEF c
  <2>3. Sound(turn(Now), got) /\ Sound(turn(handleError(s)), got) /\ Sound(turn(handOver(s)), got)
    BY <1>3, Turns, HandlesError, HandsOver
  <2> QED
    BY <2>1, <2>2, <2>3, Becomes
<1>7. CASE messageArrived
  <2>1. Become(turn(handOver(deliverMessage(s)))) \/ Become(turn(handOver(s)))
    BY <1>2, <1>7 DEF messageArrived
  <2>2. Sound(turn(handOver(deliverMessage(s))), got) /\ Sound(turn(handOver(s)), got)
    BY <1>3, Delivers, Turns, HandsOver
  <2> QED
    BY <2>1, <2>2, Becomes
<1>8. CASE runStop
  <2>1. Become(turn(Now))
    BY <1>8 DEF runStop
  <2> QED
    BY <2>1, Turns, Becomes
<1> QED
  BY <1>4, <1>5, <1>6, <1>7, <1>8 DEF RunStep

-----------------------------------------------------------------------------
(* The network and the broker. *)

\* The broker has more messages, the network other packets.
LEMMA NetStep ==
    ASSUME NEW got, NEW got2, got \subseteq got2, Sound(Now, got),
           UNCHANGED <<client, handle, lib, run, thr, locks>>, Fields(net', NetFields),
           Flight(client.outbound, client.connected, net'.up, net'.dn, net'.pend, got2)
    PROVE  Sound(Now', got2)
<1> DEFINE d == NetPut(Now, net')
<1>1. /\ Shape(Now) /\ Core(Now, got) /\ NotYet(Now)
      /\ \A u \in Threads : Fine(thr[u], locks.connect, u, got)
  BY NowIs DEF Sound, Core
<1>2. Shape(d) /\ d.net = net' /\ d.client = client /\ d.thr = thr /\ d.locks = locks
      /\ d.lib = lib /\ d.run = run /\ d.handle = handle
  <2>1. NetIs(Now, d, net')
    BY <1>1, NetPutKeeps, Zenon
  <2> HIDE DEF d
  <2> QED
    BY <1>1, NowIs, <2>1, Zenon DEF NetIs
<1> HIDE DEF d
<1>3. Become(d)
  BY <1>2 DEF Become
<1>4. \A u \in Threads : TokenKept(thr[u].token, client.outbound, got2) /\ Fine(thr[u], locks.connect, u, got2)
  BY <1>1, NowIs DEF Core, TokenKept, Fine
<1>5. Sound(d, got2)
  BY <1>1, <1>2, <1>4, NowIs DEF Sound, Core, NotYet
<1> QED
  BY <1>3, <1>5, Becomes

\* Partial writes go on, the TCP connection is made, and the connection is lost.
LEMMA NetworkSteps ==
    ASSUME NEW got, Sound(Now, got), continueWrite \/ tcpDone \/ lose
    PROVE  Sound(Now', got)
<1>1. /\ Fields(net, NetFields)
      /\ Flight(client.outbound, client.connected, net.up, net.dn, net.pend, got)
  BY NowIs DEF Sound, Core, Shape
<1>2. CASE continueWrite
  <2>1. net' = [net EXCEPT !.pend = <<>>, !.up = net.up \o net.pend] \/ net' = [net EXCEPT !.pend = <<>>, !.up = net.up]
    BY <1>2 DEF continueWrite
  <2>2. /\ Fields(net', NetFields) /\ net'.pend = <<>> /\ net'.dn = net.dn
        /\ net'.up \in {net.up, net.up \o net.pend}
    BY <1>1, <2>1, ZenonT(30) DEF Fields, NetFields
  <2>3. Flight(client.outbound, client.connected, net'.up, net'.dn, net'.pend, got)
    BY <1>1, <2>2, WriteContinued
  <2> QED
    BY <1>2, <2>2, <2>3, NetStep DEF continueWrite
<1>3. CASE tcpDone
  <2>1. net' = [net EXCEPT !.tcp = "up"] \/ net' = [net EXCEPT !.tcp = "failed", !.alive = FALSE]
    BY <1>3 DEF tcpDone
  <2>2. Fields(net', NetFields) /\ net'.up = net.up /\ net'.dn = net.dn /\ net'.pend = net.pend
    BY <1>1, <2>1 DEF Fields, NetFields
  <2> QED
    BY <1>1, <1>3, <2>2, NetStep DEF tcpDone, Others
<1>4. CASE lose
  <2>1. PICK dn \in {<<>>, net.dn} : net' = [net EXCEPT !.alive = FALSE, !.up = <<>>, !.dn = dn]
    BY <1>4 DEF lose
  <2>2. Fields(net', NetFields) /\ net'.up = <<>> /\ net'.dn = dn /\ net'.pend = net.pend
    BY <1>1, <2>1, ZenonT(30) DEF Fields, NetFields
  <2>3. Flight(client.outbound, client.connected, net'.up, net'.dn, net'.pend, got)
    BY <1>1, <2>1, <2>2, PacketsLost
  <2> QED
    BY <1>4, <2>2, <2>3, NetStep DEF lose, Others
<1> QED
  BY <1>2, <1>3, <1>4

\* The broker answers a packet, and has the message of a PUBLISH.
LEMMA AnswerStep ==
    ASSUME broker = [accepted |-> broker.accepted, got |-> broker.got,
                     left |-> broker.left],
           Sound(Now, broker.got), answer
    PROVE  Sound(Now', broker'.got)
<1> DEFINE p == Head(net.up)
           a == Packet(Reply(p.type), p.id, p.conn)
<1>1. PICK ok \in BOOLEAN : net' = [net EXCEPT !.up = Tail(@), !.dn = Append(@, [a EXCEPT !.ok = ok])]
  BY DEF answer
<1> DEFINE b == [a EXCEPT !.ok = ok]
<1>2. /\ Fields(net, NetFields)
      /\ Flight(client.outbound, client.connected, net.up, net.dn, net.pend, broker.got)
  BY NowIs DEF Sound, Core, Shape
<1>3. b.id = p.id /\ b.type = Reply(p.type)
  BY DEF Packet
<1>4. broker'.got = IF p.type = "PUBLISH" THEN broker.got \cup {p.msg} ELSE broker.got
  BY DEF answer
<1> HIDE DEF b
<1>5. Fields(net', NetFields) /\ net'.up = Tail(net.up) /\ net'.dn = Append(net.dn, b) /\ net'.pend = net.pend
  <2>1. net' = [net EXCEPT !.up = Tail(net.up), !.dn = Append(net.dn, b)]
    BY <1>1 DEF b
  <2> QED
    BY <1>2, <2>1, ZenonT(30) DEF Fields, NetFields
<1>6. broker.got \subseteq broker'.got /\ (p.type = "PUBLISH" => p.msg \in broker'.got) /\ net.up # <<>>
  BY <1>4 DEF answer
<1>7. Flight(client.outbound, client.connected, net'.up, net'.dn, net'.pend, broker'.got)
  BY <1>2, <1>3, <1>5, <1>6, PacketAnswered
<1> QED
  BY <1>5, <1>6, <1>7, NetStep DEF answer, Others

\* The broker publishes.
LEMMA BrokerPublishStep ==
    ASSUME broker = [accepted |-> broker.accepted, got |-> broker.got,
                     left |-> broker.left],
           Sound(Now, broker.got), brokerPublish
    PROVE  Sound(Now', broker'.got)
<1> DEFINE p == Publish(0, client.conn, broker.left)
<1>1. net' = [net EXCEPT !.dn = Append(net.dn, p)] /\ broker'.got = broker.got
  BY DEF brokerPublish
<1>2. /\ Fields(net, NetFields)
      /\ Flight(client.outbound, client.connected, net.up, net.dn, net.pend, broker.got)
  BY NowIs DEF Sound, Core, Shape
<1>3. p.type # "PUBACK"
  BY DEF Publish, Packet
<1> HIDE DEF p
<1>4. Fields(net', NetFields) /\ net'.up = net.up /\ net'.dn = Append(net.dn, p) /\ net'.pend = net.pend
  BY <1>1, <1>2, ZenonT(30) DEF Fields, NetFields
<1>5. Flight(client.outbound, client.connected, net'.up, net'.dn, net'.pend, broker.got)
  BY <1>2, <1>3, <1>4, OtherSent
<1> QED
  BY <1>1, <1>4, <1>5, NetStep DEF brokerPublish, Others

-----------------------------------------------------------------------------
(* The theorem. *)

\* The client begins with nothing in flight.
LEMMA SyncInit == Init => SyncInv
<1> SUFFICES ASSUME Init PROVE SyncInv
  OBVIOUS
<1>1. scene \in Scenarios
  BY DEF Init
<1>2. broker = [accepted |-> broker.accepted, got |-> broker.got,
                left |-> broker.left]
  BY DEF Init
<1> DEFINE got == broker.got
<1> HIDE DEF got
<1>3. ASSUME NEW u \in Threads
      PROVE  /\ ThreadShape(thr[u]) /\ thr[u].at = Idle /\ thr[u].token = NoToken /\ thr[u].last.op = "none"
             /\ IsSeq(thr[u].prog)
  <2>1. /\ thr[u] = [prog |-> IF u = Lost THEN <<>> ELSE scene.progs[u], at |-> Idle, token |-> NoToken,
                     last |-> thr[u].last]
        /\ thr[u].last.op = "none"
    BY <1>3 DEF Init
  <2>2. Fields(thr[u], ThreadFields)
    BY <2>1 DEF Fields, ThreadFields
  <2>3. Fields(Idle, AtFields)
    BY DEF Idle, Fields, AtFields
  <2>4. IsSeq(thr[u].prog)
    <3>1. CASE u = Lost
      <4>1. thr[u].prog = <<>>
        BY <2>1, <3>1
      <4> QED
        BY <4>1, Emptying
    <3>2. CASE u # Lost
      <4>1. u \in {"a", "b"}
        BY <1>3, <3>2 DEF Threads
      <4>2. thr[u].prog = scene.progs[u]
        BY <2>1, <3>2
      <4>3. thr[u].prog \in Seq(Operations)
        BY <1>1, <4>1, <4>2, SyncAssumption
      <4> QED
        BY <4>3, Sequences
    <3> QED
      BY <3>1, <3>2
  <2> QED
    BY <2>1, <2>2, <2>3, <2>4 DEF ThreadShape
<1>4. Fields(client, ClientFields) /\ client.outbound = <<>> /\ client.connected = FALSE
  BY DEF Init, Fields, ClientFields
<1>5. Fields(net, NetFields) /\ net.up = <<>> /\ net.dn = <<>> /\ net.pend = <<>>
  BY DEF Init, NoNet, Fields, NetFields
<1>6. Fields(locks, LockFields) /\ locks.connect = "none"
  BY DEF Init, Fields, LockFields
<1>7. Fields(thr, Threads)
  BY DEF Init, Fields
<1>8. Fields(Now, StateFields)
  BY DEF Now, Fields, StateFields
<1>9. Shape(Now)
  BY <1>3, <1>4, <1>5, <1>6, <1>7, <1>8, NowIs DEF Shape
<1>10. Flight(client.outbound, client.connected, net.up, net.dn, net.pend, got)
  <2>1. IsSeq(client.outbound) /\ Distinct(client.outbound)
    BY <1>4, Emptying DEF Distinct
  <2> QED
    BY <1>4, <1>5, <2>1, NoPackets
<1>11. Core(Now, got)
  BY <1>3, <1>9, <1>10, NowIs DEF Core, TokenKept
<1>12. \A u \in Threads : Fine(thr[u], locks.connect, u, got)
  <2>1. Idle.pc = "idle"
    BY DEF Idle
  <2> QED
    BY <1>3, <2>1 DEF Fine
<1>13. Sound(Now, got)
  BY <1>6, <1>11, <1>12, NowIs DEF Sound, NotYet
<1> QED
  BY <1>1, <1>2, <1>13 DEF SyncInv, got

\* Every step of the application's threads keeps the state sound.
LEMMA ThreadStep ==
    ASSUME ~scene.cleansession, NEW got, NEW t \in Threads, Sound(Now, got), Step(t)
    PROVE  Sound(Now', got)
<1>1. CASE subscribe(t) \/ unsubscribe(t)
  <2>1. ASSUME NEW op \in {"SUBSCRIBE", "UNSUBSCRIBE"}, NEW ack \in {"SUBACK", "UNSUBACK"}, ask(t, op, ack)
        PROVE  Sound(Now', got)
    BY <2>1, AskStep
  <2>2. \E op \in {"SUBSCRIBE", "UNSUBSCRIBE"}, ack \in {"SUBACK", "UNSUBACK"} : ask(t, op, ack)
    BY <1>1, Zenon DEF subscribe, unsubscribe
  <2> QED
    BY <2>1, <2>2
<1>2. CASE enter(t) \/ waitSem(t) \/ readPack(t)
  BY <1>2, EnterStep
<1>3. CASE unblock(t) \/ written(t)
  BY <1>3, UnblockStep
<1>4. CASE disconnect(t) \/ drained(t)
  BY <1>4, DisconnectStep
<1> QED
  BY <1>1, <1>2, <1>3, <1>4, ConnectStep, WaitLoopStep, WaitTurnStep, ResumeStep, StopWaitStep, PublishStep,
     WaitForCompletionStep, ReceiveStep, ReceivingStep, ReceivedStep, YieldStep, YieldErrorStep DEF Step

\* The fields of the broker's record, which only the network's steps change.
LEMMA BrokerSame ==
    /\ \A t \in Threads : Step(t) => UNCHANGED <<scene, broker>>
    /\ RunStep \/ continueWrite \/ tcpDone \/ lose => UNCHANGED <<scene, broker>>
    /\ answer \/ brokerPublish => UNCHANGED scene
<1>1. ASSUME NEW t \in Threads, Step(t) PROVE UNCHANGED <<scene, broker>>
  BY <1>1 DEF Step, connect, enter, waitSem, readPack, waitLoop, waitTurn, resume, stopWait, subscribe, unsubscribe,
     ask, publish, unblock, written, waitForCompletion, disconnect, drained, receive, receiving, received,
     yield, yieldError
<1>2. ASSUME RunStep \/ continueWrite \/ tcpDone \/ lose PROVE UNCHANGED <<scene, broker>>
  BY <1>2 DEF RunStep, runCycle, runHandle, messageArrived, runStop, keepalive, continueWrite, tcpDone, lose, Others
<1>3. ASSUME answer \/ brokerPublish PROVE UNCHANGED scene
  BY <1>3 DEF answer, brokerPublish, Others
<1> QED
  BY <1>1, <1>2, <1>3

\* The invariant is inductive.
LEMMA SyncStep == SyncInv /\ [Next]_vars => SyncInv'
<1> SUFFICES ASSUME SyncInv, [Next]_vars PROVE SyncInv'
  OBVIOUS
<1> DEFINE Shaped == broker = [accepted |-> broker.accepted, got |-> broker.got,
                               left |-> broker.left]
<1>1. scene \in Scenarios /\ Shaped
  BY DEF SyncInv
<1>2. CASE ~scene.cleansession /\ Next
  <2>1. Sound(Now, broker.got)
    BY <1>2 DEF SyncInv
  <2>2. CASE \E t \in Threads : Step(t)
    BY <1>1, <1>2, <2>1, <2>2, ThreadStep, BrokerSame DEF SyncInv
  <2>3. CASE RunStep
    BY <1>1, <1>2, <2>1, <2>3, RunSteps, BrokerSame DEF SyncInv
  <2>4. CASE continueWrite \/ tcpDone \/ lose
    BY <1>1, <1>2, <2>1, <2>4, NetworkSteps, BrokerSame DEF SyncInv
  <2>5. CASE answer
    <3>1. Shaped'
      BY <1>1, <2>5 DEF answer
    <3> QED
      BY <1>1, <2>1, <2>5, <3>1, AnswerStep, BrokerSame DEF SyncInv
  <2>6. CASE brokerPublish
    <3>1. Shaped'
      BY <1>1, <2>6 DEF brokerPublish
    <3> QED
      BY <1>1, <2>1, <2>6, <3>1, BrokerPublishStep, BrokerSame DEF SyncInv
  <2> QED
    BY <1>2, <2>2, <2>3, <2>4, <2>5, <2>6 DEF Next
<1>3. CASE scene.cleansession /\ Next
  <2>1. CASE answer \/ brokerPublish
    <3>1. Shaped'
      BY <1>1, <2>1 DEF answer, brokerPublish
    <3> QED
      BY <1>1, <1>3, <2>1, <3>1, BrokerSame DEF SyncInv
  <2>2. CASE ~(answer \/ brokerPublish)
    <3>1. UNCHANGED <<scene, broker>>
      BY <1>3, <2>2, BrokerSame DEF Next
    <3> QED
      BY <1>1, <1>3, <3>1 DEF SyncInv
  <2> QED
    BY <2>1, <2>2
<1>4. CASE UNCHANGED vars
  <2>1. UNCHANGED <<scene, broker>> /\ Now' = Now
    BY <1>4 DEF vars, Now
  <2> QED
    BY <1>1, <2>1 DEF SyncInv, Sound, Core, Shape, NotYet
<1> QED
  BY <1>2, <1>3, <1>4

\* A successful MQTTClient_waitForCompletion means that the broker has the message: in
\* every behaviour of the client, for any programs of the threads, any number of lost
\* connections, partial writes, reconnections and messages in flight, if the session
\* is kept.
THEOREM CompletionTrue == Spec => []CompletionIsTrue
<1>1. SyncInv => CompletionIsTrue
  <2> SUFFICES ASSUME SyncInv, NEW t \in Threads, thr[t].at = Idle, ~scene.cleansession,
                      thr[t].last.op = "wait", thr[t].last.rc = "ok"
               PROVE  thr[t].token.msg \in broker.got
    BY DEF CompletionIsTrue
  <2>1. Fine(thr[t], locks.connect, t, broker.got)
    BY NowIs DEF SyncInv, Sound
  <2> QED
    BY <2>1 DEF Fine
<1> QED
  BY <1>1, SyncInit, SyncStep, PTL DEF Spec

=============================================================================
