----------------------------- MODULE SyncClient -----------------------------
(***************************************************************************)
(* The synchronous client of the MQTT library (MQTTClient.c): calls that   *)
(* block until their answer has come, made by several threads of the       *)
(* application, and the one background thread, MQTTClient_run, that reads  *)
(* the socket when callbacks are set and hands CONNACK, SUBACK and UNSUBACK*)
(* over through a semaphore and the single field m->pack.                  *)
(*                                                                         *)
(* What a thread does while it holds mqttclient_mutex is one step.  The    *)
(* other steps are those the code takes without it: waiting on a semaphore *)
(* (Thread.c), reading m->pack after the wait, selecting a socket, and the *)
(* callbacks.  The client has one connection at a time and its descriptor  *)
(* is reused, so what a thread remembers of an old connection finds the    *)
(* new one.  A published message has QoS 1 and an incoming one QoS 0; the  *)
(* handshakes and the persisted records are those of Delivery.             *)
(***************************************************************************)
EXTENDS Integers, Sequences, FiniteSetsExt

CONSTANTS
    Scenarios,      \* what each thread calls, the options, and as bounds the lost
                    \* connections and the writes that do not complete at once
    MAX_MSG_ID,
    MaxInflight     \* maxInflightMessages

\* The calls a thread may make.
Operations == {"connect", "SUBSCRIBE", "UNSUBSCRIBE", "publish", "wait", "disconnect", "receive"}

ASSUME SyncAssumption ==
    /\ MAX_MSG_ID \in Nat \ {0} /\ MaxInflight \in Nat \ {0} /\ MaxInflight < MAX_MSG_ID
    /\ \A s \in Scenarios : /\ s.losses \in Nat /\ s.interrupts \in Nat /\ s.incoming \in Nat
                            /\ \A t \in {"a", "b"} : s.progs[t] \in Seq(Operations)
                            /\ {s.callbacks, s.reconnects, s.cleansession, s.websocket} \subseteq BOOLEAN
                            /\ s.version \in {0, 3, 4}

VARIABLES
    scene,      \* the scenario of this behaviour
    client,     \* Clients: the protocol's state, and has a step meant for one connection
                \* met another, or an answer gone to a thread it is not for (history)
    handle,     \* MQTTClients: the semaphores, m->pack, m->rc
    lib,        \* running and tostop
    run,        \* the background thread
    thr,        \* the threads of the application
    locks,      \* the holders of connect_mutex, subscribe_mutex, unsubscribe_mutex
    net,        \* the connection: packets each way, and its state
    broker,     \* the connections the broker has accepted, the messages it has got
    faults      \* losses and interrupts left; has a wait been given up, have two overlapped

vars == <<scene, client, handle, lib, run, thr, locks, net, broker, faults>>

\* The thread connectionLost_call runs on, and the background thread.
Lost == "lost"
Run  == "run"
Threads == {"a", "b", Lost}

Packet(type, id, conn) == [type |-> type, id |-> id, conn |-> conn, ok |-> TRUE, msg |-> 0]
NoPack == [Packet("none", 0, 0) EXCEPT !.ok = FALSE]
Publish(id, conn, msg) == [Packet("PUBLISH", id, conn) EXCEPT !.msg = msg]

\* The token of a message that has not been published.
NoToken == [id |-> 0, msg |-> 0]

NoNet == [up |-> <<>>, dn |-> <<>>, pend |-> <<>>, alive |-> FALSE, tcp |-> "none"]

Off == [pc |-> "off", pack |-> NoPack, rc |-> "none", conn |-> 0]

Idle == [pc |-> "idle", await |-> "none", mode |-> "sem", version |-> 0, late |-> FALSE,
         rc |-> "ok", got |-> NoPack, asked |-> NoPack, lost |-> FALSE,
         clean |-> FALSE]   \* no wait had been given up before this call (history)

-----------------------------------------------------------------------------
(* The whole state as one value, which a locked section transforms. *)

Now == [client |-> client, handle |-> handle, lib |-> lib, run |-> run, thr |-> thr,
        locks |-> locks, net |-> net]

Become(s) ==
    /\ client' = s.client /\ handle' = s.handle /\ lib' = s.lib /\ run' = s.run
    /\ thr' = s.thr /\ locks' = s.locks /\ net' = s.net

\* Thread t calls op.
Calls(t, op) == thr[t].at = Idle /\ thr[t].prog # <<>> /\ Head(thr[t].prog) = op

\* A wait begins while another thread is in one.
Overlapping == [faults EXCEPT !.overlap = @ \/ \E l \in DOMAIN locks : locks[l] # "none"]

\* The call returns rc, and what it held is released.
Return(s, t, rc) ==
    LET x == s.thr[t].at
    IN  [s EXCEPT !.thr[t] = [prog |-> Tail(@.prog), at |-> Idle, token |-> @.token,
                              last |-> [op |-> Head(@.prog), rc |-> rc,
                                        asked |-> x.asked, got |-> x.got, clean |-> x.clean]],
                  !.locks = [l \in DOMAIN @ |-> IF @[l] = t THEN "none" ELSE @[l]]]

-----------------------------------------------------------------------------
(* Disconnecting. *)

cleanSession(c) == [c EXCEPT !.outbound = <<>>, !.queue = <<>>, !.msgID = 0]

\* closeSession that discards a session to be kept.
closeSessionCleaning(s) ==
    [s EXCEPT !.client = cleanSession([s.client EXCEPT !.connected = FALSE, !.state = "none", !.sock = 0]),
              !.net = NoNet]

\* MQTTClient_closeSession
closeSession(s) ==
    LET c == [s.client EXCEPT !.connected = FALSE, !.state = "none", !.sock = 0]
    IN  [s EXCEPT !.client = IF scene.cleansession THEN cleanSession(c) ELSE c, !.net = NoNet]

\* MQTTClient_stop acts when the thread runs and no handle is connected or connecting.
Stops(s) ==
    s.lib.running /\ ~s.lib.tostop /\ ~s.client.connected /\ s.client.state = "none"

stop(s) == IF Stops(s) THEN [s EXCEPT !.lib.tostop = TRUE] ELSE s

\* connectionLost_call: the application's callback connects again.
connectionLost(s) ==
    IF scene.reconnects THEN [s EXCEPT !.thr[Lost].prog = Append(@, "connect")] ELSE s

\* MQTTClient_disconnect1 after its wait for the messages in flight.  A thread
\* other than the background thread waits for that to stop, without the mutex.
disconnect1(s, t, call, stops) ==
    LET lost   == call /\ s.client.connected
        races  == s.locks.connect \notin {"none", t}
        closed == [closeSession(s) EXCEPT !.client.crossed = @ \/ races]
    IN  IF stops /\ Stops(closed) /\ t # Run
        THEN [stop(closed) EXCEPT !.thr[t].at = [@ EXCEPT !.pc = "stopping", !.lost = lost]]
        ELSE LET d == IF stops THEN stop(closed) ELSE closed
             IN  IF lost THEN connectionLost(d) ELSE d

\* The same, and the call returns rc.
giveUp(s, t, rc, call, stops) ==
    LET d == disconnect1(s, t, call, stops)
    IN  IF d.thr[t].at.pc = "stopping" THEN [d EXCEPT !.thr[t].at.rc = rc] ELSE Return(d, t, rc)

-----------------------------------------------------------------------------
(* Waiting for an answer. *)

semOf(await) ==
    CASE await \in {"tcp", "ws"} -> "connect"
      [] await = "CONNACK"  -> "connack"
      [] await = "SUBACK"   -> "suback"
      [] await = "UNSUBACK" -> "unsuback"

\* The mutex is released and MQTTClient_waitfor called: with a background thread
\* it waits on a semaphore, without one it reads the socket itself.
waitfor(s, t, await) ==
    [s EXCEPT !.thr[t].at = [@ EXCEPT !.pc = "enter", !.await = await, !.got = NoPack]]

enter(t) ==
    LET x == thr[t].at
    IN  /\ x.pc = "enter"
        /\ thr' = [thr EXCEPT ![t].at =
               IF x.late THEN [x EXCEPT !.pc = "locked", !.rc = "timeout"]
               ELSE [x EXCEPT !.pc = "wait", !.rc = "ok", !.mode = IF lib.running THEN "sem" ELSE "loop"]]
        /\ UNCHANGED <<scene, client, handle, lib, run, locks, net, broker, faults>>

-----------------------------------------------------------------------------
(* Connecting. *)

send(s, p) == [s EXCEPT !.net.up = Append(@, p)]

\* A packet can be written when the socket is open and connected.
Writable(s) == s.client.sock # 0 /\ s.net.tcp = "up"

\* MQTTPacket_send_connect, or WebSocket_connect before it, and the wait.
sendConnect(s, t) ==
    waitfor(send([s EXCEPT !.client.state = "connack"], Packet("CONNECT", 0, s.client.conn)),
            t, "CONNACK")

upgrade(s, t) ==
    waitfor(send([s EXCEPT !.client.state = "ws"], Packet("UPGRADE", 0, s.client.conn)),
            t, "ws")

greet(s, t) == IF scene.websocket THEN upgrade(s, t) ELSE sendConnect(s, t)

\* MQTTProtocol_connect: a new socket, connected at once or not yet.
opened(s, o) ==
    [s EXCEPT !.client = [@ EXCEPT !.sock = 1, !.conn = s.client.conn + 1, !.state = "tcp"],
              !.net = [NoNet EXCEPT !.alive = TRUE,
                                    !.tcp = IF o = "immediate" THEN "up" ELSE "connecting"]]

\* MQTTClient_connectURIVersion starts the run thread if there are callbacks.
startsThread(s) == scene.callbacks /\ ~s.lib.running
begun(s) == IF startsThread(s) THEN [s EXCEPT !.lib.running = TRUE, !.run.pc = "cycle"] ELSE s

\* It fails at once: the time is up once the thread runs, or there is no socket.
fails(s, t, o) == o = "error" \/ (startsThread(s) /\ s.thr[t].at.late)

\* Otherwise it goes on to its first wait.
attempt(s, t, o) ==
    IF o = "immediate" THEN greet(opened(begun(s), o), t)
    ELSE waitfor(opened(begun(s), o), t, "tcp")

\* The exit of MQTTClient_connectURIVersion: only version 3 stops the thread.
\* MQTTClient_connectURI tries version 3 after 4 when none was asked for.
failLast(s, t) == giveUp(s, t, "error", FALSE, s.thr[t].at.version = 3)

failAttempt(s, t, o) ==
    LET last(d) == IF fails(d, t, o) THEN failLast(begun(d), t) ELSE attempt(d, t, o)
    IN  IF s.thr[t].at.version = 4 /\ scene.version = 0
        THEN last([disconnect1(s, t, FALSE, FALSE) EXCEPT !.thr[t].at.version = 3])
        ELSE failLast(s, t)

Outcomes == {"inprogress", "immediate"} \cup (IF faults.losses > 0 THEN {"error"} ELSE {})

\* MQTTClient_connectURI: the options are those of the scenario, and MQTT 3.1.1 comes first.
connectURI(s, t, o1, o2) ==
    LET first == IF scene.version = 0 THEN 4 ELSE scene.version
        try(x) == IF fails(x, t, o1) THEN failAttempt(begun(x), t, o2) ELSE attempt(x, t, o1)
    IN  try([s EXCEPT !.thr[t].at.version = first])

\* MQTTClient_connectAll.  That the client is not connected is left to the
\* caller: the code does not look, and connects over the old connection.
connect(t) ==
    \E o1, o2 \in Outcomes :
        /\ Calls(t, "connect") /\ ~client.connected /\ locks.connect = "none"
        /\ Become(connectURI([Now EXCEPT !.locks.connect = t], t, o1, o2))
        /\ faults' = Overlapping
        /\ UNCHANGED <<scene, broker>>

\* The socket has been connected: the greeting is written.
tcpConnected(s, t, o) ==
    IF s.thr[t].at.rc = "ok" /\ Writable(s) THEN greet(s, t) ELSE failAttempt(s, t, o)

\* What the wait for the upgrade returned is not looked at.
upgraded(s, t, o) == IF Writable(s) THEN sendConnect(s, t) ELSE failAttempt(s, t, o)

\* connacked without a look at the return code in the CONNACK.
connackedAlways(s, t, o, sent, cut) ==
    IF s.thr[t].at.got = NoPack THEN failAttempt(s, t, o)
    ELSE Return([s EXCEPT !.handle.pack = NoPack,
                          !.client = [@ EXCEPT !.connected = TRUE, !.state = "none"]], t, "ok")

\* MQTTProtocol_retries writes the packets one by one, until a write is cut short (0: none
\* is).  The packets behind it wait for the next connection.
writtenAgain(n, again, cut) ==
    IF cut = 0 THEN [n EXCEPT !.up = @ \o again]
    ELSE [n EXCEPT !.up = @ \o SubSeq(again, 1, cut - 1), !.pend = <<again[cut]>>]

\* CONNACK: a session starts, and the messages in flight are sent again.  When that
\* finds the connection dead the session is closed and the attempt has failed.
connacked(s, t, o, sent, cut) ==
    LET c1 == [s.client EXCEPT !.connected = TRUE, !.state = "none"]
        c2 == IF scene.cleansession THEN cleanSession(c1) ELSE c1
        again == [i \in DOMAIN c2.outbound |->
                     Publish(c2.outbound[i].id, s.client.conn, c2.outbound[i].msg)]
        s1 == [s EXCEPT !.handle.pack = NoPack]
        d  == disconnect1([s EXCEPT !.client = c2], t, TRUE, TRUE)
    IN  CASE s.thr[t].at.got = NoPack -> failAttempt(s, t, o)
          [] s.thr[t].at.got # NoPack /\ ~s.thr[t].at.got.ok -> failAttempt(s1, t, o)
          [] s.thr[t].at.got.ok /\ ~sent /\ again # <<>> ->
                IF d.thr[t].at.pc = "stopping" THEN [d EXCEPT !.thr[t].at.rc = "disconnected"]
                ELSE failAttempt([d EXCEPT !.handle.pack = NoPack], t, o)
          [] OTHER -> Return([s1 EXCEPT !.client = c2, !.net = writtenAgain(@, again, cut)], t, "ok")

\* The loops that call MQTTClient_yield.
Loops == {"blocked", "writing", "awaiting", "draining"}

\* MQTTClient_stop looks at "running" a hundred times, then goes on: to the end of
\* the call, back to the loop it yielded in, or to the next attempt to connect.
stopWait(t) ==
    LET x == thr[t].at
        s == IF x.lost THEN connectionLost(Now) ELSE Now
        failed == [s EXCEPT !.thr[t].at.pc = "locked", !.handle.pack = NoPack]
    IN  /\ x.pc = "stopping" \/ (x.pc \in Loops /\ x.rc = "stopping")
        /\ \/ /\ x.rc # "disconnected"
              /\ Become(IF x.pc = "stopping" THEN Return(s, t, x.rc) ELSE [s EXCEPT !.thr[t].at.rc = "ok"])
           \/ x.rc = "disconnected" /\ \E o \in Outcomes : Become(failAttempt(failed, t, o))
        /\ faults' = [faults EXCEPT !.given = @ \/ lib.running]
        /\ UNCHANGED <<scene, broker>>

-----------------------------------------------------------------------------
(* Reading: MQTTClient_cycle, with the outcomes select may have.  A result *)
(* is the new state, the packet left for the caller, and the return code.  *)

Result(s, pack, rc) == [s |-> s, pack |-> pack, rc |-> rc]

\* MQTTProtocol_handlePubacks: the message in flight with this id is done with.
handlePubacks(out, id) ==
    LET I == {i \in DOMAIN out : out[i].id = id}
    IN  IF I = {} THEN out ELSE SubSeq(out, 1, Min(I) - 1) \o SubSeq(out, Min(I) + 1, Len(out))

cycle(s) ==
    LET c    == s.client
        p    == Head(s.net.dn)
        rest == [s EXCEPT !.net.dn = Tail(@)]
    IN  CASE c.sock = 0 -> {}
          [] c.sock # 0 /\ c.state = "tcp" ->
                IF s.net.tcp = "connecting" THEN {} ELSE {Result(s, NoPack, "ok")}
          [] c.sock # 0 /\ c.state # "tcp" /\ s.net.pend # <<>> -> {}
          [] OTHER ->
                IF s.net.dn = <<>> THEN IF s.net.alive THEN {} ELSE {Result(s, NoPack, "error")}
                ELSE CASE p.type = "UPGRADED" ->
                            {Result(rest, NoPack, IF c.state = "ws" THEN "ok" ELSE "error")}
                       [] p.type = "PUBACK" ->
                            {Result([rest EXCEPT !.client.outbound = handlePubacks(@, p.id)], NoPack, "ok")}
                       [] p.type = "PUBLISH" ->
                            {Result([rest EXCEPT !.client.queue = Append(@, p.msg)], NoPack, "ok")}
                       [] OTHER -> {Result(rest, p, "ok")}

\* A thread reads the socket itself while the background thread does not run.
Reads(t) ==
    /\ ~lib.running
    /\ \/ thr[t].at.pc \in Loops /\ thr[t].at.rc = "ok"
       \/ thr[t].at.pc = "receiving"
       \/ thr[t].at.pc = "wait" /\ thr[t].at.mode = "loop"

\* Socket_continueWrites, in the select of whoever reads.
continueWrite ==
    /\ net.pend # <<>>
    /\ run.pc = "cycle" \/ \E t \in Threads : Reads(t)
    /\ net' = [net EXCEPT !.pend = <<>>, !.up = IF net.alive THEN @ \o net.pend ELSE @]
    /\ UNCHANGED <<scene, client, handle, lib, run, thr, locks, broker, faults>>

-----------------------------------------------------------------------------
(* The waits. *)

\* waitSem without a timeout.
waitSemForever(t) ==
    LET x   == thr[t].at
        sem == semOf(x.await)
    IN  /\ x.pc = "wait" /\ x.mode = "sem" /\ handle.sem[sem] = 1
        /\ handle' = [handle EXCEPT !.sem[sem] = 0]
        /\ thr' = [thr EXCEPT ![t].at = [x EXCEPT !.pc = "read",
                      !.rc = IF sem = "connect" THEN handle.rc ELSE "ok"]]
        /\ UNCHANGED <<scene, client, lib, run, locks, net, broker, faults>>

\* A semaphore is posted, or the time runs out.
waitSem(t) ==
    LET x   == thr[t].at
        sem == semOf(x.await)
    IN  /\ x.pc = "wait" /\ x.mode = "sem"
        /\ \/ /\ handle.sem[sem] = 1
              /\ handle' = [handle EXCEPT !.sem[sem] = 0]
              /\ thr' = [thr EXCEPT ![t].at = [x EXCEPT !.pc = "read",
                            !.rc = IF sem = "connect" THEN handle.rc ELSE "ok"]]
              /\ UNCHANGED faults
           \/ /\ thr' = [thr EXCEPT ![t].at = [x EXCEPT !.pc = "read", !.rc = "timeout", !.late = TRUE]]
              /\ faults' = [faults EXCEPT !.given = TRUE]
              /\ UNCHANGED handle
        /\ UNCHANGED <<scene, client, lib, run, locks, net, broker>>

\* pack = m->pack, without the mutex.
readPack(t) ==
    /\ thr[t].at.pc = "read"
    /\ thr' = [thr EXCEPT ![t].at = [@ EXCEPT !.pc = "locked", !.got = handle.pack]]
    /\ UNCHANGED <<scene, client, handle, lib, run, locks, net, broker, faults>>

\* MQTTClient_cycle in the loop of MQTTClient_waitfor, and the end of its time.
waitLoop(t) ==
    LET x == thr[t].at
    IN  /\ x.pc = "wait" /\ x.mode = "loop"
        /\ \/ /\ \E r \in cycle(Now) :
                    Become([r.s EXCEPT !.thr[t].at = [x EXCEPT !.pc = "turn", !.rc = r.rc, !.got = r.pack]])
              /\ UNCHANGED faults
           \/ /\ Become([Now EXCEPT !.thr[t].at = [x EXCEPT !.pc = "locked", !.late = TRUE]])
              /\ faults' = [faults EXCEPT !.given = TRUE]
        /\ UNCHANGED <<scene, broker>>

\* The rest of the loop, without the mutex: a packet is dropped that is not the one
\* waited for, or whose socket has been closed since.
turnOf(x) ==
    CASE client.sock = 0 -> [x EXCEPT !.pc = "wait", !.got = NoPack]
      [] client.sock # 0 /\ (x.rc = "error" \/ x.got.type = x.await) -> [x EXCEPT !.pc = "locked"]
      [] client.sock # 0 /\ x.rc # "error" /\ x.got.type # x.await ->
            CASE client.state = "tcp" ->
                    [x EXCEPT !.pc = "locked", !.rc = IF net.tcp = "up" THEN "ok" ELSE "error"]
              [] client.state = "ws" -> [x EXCEPT !.pc = "locked", !.rc = "error"]   \* it is 1
              [] OTHER -> [x EXCEPT !.pc = "wait", !.got = NoPack]

waitTurn(t) ==
    /\ thr[t].at.pc = "turn"
    /\ thr' = [thr EXCEPT ![t].at = turnOf(@)]
    /\ UNCHANGED <<scene, client, handle, lib, run, locks, net, broker, faults>>

\* acked that leaves the answer in m->pack.
ackedKeeping(s, t) ==
    IF s.thr[t].at.got = NoPack THEN giveUp(s, t, "error", TRUE, TRUE) ELSE Return(s, t, "ok")

\* SUBACK or UNSUBACK, or none: then the connection is given up, whichever it is now.
\* With one the call returns what the wait did, -1 if its time was up.
acked(s, t) ==
    IF s.thr[t].at.got = NoPack THEN giveUp(s, t, "error", TRUE, TRUE)
    ELSE Return([s EXCEPT !.handle.pack = NoPack], t, IF s.thr[t].at.rc = "ok" THEN "ok" ELSE "error")

\* Which of the messages in flight is only partly written again, if any is.
Cuts(x) ==
    IF x.await = "CONNACK" /\ x.got.ok /\ ~scene.cleansession /\ net.alive /\ faults.interrupts > 0
    THEN 0..Len(client.outbound) ELSE {0}

\* The thread has the mutex again.
resume(t) ==
    LET x == thr[t].at
        s == Now
    IN  /\ x.pc = "locked"
        /\ \E o \in Outcomes, sent \in BOOLEAN, cut \in Cuts(x) :
           /\ ~sent => x.await = "CONNACK" /\ ~net.alive
           /\ Become(CASE x.await = "tcp"     -> tcpConnected(s, t, o)
                       [] x.await = "ws"      -> upgraded(s, t, o)
                       [] x.await = "CONNACK" -> connacked(s, t, o, sent, cut)
                       [] x.await \in {"SUBACK", "UNSUBACK"} -> acked(s, t))
           /\ faults' = [faults EXCEPT !.interrupts = IF cut = 0 THEN @ ELSE @ - 1]
        /\ UNCHANGED <<scene, broker>>

-----------------------------------------------------------------------------
(* Subscribing and publishing. *)

\* MQTTProtocol_assignMsgId looks at the messages in flight only.
assignMsgId(c) ==
    LET used  == {c.outbound[i].id : i \in DOMAIN c.outbound}
        free  == 1..MAX_MSG_ID \ used
        after == {i \in free : i > c.msgID}
    IN  IF after # {} THEN Min(after) ELSE Min(free)

\* How a write may end.
Write(w) ==
    /\ w = "complete"    => net.pend = <<>>
    /\ w = "interrupted" => net.pend = <<>> /\ net.alive /\ faults.interrupts > 0
    /\ w = "error"       => net.pend # <<>> \/ ~net.alive

Writes == {"complete", "interrupted", "error"}

Interrupted(w) == IF w = "interrupted" THEN faults.interrupts - 1 ELSE faults.interrupts

\* MQTTClient_subscribeMany5 and MQTTClient_unsubscribeMany5 up to the wait.
ask(t, op, ack) ==
    LET id == assignMsgId(client)
        p  == Packet(op, id, client.conn)
        s  == [Now EXCEPT !.locks[op] = t, !.client.msgID = id,
                          !.thr[t].at = [@ EXCEPT !.asked = Packet(ack, id, client.conn),
                                                  !.clean = ~faults.given]]
    IN  /\ Calls(t, op) /\ locks[op] = "none"
        /\ \/ /\ ~client.connected
              /\ Become(Return(Now, t, "disconnected"))
              /\ UNCHANGED faults
           \/ \E w \in Writes :
                /\ client.connected /\ Write(w)
                /\ Become(CASE w = "complete"    -> waitfor(send(s, p), t, ack)
                            [] w = "interrupted" -> Return([s EXCEPT !.net.pend = <<p>>], t, "interrupted")
                            [] w = "error"       -> giveUp(s, t, "error", TRUE, TRUE))
                /\ faults' = [Overlapping EXCEPT !.interrupts = Interrupted(w),
                                                 !.given = @ \/ w = "interrupted"]
        /\ UNCHANGED <<scene, broker>>

subscribe(t)   == ask(t, "SUBSCRIBE", "SUBACK")
unsubscribe(t) == ask(t, "UNSUBSCRIBE", "UNSUBACK")

Full == Len(client.outbound) >= MaxInflight \/ net.pend # <<>>

\* MQTTClient_publish5 from the assignment of the message identifier on.
startPublish(t) ==
    LET id  == assignMsgId(client)
        msg == client.pubs + 1
        p   == Publish(id, client.conn, msg)
        s   == [Now EXCEPT !.client = [@ EXCEPT !.msgID = id, !.pubs = msg,
                                                !.outbound = Append(client.outbound, [id |-> id, msg |-> msg])],
                           !.thr[t].token = [id |-> id, msg |-> msg]]
    IN  \E w \in Writes :
            /\ Write(w)
            /\ Become(CASE w = "complete"    -> Return(send(s, p), t, "ok")
                        [] w = "interrupted" -> [s EXCEPT !.net.pend = <<p>>, !.thr[t].at.pc = "writing"]
                        [] w = "error"       -> giveUp(s, t, "ok", TRUE, TRUE))
            /\ faults' = [faults EXCEPT !.interrupts = Interrupted(w)]

publish(t) ==
    LET NoneYet == [Now EXCEPT !.thr[t].token = NoToken] IN
    /\ Calls(t, "publish")
    /\ \/ ~client.connected /\ Become(Return(Now, t, "disconnected")) /\ UNCHANGED faults
       \/ client.connected /\ Full /\ Become([NoneYet EXCEPT !.thr[t].at.pc = "blocked"]) /\ UNCHANGED faults
       \/ client.connected /\ ~Full /\ startPublish(t)
    /\ UNCHANGED <<scene, broker>>

\* A loop looks again after a MQTTClient_yield that has come to its end.
Looks(t, loop) == thr[t].at.pc = loop /\ thr[t].at.rc = "ok"

\* The loop that blocks on a full queue.
unblock(t) ==
    /\ Looks(t, "blocked")
    /\ \/ ~client.connected /\ Become(Return(Now, t, "failure")) /\ UNCHANGED faults
       \/ client.connected /\ ~Full /\ startPublish(t)
    /\ UNCHANGED <<scene, broker>>

\* The loop that waits for a partial write.
written(t) ==
    /\ Looks(t, "writing")
    /\ ~client.connected \/ net.pend = <<>>
    /\ Become(Return(Now, t, "ok"))
    /\ UNCHANGED <<scene, broker, faults>>

\* MQTTClient_waitForCompletion, of the message published last.
InFlight(t) == \E i \in DOMAIN client.outbound : client.outbound[i].id = thr[t].token.id

waitForCompletion(t) ==
    /\ Calls(t, "wait") \/ Looks(t, "awaiting")
    /\ thr[t].token # NoToken
    /\ \/ ~client.connected /\ Become(Return(Now, t, "disconnected"))
       \/ client.connected /\ ~InFlight(t) /\ Become(Return(Now, t, "ok"))
       \/ /\ Calls(t, "wait") /\ client.connected /\ InFlight(t)
          /\ Become([Now EXCEPT !.thr[t].at.pc = "awaiting"])
       \/ thr[t].at.pc = "awaiting" /\ Become(Return(Now, t, "failure"))
    /\ UNCHANGED <<scene, broker, faults>>

\* MQTTClient_disconnect: it waits for the messages in flight, up to its timeout.
disconnect(t) ==
    /\ Calls(t, "disconnect")
    /\ Become(IF client.connected /\ client.outbound # <<>>
              THEN [Now EXCEPT !.client.state = "disconnecting", !.thr[t].at.pc = "draining"]
              ELSE giveUp(Now, t, "ok", FALSE, TRUE))
    /\ UNCHANGED <<scene, broker, faults>>

drained(t) ==
    /\ Looks(t, "draining")
    /\ Become(giveUp(Now, t, "ok", FALSE, TRUE))
    /\ UNCHANGED <<scene, broker, faults>>

\* MQTTClient_receive, without callbacks: a message, an error, or the timeout.
receive(t) ==
    /\ Calls(t, "receive")
    /\ Become(CASE lib.running -> Return(Now, t, "failure")
                [] ~lib.running /\ ~client.connected -> Return(Now, t, "disconnected")
                [] OTHER -> [Now EXCEPT !.thr[t].at.pc = "receiving"])
    /\ UNCHANGED <<scene, broker, faults>>

deliverMessage(s) == [s EXCEPT !.client.queue = IF @ = <<>> THEN @ ELSE Tail(@)]

\* MQTTClient_cycle in the loop of MQTTClient_receive, or the end of its time.  It drops
\* an answer, and does not look at "running" again: a background thread started in
\* the meantime then waits for it in vain.
receiving(t) ==
    /\ thr[t].at.pc = "receiving"
    /\ \/ \E r \in cycle(Now) :
            Become([r.s EXCEPT !.client.crossed = @ \/ (lib.running /\ r.pack # NoPack),
                               !.thr[t].at = [@ EXCEPT !.pc = "received", !.rc = r.rc]])
       \/ Become([Now EXCEPT !.thr[t].at = [@ EXCEPT !.pc = "received", !.late = TRUE]])
    /\ UNCHANGED <<scene, broker, faults>>

\* What follows it, without the mutex: the call ends, with an error if the last cycle had
\* one, or there is time left, no message, and no error on the client's socket.
received(t) ==
    LET x == thr[t].at
        s == deliverMessage(Now)
    IN  /\ x.pc = "received"
        /\ \/ Become(IF x.rc = "error" THEN giveUp(s, t, "error", TRUE, TRUE) ELSE Return(s, t, "ok"))
           \/ /\ ~x.late /\ client.queue = <<>> /\ (x.rc = "error" => client.sock = 0)
              /\ Become([Now EXCEPT !.thr[t].at.pc = "receiving"])
        /\ UNCHANGED <<scene, broker, faults>>

\* MQTTClient_yield in the loops above, without a background thread: MQTTClient_cycle.
yield(t) ==
    /\ Reads(t) /\ thr[t].at.pc \in Loops
    /\ \E r \in cycle(Now) : Become([r.s EXCEPT !.thr[t].at.rc = r.rc])
    /\ UNCHANGED <<scene, broker, faults>>

\* After an error it takes the mutex again and looks the socket up, which may
\* have been closed, or belong to another connection, by then.
yieldError(t) ==
    LET x == thr[t].at
        s == [Now EXCEPT !.thr[t].at.rc = "ok"]
        d == disconnect1(s, t, TRUE, TRUE)
    IN  /\ x.pc \in Loops /\ x.rc = "error"
        /\ Become(CASE client.sock = 0 \/ client.state = "disconnecting" -> s
                    [] OTHER -> IF d.thr[t].at.pc # "stopping" THEN d
                                ELSE [d EXCEPT !.thr[t].at = [@ EXCEPT !.pc = x.pc, !.rc = "stopping"]])
        /\ UNCHANGED <<scene, broker, faults>>

-----------------------------------------------------------------------------
(* The background thread. *)

\* The loop goes on, or the thread ends, with the mutex still held.
turn(s) ==
    IF s.lib.tostop
    THEN [s EXCEPT !.lib = [running |-> FALSE, tostop |-> FALSE],
                   !.run = Off]
    ELSE [s EXCEPT !.run = [Off EXCEPT !.pc = "cycle"]]

\* Thread_post_sem; the post is for a thread that waits, or remains for a later one.
post(s, sem) ==
    LET awaited == \E t \in Threads : s.thr[t].at.pc \in {"enter", "wait", "turn"} /\ semOf(s.thr[t].at.await) = sem
    IN  [s EXCEPT !.handle.sem[sem] = 1, !.client.crossed = @ \/ ~awaited]

\* handOver that stores a SUBACK and posts no semaphore.
handOverSilent(s) ==
    IF s.run.pack.type = "CONNACK" THEN post([s EXCEPT !.handle.pack = s.run.pack], "connack")
    ELSE [s EXCEPT !.handle.pack = s.run.pack]

\* The end of an iteration of MQTTClient_run: packets and connects handed over.
handOver(s) ==
    LET pack == s.run.pack
        state == s.client.state
    IN  CASE pack.type = "CONNACK"  -> post([s EXCEPT !.handle.pack = pack], "connack")
          [] pack.type = "SUBACK"   -> post([s EXCEPT !.handle.pack = pack], "suback")
          [] pack.type = "UNSUBACK" -> post([s EXCEPT !.handle.pack = pack], "unsuback")
          [] pack = NoPack /\ state = "tcp" ->
                post([s EXCEPT !.handle.rc = IF net.tcp = "failed" THEN "error" ELSE "ok",
                               !.client.state = "none"], "connect")
          [] pack = NoPack /\ state = "ws" -> post([s EXCEPT !.client.state = "connack"], "connect")
          [] OTHER -> s

\* An error of the socket.
handleError(s) ==
    CASE s.client.connected -> disconnect1(s, Run, TRUE, TRUE)
      [] ~s.client.connected /\ s.client.state = "connack" ->
            post([s EXCEPT !.client.state = "none"], "connack")
      [] OTHER -> s

runCycle ==
    /\ run.pc = "cycle"
    /\ \E r \in cycle(Now) :
          Become([r.s EXCEPT !.run = [pc |-> "handle", pack |-> r.pack, rc |-> r.rc, conn |-> client.conn]])
    /\ UNCHANGED <<scene, broker, faults>>

\* MQTTProtocol_keepalive in MQTTClient_retry: no answer to the last ping.
keepalive ==
    /\ run.pc = "cycle" /\ client.connected /\ ~net.alive
    /\ Become([disconnect1(Now, Run, TRUE, TRUE) EXCEPT !.run.pc = "handle"])
    /\ UNCHANGED <<scene, broker, faults>>

\* The mutex is taken again after the cycle.
runHandle ==
    /\ run.pc = "handle"
    /\ LET s == [Now EXCEPT !.client.crossed = @ \/ run.conn # client.conn]
       IN  Become(CASE lib.tostop \/ client.sock = 0 \/ run.rc = "none" -> turn(Now)
                    [] run.rc = "error" /\ ~lib.tostop /\ client.sock # 0 -> turn(handleError(s))
                    [] OTHER -> IF client.queue # <<>> THEN [s EXCEPT !.run.pc = "callback"]
                                ELSE turn(handOver(s)))
    /\ UNCHANGED <<scene, broker, faults>>

\* messageArrived returns, and has taken the message or not.
messageArrived ==
    /\ run.pc = "callback"
    /\ \E taken \in BOOLEAN :
          LET s == [Now EXCEPT !.client.crossed = @ \/ run.conn # client.conn]
          IN  Become(turn(handOver(IF taken THEN deliverMessage(s) ELSE s)))
    /\ UNCHANGED <<scene, broker, faults>>

\* The thread finds "tostop" set when its select returns.
runStop ==
    /\ run.pc = "cycle" /\ lib.tostop
    /\ Become(turn(Now))
    /\ UNCHANGED <<scene, broker, faults>>

RunStep == runCycle \/ runHandle \/ messageArrived \/ runStop \/ keepalive

-----------------------------------------------------------------------------
(* The network and the broker. *)

Others == <<scene, client, handle, lib, run, thr, locks>>

tcpDone ==
    /\ net.tcp = "connecting"
    /\ \/ net' = [net EXCEPT !.tcp = "up"] /\ UNCHANGED faults
       \/ /\ faults.losses > 0
          /\ net' = [net EXCEPT !.tcp = "failed", !.alive = FALSE]
          /\ faults' = [faults EXCEPT !.losses = @ - 1]
    /\ UNCHANGED <<Others, broker>>

lose ==
    /\ net.alive /\ net.tcp = "up" /\ faults.losses > 0
    /\ \E dn \in {<<>>, net.dn} : net' = [net EXCEPT !.alive = FALSE, !.up = <<>>, !.dn = dn]
    /\ faults' = [faults EXCEPT !.losses = @ - 1]
    /\ UNCHANGED <<Others, broker>>

Reply(type) ==
    CASE type = "UPGRADE"     -> "UPGRADED"
      [] type = "CONNECT"     -> "CONNACK"
      [] type = "SUBSCRIBE"   -> "SUBACK"
      [] type = "UNSUBSCRIBE" -> "UNSUBACK"
      [] type = "PUBLISH"     -> "PUBACK"

answer ==
    /\ net.alive /\ net.up # <<>>
    /\ LET p == Head(net.up)
           a == Packet(Reply(p.type), p.id, p.conn)
       IN  \E ok \in BOOLEAN :
             /\ ~ok => p.type = "CONNECT" /\ faults.losses > 0
             /\ net' = [net EXCEPT !.up = Tail(@), !.dn = Append(@, [a EXCEPT !.ok = ok])]
             /\ faults' = [faults EXCEPT !.losses = IF ok THEN @ ELSE @ - 1]
             /\ broker' = [broker EXCEPT !.got = IF p.type = "PUBLISH" THEN @ \cup {p.msg} ELSE @,
                                         !.accepted = IF p.type = "CONNECT" /\ ok THEN @ \cup {p.conn} ELSE @]
    /\ UNCHANGED Others

\* The broker sends a message.
brokerPublish ==
    /\ net.alive /\ client.conn \in broker.accepted /\ broker.left > 0
    /\ net' = [net EXCEPT !.dn = Append(@, Publish(0, client.conn, broker.left))]
    /\ broker' = [broker EXCEPT !.left = @ - 1]
    /\ UNCHANGED <<Others, faults>>

-----------------------------------------------------------------------------
Init ==
    /\ scene \in Scenarios
    /\ client = [connected |-> FALSE, state |-> "none", sock |-> 0, conn |-> 0,
                 outbound |-> <<>>, queue |-> <<>>, msgID |-> 0, pubs |-> 0, crossed |-> FALSE]
    /\ handle = [sem |-> [x \in {"connect", "connack", "suback", "unsuback"} |-> 0],
                 pack |-> NoPack, rc |-> "ok"]
    /\ lib = [running |-> FALSE, tostop |-> FALSE]
    /\ run = Off
    /\ thr = [t \in Threads |-> [prog |-> IF t = Lost THEN <<>> ELSE scene.progs[t], at |-> Idle,
                                 token |-> NoToken,
                                 last |-> [op |-> "none", rc |-> "ok", asked |-> NoPack, got |-> NoPack,
                                           clean |-> FALSE]]]
    /\ locks = [l \in {"connect", "SUBSCRIBE", "UNSUBSCRIBE"} |-> "none"]
    /\ net = NoNet
    /\ broker = [accepted |-> {}, got |-> {}, left |-> scene.incoming]
    /\ faults = [losses |-> scene.losses, interrupts |-> scene.interrupts,
                 given |-> FALSE, overlap |-> FALSE]

Step(t) ==
    \/ connect(t) \/ enter(t) \/ waitSem(t) \/ readPack(t) \/ waitLoop(t) \/ waitTurn(t) \/ resume(t) \/ stopWait(t)
    \/ subscribe(t) \/ unsubscribe(t) \/ publish(t) \/ unblock(t) \/ written(t)
    \/ waitForCompletion(t) \/ disconnect(t) \/ drained(t) \/ receive(t) \/ receiving(t) \/ received(t)
    \/ yield(t) \/ yieldError(t)

Next ==
    \/ \E t \in Threads : Step(t)
    \/ RunStep \/ continueWrite \/ tcpDone \/ lose \/ answer \/ brokerPublish

\* The threads are scheduled, and the network and the broker answer.  A wait
\* ends in time, also that of a disconnect whose every look at the socket finds an error,
\* and the partial write of a live connection is completed.
Fairness ==
    /\ \A t \in Threads : WF_vars(Step(t)) /\ SF_vars(drained(t))
    /\ WF_vars(RunStep) /\ WF_vars(continueWrite) /\ WF_vars(tcpDone) /\ WF_vars(answer)

Spec == Init /\ [][Next]_vars /\ Fairness

-----------------------------------------------------------------------------
(* Properties. *)

Matches(last) ==
    last.op \in {"SUBSCRIBE", "UNSUBSCRIBE"} /\ last.rc = "ok" /\ last.clean => last.got = last.asked

\* A subscribe or unsubscribe that succeeds has read the answer to its own request,
\* unless a wait was given up before (whose answer then came late), two calls
\* waited at the same time (they share m->pack, and not their mutex), or the
\* background thread has left in m->pack what nobody waited for.
AnswersMatch ==
    ~faults.overlap /\ ~client.crossed => \A t \in Threads : Matches(thr[t].last)

\* A client that says it is connected has a socket whose CONNECT the broker
\* accepted, whatever losses and reconnections came before, unless a wait was
\* given up, two calls waited at the same time (an unread SUBACK in m->pack is
\* taken for the CONNACK), a disconnect came in the middle of the connect, or
\* the background thread applied to this connection what it had read from the
\* one before, or posted a semaphore that nobody waited for any more.
ConnectionIsReal ==
    client.connected /\ ~faults.given /\ ~faults.overlap /\ ~client.crossed =>
        client.sock # 0 /\ client.conn \in broker.accepted

\* The answer is never lost to the thread that waits for it: on a connection that
\* stands, the request or the answer is on its way, the background thread has it,
\* or the semaphore is posted until the thread wakes.  (With two calls at once one of
\* them may read the socket itself, and drop what it does not wait for; and so may
\* a MQTTClient_receive that began before the background thread.)
AnswerNotLost ==
    \A t \in Threads :
        LET x == thr[t].at
        IN  /\ x.pc = "wait" /\ x.mode = "sem" /\ x.await \in {"SUBACK", "UNSUBACK"}
            /\ x.asked.conn = client.conn /\ client.sock # 0 /\ net.alive
            /\ ~faults.given /\ ~faults.overlap /\ ~client.crossed
            /\ \A i \in DOMAIN net.up : Packet(Reply(net.up[i].type), net.up[i].id, net.up[i].conn) # x.asked
            /\ \A i \in DOMAIN net.dn : net.dn[i] # x.asked
            /\ run.pack # x.asked
            => handle.sem[semOf(x.await)] = 1

\* When MQTTClient_waitForCompletion succeeds the broker has the message, through
\* losses and reconnections, if the session is kept.  (The next publish of the
\* thread replaces the token.)
CompletionIsTrue ==
    \A t \in Threads :
        /\ thr[t].at = Idle /\ ~scene.cleansession
        /\ thr[t].last.op = "wait" /\ thr[t].last.rc = "ok"
        => thr[t].token.msg \in broker.got

\* Every call returns, whatever is lost: no thread waits for ever on a semaphore,
\* a full queue, a partial write or the end of the background thread.
CallsReturn == \A t \in Threads : (thr[t].at # Idle) ~> (thr[t].at = Idle)
=============================================================================
