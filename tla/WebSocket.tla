----------------------------- MODULE WebSocket -----------------------------
(***************************************************************************)
(* WebSocket.c: the frames an MQTT packet travels in when the server's URI *)
(* begins with ws://, and the pass-through to the socket when it does not. *)
(* in_frames, frame_buffer and frame_buffer_index are static: all the      *)
(* connections of the process share them.                                  *)
(*                                                                         *)
(*   s.ws       per socket: net->websocket                                 *)
(*   s.frames   in_frames: never more than one frame, its data and position *)
(*   s.fb, s.fbi   frame_buffer and frame_buffer_index                     *)
(*   s.lost     history: bytes of a frame were dropped, or read after they *)
(*              were freed                                                 *)
(*   s.freed    history: the sockets for which buffers of a pending write  *)
(*              were freed                                                 *)
(*   s.remasked history: the clients for which a frame was built with a    *)
(*              mask that was there before                                 *)
(*   s.cut      history: the sockets on which the answer to the upgrade    *)
(*              was not there as a whole when it was read                  *)
(*                                                                         *)
(* Frames with a 64-bit length go the way of those with a 16-bit one, and  *)
(* a server never masks; neither is in the model.                          *)
(***************************************************************************)
EXTENDS SocketBuffer, Bitwise

CONSTANTS Len7,          \* 126 in the code: from here on the length takes two more bytes
          LineLen,       \* 12: the length of "HTTP/1.1 101"
          ResponseMax    \* 1024: how much of the response is read at once

OP_BINARY == 2
OP_CLOSE  == 8
OP_PING   == 9
OP_PONG   == 10

NoMask == <<0, 0, 0, 0>>

-----------------------------------------------------------------------------
(* Reading. *)

\* WebSocket_getRawSocketData: from the buffer, or with what is missing read
\* from the socket.  rc0 is what *rc holds at the call: it stays when the
\* buffer has enough.
getRawSocketData(s, c, bytes, rc0) ==
  LET have == Len(s.fb) - s.fbi
      take(t, n, rc) == [s |-> [t EXCEPT !.fbi = @ + n], rc |-> rc,
                         data |-> SubSeq(t.fb, t.fbi + 1, t.fbi + n), null |-> FALSE]
      longer(t, rc) == take(t, Least(bytes, Len(t.fb) - t.fbi), rc)
      read(g) ==
        CASE g.rc = 0 -> [s |-> g.s, rc |-> SOCKET_ERROR, data |-> <<>>, null |-> g.null]
          [] g.rc # 0 /\ bytes = 0 ->
               [s |-> [g.s EXCEPT !.fb = <<>>, !.fbi = 0], rc |-> g.rc, data |-> <<>>, null |-> g.null]
          [] g.rc # 0 /\ bytes > 0 /\ ~g.null /\ g.data # <<>> ->
               longer(complete([g.s EXCEPT !.fb = @ \o g.data], c), g.rc)
          [] OTHER -> [s |-> g.s, rc |-> g.rc, data |-> <<>>, null |-> g.null]
  IN  IF bytes > 0 /\ have >= bytes THEN take(s, bytes, rc0)
      ELSE read(Socket_getdata(s, c, IF bytes = 0 THEN 0 ELSE bytes - have, rc0))

rewindData(s) == [s EXCEPT !.fbi = 0]

-----------------------------------------------------------------------------
(* Writing. *)

Masked(b, mask, idx) == [j \in DOMAIN b |-> b[j] ^^ mask[((idx + j - 1) % 4) + 1]]

Offset(buf0, bufs, i) == Len(buf0) + Len(FlattenSeq(SubSeq(bufs, 1, i - 1)))

\* WebSocket_buildFrame.  A mask that is there already (its first byte is not
\* 0) is taken as a sign that the third buffer and the last are masked: the
\* loop ends at the first of them.  fresh is what rand() answers.
buildFrame(opcode, buf0, bufs, mask, fresh) ==
  LET head(len) == <<128 + opcode>>
                   \o (IF len < Len7 THEN <<128 + len>>
                       ELSE <<128 + Len7, len \div 256, len % 256>>)
      frame(m, stop) ==
        [buf0 |-> head(Offset(buf0, bufs, Len(bufs) + 1)) \o m \o Masked(buf0, m, 0),
         bufs |-> [i \in DOMAIN bufs |->
                     IF i < stop THEN Masked(bufs[i], m, Offset(buf0, bufs, i)) ELSE bufs[i]],
         mask |-> m]
  IN  IF mask[1] = 0 THEN frame(fresh, Len(bufs) + 1) ELSE frame(mask, Least(3, Len(bufs)))

unmaskData(buf0, bufs, mask) ==
  [i \in DOMAIN bufs |-> Masked(bufs[i], mask, Offset(buf0, bufs, i))]

\* WebSocket_putdatas.  The buffers are the caller's: they stay masked when
\* the write is interrupted, and the mask is handed back.
putdatas(s, c, buf0, bufs, mask, o) ==
  LET plain(w) == [s |-> w.s, rc |-> w.rc, bufs |-> bufs, mask |-> mask]
      written(w, f) ==
        IF w.rc = INTERRUPTED
        THEN [s |-> w.s, rc |-> w.rc, bufs |-> f.bufs, mask |-> f.mask]
        ELSE [s |-> w.s, rc |-> w.rc, bufs |-> unmaskData(buf0, f.bufs, f.mask), mask |-> NoMask]
      framed(t, f) == written(Socket_putdatas(t, c, <<f.buf0>> \o f.bufs), f)
  IN  IF ~s.ws[c] THEN plain(Socket_putdatas(s, c, <<buf0>> \o bufs))
      ELSE framed(IF mask = NoMask THEN s ELSE [s EXCEPT !.remasked = @ \cup {c}],
                  buildFrame(OP_BINARY, buf0, bufs, mask, o.fresh))

\* WebSocket_pong: whatever the write did, the frame's header is freed here
\* and its data by the caller, so the rest of a pending write is undefined.
pong(s, c, data, o) ==
  LET written(w) ==
        IF w.rc # INTERRUPTED THEN w.s
        ELSE [w.s EXCEPT !.writes[c].iovecs = [i \in DOMAIN @ |-> [j \in DOMAIN @[i] |-> Undefined]],
                         !.freed = @ \cup {c}]
      framed(f) == written(Socket_putdatas(s, c, <<f.buf0>> \o f.bufs))
  IN  framed(buildFrame(OP_PONG, <<>>, <<data>>, NoMask, o.fresh))

-----------------------------------------------------------------------------
(* WebSocket_receiveFrame: o.u is the uninitialised rcs. *)

NoFrame == [data |-> <<>>, pos |-> -1]

\* The frame that is being put together is the one in the list, if there is
\* one; otherwise it is in a local variable, and gone at an early exit.
leave(s, rc, res) ==
  LET t == IF s.frames = <<>> /\ res # NoFrame THEN [s EXCEPT !.lost = TRUE] ELSE s
  IN  [s |-> IF rc = INTERRUPTED THEN rewindData(t) ELSE t, rc |-> rc]

\* The frame was freed, and the list may still hold it.
freeFrame(s) ==
  IF s.frames = <<>> THEN s
  ELSE [s EXCEPT !.frames = <<[data |-> <<>>, pos |-> 0]>>, !.lost = TRUE]

Extended(res, data) ==
  [data |-> res.data \o data, pos |-> IF res = NoFrame THEN 0 ELSE res.pos]

\* h: the first two bytes, e: the length, p: the data, z: the buffer is empty.
RECURSIVE receiveFrames(_, _, _, _, _)
receiveFrames(s, c, res, opcode, o) ==
  LET opOf(h) == IF h.data[1] % 16 # 0 THEN h.data[1] % 16 ELSE opcode
      control(gone, data, op) ==
        CASE op = OP_PING  -> receiveFrames(pong(gone, c, data, o), c, NoFrame, op, o)
          [] op = OP_PONG  -> receiveFrames(gone, c, NoFrame, op, o)
          [] op = OP_CLOSE -> [s |-> [gone EXCEPT !.ws[c] = FALSE], rc |-> SOCKET_ERROR]
      handle(h, z, res2, op) ==
        IF z.rc = SOCKET_ERROR THEN leave(z.s, SOCKET_ERROR, res2)
        ELSE IF h.data[1] < 128 THEN receiveFrames(z.s, c, res2, op, o)
        ELSE IF op \in {OP_PING, OP_PONG, OP_CLOSE} THEN control(freeFrame(z.s), res2.data, op)
        ELSE [s |-> [z.s EXCEPT !.frames = <<res2>>], rc |-> COMPLETE]
      extend(h, p, res2) ==
        handle(h, getRawSocketData(IF p.s.frames = <<>> THEN p.s ELSE [p.s EXCEPT !.frames = <<res2>>],
                                   c, 0, p.rc),
               res2, opOf(h))
      payload(h, p, len) ==
        IF p.rc = SOCKET_ERROR \/ p.null THEN leave(p.s, SOCKET_ERROR, res)
        ELSE IF Len(p.data) < len THEN leave(p.s, INTERRUPTED, res)
        ELSE extend(h, p, Extended(res, p.data))
      ofLength(h, e, len) == payload(h, getRawSocketData(e.s, c, len, e.rc), len)
      length(h, e) ==
        IF e.rc = SOCKET_ERROR \/ e.null THEN leave(e.s, SOCKET_ERROR, res)
        ELSE IF Len(e.data) < 2 THEN leave(e.s, INTERRUPTED, res)
        ELSE ofLength(h, e, e.data[1] * 256 + e.data[2])
      header(h) ==
        IF h.rc = SOCKET_ERROR THEN leave(h.s, SOCKET_ERROR, res)
        ELSE IF h.null \/ Len(h.data) < 2 THEN leave(h.s, INTERRUPTED, res)
        ELSE IF opOf(h) > OP_PONG \/ (opOf(h) > OP_BINARY /\ opOf(h) < OP_CLOSE)
             THEN leave(h.s, SOCKET_ERROR, res)
        ELSE length(h, IF h.data[2] % 128 = Len7 THEN getRawSocketData(h.s, c, 2, h.rc)
                       ELSE [h EXCEPT !.data = <<0, h.data[2] % 128>>, !.null = FALSE])
  IN  header(getRawSocketData(s, c, 2, o.u))

receiveFrame(s, c, o) ==
  receiveFrames(s, c, IF s.frames = <<>> THEN NoFrame ELSE s.frames[1], OP_BINARY, o)

-----------------------------------------------------------------------------
(* What MQTTPacket_Factory reads with. *)

Unread(s) == s.frames # <<>> /\ Len(s.frames[1].data) > s.frames[1].pos

getch(s, c, o) ==
  LET next(t, f) == [s |-> [t EXCEPT !.frames[1].pos = @ + 1], rc |-> COMPLETE,
                     c |-> f.data[f.pos + 1]]
      received(r) ==
        IF r.rc # COMPLETE \/ ~Unread(r.s) THEN [s |-> r.s, rc |-> r.rc, c |-> Undefined]
        ELSE next(r.s, r.s.frames[1])
  IN  IF ~s.ws[c] THEN Socket_getch(s, c)
      ELSE received(IF Unread(s) THEN [s |-> s, rc |-> COMPLETE] ELSE receiveFrame(s, c, o))

framePos(s) == IF s.frames = <<>> THEN 0 ELSE s.frames[1].pos

\* Mutant: the frame is left where the interrupted packet stopped.
framePosSeekToNot(s, pos) == s

framePosSeekTo(s, pos) == IF s.frames = <<>> THEN s ELSE [s EXCEPT !.frames[1].pos = pos]

\* The loop of WebSocket_getdata: frames are appended until there is enough.
RECURSIVE enough(_, _, _, _)
enough(s, c, bytes, o) ==
  LET have == From(s.frames[1].data, s.frames[1].pos + 1)
      received(r) == IF r.rc # COMPLETE THEN [s |-> r.s, data |-> have, null |-> FALSE]
                     ELSE enough(r.s, c, bytes, o)
  IN  IF Len(have) < bytes THEN received(receiveFrame(s, c, o))
      ELSE [s |-> IF Len(have) > bytes THEN [s EXCEPT !.frames[1].pos = @ + bytes]
                  ELSE [s EXCEPT !.frames = <<>>],
            data |-> SubSeq(have, 1, bytes), null |-> FALSE]

\* WebSocket_getdata; an error while the rest of a packet is read shows as data
\* that is too short.
getdata(s, c, bytes, o) ==
  IF ~s.ws[c] THEN Socket_getdata(s, c, bytes, 0)
  ELSE IF bytes = 0
  THEN [s |-> IF s.frames # <<>> /\ ~Unread(s) THEN [s EXCEPT !.frames = <<>>] ELSE s,
        data |-> <<>>, null |-> FALSE]
  ELSE LET received(r) == IF r.rc = COMPLETE THEN enough(r.s, c, bytes, o)
                          ELSE [s |-> r.s, data |-> <<>>, null |-> TRUE]
       IN  received(IF s.frames # <<>> THEN [s |-> s, rc |-> COMPLETE] ELSE receiveFrame(s, c, o))

-----------------------------------------------------------------------------
(* WebSocket_upgrade: the server's answer to the handshake.  The symbols    *)
(* stand for the first line (LineLen of them), for a header that confirms  *)
(* the key, for any other header, and for the empty line at the end.       *)

HttpLine   == [i \in 1..LineLen |-> 300 + i]
Refusal    == [HttpLine EXCEPT ![LineLen] = 399]
AcceptLine == 400
OtherLine  == 401
EmptyLine  == 402

\* 1: upgraded.  A first line that is cut short answers with the number of
\* bytes that were read, which the callers take for success.
upgrade(s, c) ==
  LET done(z) == [s |-> z.s, rc |-> z.rc]
      answered(h, ok) ==
        done(getRawSocketData([h.s EXCEPT !.ws[c] = ok], c, 0, IF ok THEN 1 ELSE SOCKET_ERROR))
      headers(h) ==
        IF h.rc = SOCKET_ERROR \/ (h.data # <<>> /\ Last(h.data) # EmptyLine)
        THEN [s |-> h.s, rc |-> SOCKET_ERROR]
        ELSE answered(h, \E i \in DOMAIN h.data : h.data[i] = AcceptLine)
      firstLine(l) ==
        IF l.rc = SOCKET_ERROR \/ l.data = Refusal THEN [s |-> l.s, rc |-> SOCKET_ERROR]
        ELSE IF l.null \/ Len(l.data) < LineLen \/ l.data # HttpLine THEN [s |-> l.s, rc |-> l.rc]
        ELSE headers(getRawSocketData(l.s, c, ResponseMax, l.rc))
  IN  firstLine(getRawSocketData(s, c, LineLen, INTERRUPTED))
=============================================================================
