---------------------------- MODULE SocketBuffer ----------------------------
(***************************************************************************)
(* Reading and writing the non-blocking sockets of the MQTT library:       *)
(* SocketBuffer.c, which keeps what an interrupted read or write has left, *)
(* and the parts of Socket.c that call it.  Every operator takes a record  *)
(* s, the state of the module, and answers with a record that holds the    *)
(* new state and what the C function returns.                              *)
(*                                                                         *)
(*   s.net      per socket: the bytes that arrived and are not read, how   *)
(*              the connection is ("open", "eof", "reset", "closed"), the  *)
(*              bytes that went out, and the space the kernel has for more *)
(*   s.def      def_queue;  s.queues  the list queues, by socket           *)
(*   s.writes   the list writes (with mod_s.write_pending), by socket      *)
(***************************************************************************)
EXTENDS Integers, Sequences, SequencesExt

COMPLETE     == 0       \* TCPSOCKET_COMPLETE, SOCKETBUFFER_COMPLETE
SOCKET_ERROR == -1
INTERRUPTED  == -22     \* TCPSOCKET_INTERRUPTED, SOCKETBUFFER_INTERRUPTED
EAGAIN       == 11
ECONNRESET   == 104
Undefined    == -999    \* a byte nobody has written

Least(a, b) == IF a < b THEN a ELSE b
From(q, i)  == SubSeq(q, i, Len(q))
Drop(f, c)  == [x \in DOMAIN f \ {c} |-> f[x]]
With(f, c, v) == [x \in DOMAIN f \cup {c} |-> IF x = c THEN v ELSE f[x]]

-----------------------------------------------------------------------------
(* The kernel, as the library uses it. *)

\* recv: at most n of the bytes that arrived; 0 at the end of the stream;
\* otherwise -1 with errno EAGAIN or ECONNRESET (which is reported once).
recv(s, c, n) ==
  LET a == s.net[c].in
      k == Least(n, Len(a))
  IN  CASE a # <<>> -> [s |-> [s EXCEPT !.net[c].in = From(a, k + 1)], rc |-> k,
                        data |-> SubSeq(a, 1, k), errno |-> 0]
        [] a = <<>> /\ s.net[c].how = "eof" ->
             [s |-> s, rc |-> 0, data |-> <<>>, errno |-> 0]
        [] a = <<>> /\ s.net[c].how = "reset" ->
             [s |-> [s EXCEPT !.net[c].how = "eof"], rc |-> SOCKET_ERROR, data |-> <<>>,
              errno |-> ECONNRESET]
        [] OTHER -> [s |-> s, rc |-> SOCKET_ERROR, data |-> <<>>, errno |-> EAGAIN]

\* writev: the kernel takes as many of the bytes b as it has space for (none:
\* EAGAIN).  A connection that is not open answers with an error.
Socket_writev(s, c, b) ==
  LET k == Least(s.net[c].space, Len(b))
  IN  IF s.net[c].how # "open" THEN [s |-> s, rc |-> SOCKET_ERROR, bytes |-> 0]
      ELSE [s |-> [s EXCEPT !.net[c].out = @ \o SubSeq(b, 1, k), !.net[c].space = @ - k],
            rc |-> IF k = 0 /\ b # <<>> THEN INTERRUPTED ELSE k,
            bytes |-> k]

-----------------------------------------------------------------------------
(* SocketBuffer.c: reading. *)

newDefQ == [socket |-> 0, index |-> 0, header |-> <<>>, data |-> <<>>, buflen |-> 0]

Queued(s, c) == c \in DOMAIN s.queues

emptied(q) == [q EXCEPT !.socket = 0, !.index = 0, !.header = <<>>, !.data = <<>>]

\* The queue to read into and the data it already holds.  A queue that holds
\* data and is too small is replaced by one whose content is undefined: the
\* old buffer is freed before it is copied.
getQueuedData(s, c, bytes) ==
  LET grown(q) == IF bytes <= q.buflen THEN q
                  ELSE [q EXCEPT !.buflen = bytes, !.data = [i \in DOMAIN @ |-> Undefined]]
  IN  IF Queued(s, c)
      THEN LET q == grown(s.queues[c])
           IN  [s |-> [s EXCEPT !.queues[c] = q], data |-> q.data]
      ELSE [s |-> [s EXCEPT !.def = grown(@)], data |-> <<>>]

getQueuedChar(s, c) ==
  IF ~Queued(s, c) THEN [s |-> s, rc |-> INTERRUPTED, c |-> Undefined]
  ELSE LET q == s.queues[c]
       IN  IF q.index < Len(q.header)
           THEN [s |-> [s EXCEPT !.queues[c].index = @ + 1], rc |-> COMPLETE,
                 c |-> q.header[q.index + 1]]
           ELSE [s |-> s, rc |-> IF q.index > 4 THEN SOCKET_ERROR ELSE INTERRUPTED,
                 c |-> Undefined]

\* A read was interrupted after data: the default queue becomes the socket's.
interrupted(s, c, data) ==
  LET t == IF Queued(s, c) THEN s
           ELSE [s EXCEPT !.queues = With(@, c, [s.def EXCEPT !.socket = c]), !.def = newDefQ]
  IN  [t EXCEPT !.queues[c].index = 0, !.queues[c].data = data]

\* A read is complete: the socket's queue is the default queue again.
complete(s, c) ==
  IF Queued(s, c)
  THEN [s EXCEPT !.def = emptied(s.queues[c]), !.queues = Drop(@, c)]
  ELSE [s EXCEPT !.def = emptied(@)]

queueChar(s, c, ch) ==
  LET push(q) == IF q.index > 4 THEN q
                 ELSE [q EXCEPT !.header = Append(SubSeq(@, 1, q.index), ch), !.index = @ + 1]
      first(q) == [q EXCEPT !.socket = c, !.index = 0, !.data = <<>>]
  IN  CASE Queued(s, c) -> [s EXCEPT !.queues[c] = push(@)]
        [] ~Queued(s, c) /\ s.def.socket = 0 -> [s EXCEPT !.def = push(first(@))]
        [] ~Queued(s, c) /\ s.def.socket = c -> [s EXCEPT !.def = push(@)]
        [] OTHER -> s        \* "attempt to reuse socket queue"

\* Mutant: what an interrupted read has left is kept when the socket is closed.
cleanupWritesOnly(s, c) == [s EXCEPT !.writes = Drop(@, c)]

cleanup(s, c) ==
  [s EXCEPT !.writes = Drop(@, c), !.queues = Drop(@, c),
            !.def = IF @.socket = c THEN emptied(@) ELSE @]

\* q: the character from the queue, if there is one; r: one read from the socket.
Socket_getch(s, c) ==
  LET char(q, r) ==
        CASE q.rc # INTERRUPTED -> q
          [] q.rc = INTERRUPTED /\ r.rc = 1 ->
               [s |-> queueChar(r.s, c, r.data[1]), rc |-> COMPLETE, c |-> r.data[1]]
          [] q.rc = INTERRUPTED /\ r.errno = EAGAIN ->
               [s |-> interrupted(r.s, c, <<>>), rc |-> INTERRUPTED, c |-> Undefined]
          [] OTHER -> [s |-> r.s, rc |-> SOCKET_ERROR, c |-> Undefined]
  IN  char(getQueuedChar(s, c), recv(s, c, 1))

\* null: the NULL pointer is returned; rc is what *rc holds afterwards (rc0 if
\* the function does not set it).
Socket_getdata(s, c, bytes, rc0) ==
  IF bytes = 0 THEN [s |-> complete(s, c), rc |-> rc0, data |-> <<>>, null |-> FALSE]
  ELSE LET result(old, t, d, rc) ==
             CASE rc \in {0, ECONNRESET} -> [s |-> t, rc |-> rc, data |-> old, null |-> TRUE]
               [] rc \notin {0, ECONNRESET} /\ Len(d) = bytes ->
                    [s |-> complete(t, c), rc |-> rc, data |-> d, null |-> FALSE]
               [] OTHER -> [s |-> interrupted(t, c, d), rc |-> rc, data |-> d, null |-> FALSE]
           read(old, r) ==
             result(old, r.s, old \o r.data, IF r.rc = SOCKET_ERROR THEN r.errno ELSE r.rc)
           queued(q) == read(q.data, recv(q.s, c, bytes - Len(q.data)))
       IN  queued(getQueuedData(s, c, bytes))

-----------------------------------------------------------------------------
(* Writing: Socket_putdatas and what it leaves to Socket_continueWrites. *)

noPendingWrites(s, c) == c \notin DOMAIN s.writes

\* One writev of all the buffers; what the kernel does not take is pending.
Socket_putdatas(s, c, bufs) ==
  LET written(w, total) ==
        CASE w.rc = SOCKET_ERROR -> [s |-> w.s, rc |-> SOCKET_ERROR]
          [] w.rc # SOCKET_ERROR /\ w.bytes = total -> [s |-> w.s, rc |-> COMPLETE]
          [] OTHER -> [s |-> [w.s EXCEPT !.writes = With(@, c, [iovecs |-> bufs, bytes |-> w.bytes])],
                       rc |-> INTERRUPTED]
  IN  IF ~noPendingWrites(s, c) THEN [s |-> s, rc |-> SOCKET_ERROR]
      ELSE written(Socket_writev(s, c, FlattenSeq(bufs)), Len(FlattenSeq(bufs)))

\* Mutant: the rest of the cut buffer and, again, the buffers from its start.
remainingFromBuffer(pw) ==
  LET start(i) == Len(FlattenSeq(SubSeq(pw.iovecs, 1, i - 1)))
      open  == {i \in DOMAIN pw.iovecs : pw.bytes < start(i) + Len(pw.iovecs[i])}
  IN  FlattenSeq([i \in DOMAIN pw.iovecs |-> IF i \in open THEN pw.iovecs[i] ELSE <<>>])

\* The buffers Socket_continueWrite hands to writev: every buffer that begins
\* at or after what was written, or the rest of the one that was cut, alone.
remaining(pw) ==
  LET start(i) == Len(FlattenSeq(SubSeq(pw.iovecs, 1, i - 1)))
      cut   == {i \in DOMAIN pw.iovecs : /\ start(i) < pw.bytes
                                         /\ pw.bytes < start(i) + Len(pw.iovecs[i])}
      whole == {i \in DOMAIN pw.iovecs : pw.bytes <= start(i)}
  IN  IF cut # {}
      THEN LET i == CHOOSE i \in cut : TRUE
           IN  From(pw.iovecs[i], pw.bytes - start(i) + 1)
      ELSE FlattenSeq(SelectSeq([i \in DOMAIN pw.iovecs |->
                                   IF i \in whole THEN pw.iovecs[i] ELSE <<>>],
                                LAMBDA b : b # <<>>))

\* 1: complete, 0: not yet, -1: the write is given up.
Socket_continueWrite(s, c) ==
  LET written(w, n, done) ==
        IF w.rc = SOCKET_ERROR \/ done
        THEN [s |-> [w.s EXCEPT !.writes = Drop(@, c)], rc |-> IF done THEN 1 ELSE SOCKET_ERROR]
        ELSE [s |-> [w.s EXCEPT !.writes[c].bytes = n], rc |-> 0]
      more(w, pw) == written(w, pw.bytes + w.bytes, pw.bytes + w.bytes = Len(FlattenSeq(pw.iovecs)))
  IN  more(Socket_writev(s, c, remaining(s.writes[c])), s.writes[c])

\* Socket_close: the kernel's side of the connection is gone with it.
Socket_close(s, c) ==
  [cleanup(s, c) EXCEPT !.net[c] = [in |-> <<>>, how |-> "closed", out |-> <<>>, space |-> 0]]
=============================================================================
