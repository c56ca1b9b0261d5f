# A verification of cmqtt

cmqtt is a service that subscribes to MQTT topics and passes every message to the
handler of its topic. It consists of its own code (`src/core`, `src/lib`, `src/src`) and
the MQTT client library it ships and links (`src/paho.mqtt.c`). This directory holds TLA+
models of both, the TLC runs that check them on small instances, and TLAPS proofs of the
most important properties for all values of the constants.

## The system

| part | module |
|---|---|
| topic table, dispatch of messages, statistics (`core/regfunc.c`, `core/handle.c`) | `Dispatch` |
| MQTT session of the application (`core/mqtta.c`, `core/core.c`) | `Cmqtt`, callbacks in `AsyncClient` |
| asynchronous client: commands, connection, subscriptions (`MQTTAsync.c`) | `AsyncClient` |
| asynchronous client: publishing, QoS handshakes, persistence (`MQTTAsync.c`, `MQTTProtocolClient.c`, `MQTTPersistence.c`, `MQTTPersistenceDefault.c`) | `Delivery`, its promise in `DeliverySpec` |
| synchronous client (`MQTTClient.c`, `Thread.c`) | `SyncClient` |
| sockets and WebSockets (`Socket.c`, `SocketBuffer.c`, `WebSocket.c`) | `SocketBuffer`, `WebSocket`, composed in `Wire` |
| packets, properties, UTF-8, addresses (`MQTTPacket.c`, `MQTTPacketOut.c`, `MQTTProperties.c`, `utf-8.c`, `Base64.c`, `MQTTProtocolOut.c`) | `Encoding`, `Packets`, `Text`, composed in `Codec` |
| lists, red/black tree, heap tracking (`LinkedList.c`, `Tree.c`, `Heap.c`) | `LinkedList`, `Tree`, composed in `Containers`; their promise in `ListSpec` |
| one instance per program, settings, threads (`src/main.c`, `lib/init.c`) | `InstanceLock`, `IniFile`, composed in `Main` |
| time thread and heartbeat (`lib/decode.c`) | `Heartbeat`, composed in `Main` |
| database access (`lib/mysql.sdk.c`) | `SqlRetry` |

How they interact. `main` takes the lock, reads its settings and starts the time thread
and the Hall thread. Hall creates the asynchronous client, asks it to connect, sleeps,
asserts that it is connected, loads the topic table and subscribes to its topics through
the library. The library's send thread takes commands from a queue; its receive thread
selects a socket, reads a packet and handles it, and calls cmqtt's callbacks: a message
goes to `decode_msg_handle`, every failure or loss of the connection to
`myReconnctMQTT`, which sleeps and connects again. Callbacks run with `mqttasync_mutex`
held. Below that are the protocol handshakes, the socket buffers and the packet codecs,
and below all of them the lists and the tracked heap. The synchronous client is the other
interface of the library to the same lower layers.

What is hard here:

* The receive thread holds no lock between `select`, reading and handling, and finds the
  client again by its socket number, which the system may have handed out again.
* Both library threads, the callbacks and the application add commands; CONNECT and
  DISCONNECT jump the queue.
* The connection may be refused, reset or lost silently at any moment, also while an
  earlier failure is being handled; reconnecting depends on every such path ending in a
  callback.
* A message is in up to three places (command, message in flight, file), and a crash
  falls between any two file operations. Message ids wrap while older ones are in use.
* All calls of the synchronous client share one answer field, `m->pack`, and one
  semaphore per kind of answer; a wait may be given up and its answer come later.
* Reads and writes are cut anywhere, and what is left is kept in lists and static buffers.
* The topic table and the counters are shared by two threads without a lock. That it is
  safe rests on the order of `core_init` and on the clean session.
* The program synchronises with `sleep`: the assertion after connecting, the time thread
  and the heartbeat.
* A statement is sent to the database again after a failure.

`PROJECT.json` lists these as hazards at their lines, with the properties that would
catch them going wrong.

## The modules

**Dispatch.** One variable per piece of shared state. Hall's actions are `initTopicConf`
(or `initTopicConfExit` when the table cannot be allocated), `regTopic`/`regDone`, and
`statsTotal`, `statsRow`, `statsDone`: one step per read of a shared counter, since
`print_stats` takes no lock. The receive thread's are `recvMsg` (the counter, and taking
the table into the cache) and `dispatchMsg` (the cached entry, then the search, then the
handler or the warning). `recvMsgNoDb` is the `exit` of `mysqlConnetInit` when the
database cannot be reached at the first message. A configuration is what `atoi` makes of
`[TOPIC]`.

**AsyncClient.** The library for one client, one `tcp://` server, a clean session, no
persistence, no automatic reconnect: what cmqtt asks of it. Each action is a stretch of
code that runs under one lock. Send thread: `processCommand` (CONNECT, SUBSCRIBE, internal
DISCONNECT with their error paths) and `checkTimeouts`. Receive thread: `select`,
`cycle...` (reading), `handle...`. A callback that sleeps or calls back is a value of
`callback`; while it is set only steps that need no mutex are possible, and `reconnected`
ends it. The network and the broker are external: they answer in order on a connection,
may refuse a CONNECT, and fail at most `MaxFaults` times. `Fds` is the set of socket
numbers; a closed one is reused.

**Cmqtt.** Start-up of Hall composed with the two modules above: shared actions are
conjunctions (`my_subsribe_topic` is `regTopic` together with `subscribeMany`,
`my_mqqta_recvmsg` is `cyclePublish` together with `recvMsg`). `ImplementsClient` and
`ImplementsDispatch` state that the composition implements each part.

**Delivery.** A handler touches three things that outlive the process: the files, the
bytes handed to the network and the messages handed to the application. Each handler is
modelled as its trail, the sequence of these "worlds" it goes through. Normally the last
one is reached; a crash stops at any of them, and leaves a file that was opened and not
yet written torn. Where the code reads memory it has freed (the number of the oldest
command, which `MQTTAsync_addCommand` deletes from a full buffer) or never written (the array
in which `MQTTAsync_insertInOrder` looks for the place of a command), the model chooses any
outcome (`Freed`, `CommandOrders`). A scenario says which messages go each way, at which QoS, with which
options. The broker follows the standard; it may mark a repeated PUBREL or not
(`relDup`). `ImplementsDelivery` maps all this to `DeliverySpec`, exactly-once and
at-least-once delivery up to one message a crash.

**SyncClient.** The calls of `MQTTClient.c` made by two application threads, the thread
`connectionLost_call` runs on (where the application may connect again), and the
background thread `MQTTClient_run`. What a thread does while it holds `mqttclient_mutex` is one step,
written as a function of the whole state; the other steps are those the code takes without it: waiting on a semaphore, reading
`m->pack` after the wait, selecting a socket, callbacks, and what `MQTTClient_waitfor`,
`MQTTClient_receive` and `MQTTClient_yield` do after `MQTTClient_cycle` has given the mutex up
(`waitTurn`, `received`, `yieldError`). `connect` is only called on a client that is not
connected: the code leaves that to its caller. Three history fields tell when the
guarantees stop: `faults.given` (a wait was given up), `faults.overlap` (two calls waited
at the same time) and `client.crossed` (a step meant for one connection met another, a
semaphore was posted for nobody, or a `MQTTClient_receive` dropped an answer beside the
background thread).

**SocketBuffer, WebSocket, Wire.** The first two are operators on the state of the C files;
`Wire` is the state machine in which two connections of one process, plain or WebSocket,
are opened, cut, lost and opened again, with `MQTTPacket_Factory` reading and
`MQTTPacket_send(s)` writing through them.

**Encoding, Packets, Text, Codec.** Operators that put packets together and take them
apart, byte by byte since the properties are about bytes; `Codec` runs them on enumerated
inputs against a reference (`Standard`, `Spoken`, `Unicode`) written from the MQTT and
Unicode standards. Base64, the UTF-8 ranges and the server and proxy addresses are there too,
up to the header in which the proxy gets the credentials. The broker's packets keep to the
standard. What the code does with others is translated (the length of the properties wraps, those of a
short CONNACK stay `Uninitialised`) but not reached.

**LinkedList, Tree, Containers.** The list and the red/black tree with their pointers.
`Containers` is one list whose blocks are tracked in the tree of `Heap.c`, so every list
operation is also insertions into and removals from the tree; `ImplementsSequence` maps it to
`ListSpec`, a sequence with contents owned by the list or by its caller.

**InstanceLock, IniFile, Heartbeat, Main.** In the lock `open`, `tryLockPidFile`,
`truncate` and `writePid` are separate steps, and a process may end between any two of
them. `GetInitKey` goes line by line; the text before a `=` is a sequence of characters,
because the code searches for the key inside it. Nothing but time ties `pthTime` and `Hall`
together, so `Heartbeat` has time in it: `tick` passes unless a thread is due, `Late`
bounds how late a sleeping thread wakes up, `Work` how long the handlers take, `setBack` sets
the system clock back. `core_heart`, a stub that Hall calls before `core_heart_1s`, takes no
time of its own. `Main` composes them: the process takes the lock, looks its
settings up, starts the two threads with what it found, and is killed and started again at
any point.

**SqlRetry.** `excuteSql` in four steps: `call`, `firstQuery`, `reopen`, `again`. The
server may stop, start, close the connection, or lose the answer of a statement it has
executed or not. The MySQL client library is external, modelled by the results
`excuteSql` tells apart: 0, or 1 with an error text.

The `MC...` modules give values to the constants. The operators that `PROJECT.json` lists as
mutants (`addCommandAtEnd`, `closeSessionCleaning`, ...) are deliberately wrong forms of
the definition that follows them. No specification uses them; each is paired with a property
that must fail when it takes the definition's place.

## The runs

Ten runs pass:

| run | shows |
|---|---|
| `dispatch` | Every `[TOPIC]` section with values at the boundaries of the code, three topics, a foreign one, three messages: messages reach the right handler only (`RightHandler`), the table is what the section says (`LoadedInOrder`), the unlocked statistics are off by a bounded amount (`StatsLag`) |
| `client` | Two failures, two socket numbers, a `connect()` that may complete at once: at most one CONNECT and one DISCONNECT are queued, ahead of every SUBSCRIBE (`QueueDiscipline`); no id is used twice (`TokensUnique`); a SUBACK of a closed connection completes nothing (`StaleSubackHarmless`); a client without a connection always has a CONNECT coming (`NeverGivesUp`) |
| `program` | The composition implements its parts (`ImplementsClient`, `ImplementsDispatch`); unless something fails, all topics end up subscribed to and all messages decoded (`SubscribedUnlessFailure`, `EveryMessageDecoded`); after two failures anywhere the client ends up connected (`ConnectedForGood`) |
| `sql` | Three calls, three failures: no statement is executed twice (`AtMostOnce`), and a call nothing disturbs succeeds on whatever earlier calls left (`HealsItself`) |
| `main` | Three processes of two programs, files of up to three lines, three seconds: `OneInstance`, `FindsTheKey`, and a heartbeat for every second in time (`NeverTwoSeconds`, `NoSecondSkipped`) |
| `delivery` | Two crashes between any two file operations, a lost connection, a partial write, a refused message, in eleven scenes: `ImplementsDelivery`; a crash loses at most one accepted message (`LossIsBounded`); `MQTTAsync_isComplete` is true but for one message a crash (`CompleteIsTrue`); nothing is left half done on a quiet connection (`ForgottenOnlyIfInterrupted`); a restart resends in the order of sending (`RestoredInOrder`) |
| `containers` | Every sequence of operations on seven addresses with one failing reallocation: `TreeIsRedBlack`, `NothingLeaks`, `ImplementsSequence` |
| `sync` | Eleven scenarios of two threads: a subscribe reads its own answer (`AnswersMatch`), connected means accepted (`ConnectionIsReal`), no waiting thread misses its answer (`AnswerNotLost`), a completed message is with the broker (`CompletionIsTrue`), every call returns (`CallsReturn`) |
| `wire` | Twelve scenarios of streams and writes cut anywhere: packets arrive whole and in order both ways (`WhatArrivesWasSent`, `WhatIsReadWasAsked`), a message kept for retransmission can be had back (`KeptIntact`), nothing gets stuck (`EverythingGetsThrough`) |
| `codec` | Packets, with their fixed header, against the standard in both directions (`BrokerUnderstands`, `ClientUnderstands`), UTF-8 (`UTF8Agrees`), addresses, and the credentials a proxy gets at the beginning of its header (`AddressAsWritten`, `DecodingEnds`) |

Two runs end in a counterexample. Each states what the repository says and shows that
the code does otherwise:

* `resubscribe`: after a lost connection the client reconnects with a clean session and
  nothing subscribes again. `SubscribedUnlessFailure` shows that the failure is what it
  takes.
* `boot_assert`: the assertion of `init_mqtt_client` fails when the broker takes longer
  than the sleep before it.

### Limits of the code that show in the conditions of a property

* *A CONNECT without its time* (`MQTTAsync.c:1427`). A CONNECT queued from `onConFailure`
  while the failed attempt is being cancelled gets no start time, so the attempt it starts is
  timed out at once; the one after that is timed correctly (`ConnectedForGood` includes this).
* *Reconnecting to the database* (`mysql.sdk.c:65`). Only the text "MySQL server has gone
  away" leads to a reconnect; a connection lost during a statement is reported and left. This
  is also what makes `AtMostOnce` hold: the mutant that retries on both executes twice.
* *A retransmission that is cut* (`MQTTProtocolClient.c:717`). `MQTTProtocol_retries` stops at
  the first message whose write is interrupted and is called again only after the next
  connect; until then the rest waits. `ForgottenOnlyIfInterrupted` excludes partial writes,
  and a broker that does not mark a repeated PUBREL as the library expects; so no property
  covers the waiting messages. In `SyncClient` the retransmission may be cut as well
  (`writtenAgain`).
* *One crash, one message* (`MQTTAsync.c:1920`, `MQTTPersistenceDefault.c`). The record of a
  command is removed before its PUBLISH is stored, and a file is truncated before it is
  written. The bounds of `LossIsBounded`, `CompleteIsTrue` and `DeliverySpec` are therefore
  the number of crashes, not zero.
* *A command that is freed too early* (`MQTTAsync.c:1502`). With `deleteOldestMessages` the
  oldest command is freed and its record then removed by the number read in it. If the memory
  has been used again by then, the record stays, and the deleted message is sent after a
  restart, or the record of another message is removed, which a crash then loses.
  `LossIsBounded` leaves the latter out (`app.unrecorded`).
* *Restored commands in any order* (`MQTTAsync.c:1294`). `MQTTAsync_restoreCommands` counts
  the keys it skips, and `MQTTAsync_insertInOrder` reads the entries that were not written for
  them. `RestoredInOrder` is about the messages in flight, not about the commands.
* *Two calls at once* (`MQTTClient.c:2593`). `MQTTClient_subscribe` and
  `MQTTClient_unsubscribe` have a mutex each but share `m->pack`, as does
  `MQTTClient_connect`; two of them that wait at the same time take each other's answers, an
  unread SUBACK is taken for a CONNACK, and a CONNACK nobody waited for is taken for the
  SUBACK of a later call. A `MQTTClient_receive` that began before the background thread
  reads the socket beside it and drops what it does not wait for. `AnswersMatch`,
  `ConnectionIsReal` and `AnswerNotLost` name these cases (`overlap`, `crossed`, `given`).
  TLC finds counterexamples without `overlap` and without `crossed` in longer scenarios.
* *Another connection by then* (`MQTTClient.c:2749`). A wait that has failed, or a
  `MQTTClient_yield` that met an error, closes the connection the client has when the mutex is
  taken again, which may be a new one, or one that another thread is just setting up
  (`crossed`, in the latter case).
* *A client that is connected already* (`MQTTClient.c:1674`). `MQTTClient_connect` does not look,
  and connects over the old connection. The model never does that.
* *A wait that is given up beside an answer* (`MQTTClient.c:2050`). When the time is up and
  `m->pack` holds an answer nonetheless, it is taken for the one waited for, and yet the call
  returns -1. `AnswersMatch` is about the calls that succeed.
* *A failing reallocation* (`Heap.c:339`) has already been counted and has overwritten the
  recorded address. The block is lost; `NothingLeaks` claims the size only while none is.
* *Shared frame buffers* (`WebSocket.c:158`). Received frames and the frame buffer are static
  and not reset with the connection: a second WebSocket, or a connection lost in the middle
  of a frame, mixes bytes; a PONG or CLOSE frame in the middle of a packet frees the frame that
  is being read; the answer to the upgrade must come in one piece, and `rcs` is read
  uninitialised when it does not (`WebSocket.c:1020`). `WhatArrivesWasSent` holds until then (`lib.lost`, `lib.cut`).
* *A mask that is kept* (`WebSocket.c:340`). A packet whose write was interrupted is framed
  again with the mask it was kept with, and then masked only up to the third buffer.
  `WhatIsReadWasAsked` leaves such connections out (`lib.remasked`).
* *Large integers* (`MQTTPacket.c:925`). `writeInt4` divides a signed number, so a four byte
  property from 2^31 on is written as something else. `BrokerUnderstands` leaves them out.
* *The reason of a short DISCONNECT* (`MQTTPacket.c:801`) is read as zero, although
  `MQTTAsync.h` hands it to the application. `ClientUnderstands` leaves it out.
* *A `%` without two hexadecimal digits* in the credentials of a proxy
  (`MQTTProtocolOut.c:105`) is never passed: the loop does not end. `DecodingEnds` and
  `AddressAsWritten` assume well-formed escapes.
* *Credentials without an end* (`MQTTProtocolOut.c:183`, and 218 for https). The block for the
  Base64 text has exactly `Base64_encodeLength` bytes, which `Base64.h:76` calls "the size of
  buffer the encoded string would require". `Base64_encode` writes a NUL only if room is left
  (`Base64.c:230`), so there is none, and `WebSocket_proxy_connect` prints the block with `%s`
  (`WebSocket.c:1482`): it reads beyond the block, and the header goes on with what it finds
  there. The model has the block, the missing NUL and the reader (`encodeAuth`,
  `proxyConnect`, with the bytes behind the block from `Behind`). `AddressAsWritten` therefore
  says that the header begins with the text. It ends with it only if the byte behind the
  block happens to be zero.
* *Keys of two words* (`init.c:271`). `GetInitKey` takes the entry `port exam = 777` for the
  key `port`; `KeyAssumption` has one word before every `=`.
* *A missing file* (`init.c:226`) makes "have no such file" the value of every textual
  setting. `main` and `initTopicConf` read two different paths (`regfunc.c:42`): the topics
  come from the working directory, the other settings from the directory given.
* *A clock set back.* `NeverTwoSeconds` and `NoSecondSkipped` allow for the seconds that are
  gone through twice.

### Bounds

All bounds are constants named as such, or fields of a scenario. Two failures are the
least that let one failure meet the handling of another, which is where the library's queue gets
interesting; two socket numbers let a number be reused or not. `MaxMsgId` (3 or 4) and
`MAX_MSG_ID` (3 or 5) make ids wrap, also while messages are in flight. `MaxSubs` limits the
subscriptions under way; `CmqttAssumption` makes it large enough for the table, and
`LibraryImplemented` proves that it is then never in the way. Three messages let the
dispatcher's cache hit, miss, and hit again. In `Heartbeat` a tick is 100 ms, `Word` stands
for 2^32 (only that it exceeds every time matters), and the bound on time allows several
heartbeats of every phase. Seven addresses are a list of three elements and a tree of depth
three, in which every case of the rebalancing occurs. `LengthBase` 4 and `ByteBase` 16 (128
and 256 in the code) bring the boundaries of the encodings within reach of short packets.
`Behind` is nothing, a byte, or three bytes that could be Base64 text themselves.
`Cmqtt` runs with `Immediate = FALSE`, and `AsyncClient` with `TRUE`.

The runs check for deadlock, except `delivery` and `sync`, where the application's program
comes to its end. `done`, `over`, `returned`, `Stopped` and `Finished` are the places where a
bounded behaviour or an ended process stands still.

### Fairness

`Cmqtt`: weak fairness of each thread's steps (threads that can run are scheduled and `sleep`
returns), of `checkTimeouts` (the send thread wakes up at least once a second), and of the
TCP handshake and the broker's answers. `SyncClient`: weak fairness of each thread, of the
completion of a partial write on a live connection, of the TCP handshake and of the broker's
answers; that a semaphore wait ends after its timeout is part of the thread's step. `drained`
is strongly fair: `MQTTClient_disconnect1` looks at the clock between two yields and not during
one, so the step is enabled again and again but not all the time, and in the end the look
finds the time up.
`Wire`: something happens as long as a thread or the network can do something, which is weak
fairness of `Step` with its ENABLED spelt out. `Codec`: the loop of the connecting thread
goes on. A broker that never answers is a failure; failures are bounded in number and not
fair. The broker need not publish anything.

## The proofs

| module | results |
|---|---|
| `AsyncClientProofs` | `TypeCorrect`, `QueueDisciplineHolds`, `ConnectionFieldsHold`, `NoConnectDropped`, `AlwaysReconnecting` |
| `SessionProofs` | `DeliveryNeedsNoQueue`, `StaleSubackCompletesNothing`, `OnlyAcceptedConnections`, `TokensNeverShared` |
| `DispatchProofs` | `HandlersAreRight`, `TableIsLoaded`, `StatsLagBehindOne` |
| `CmqttProofs` | `LibraryImplemented`, `DispatchImplemented`, `ProgramIsSafe` |
| `MainProofs` | `Exclusion`, `RunningIsNamed`, `HeartbeatInTime`, `EverySecond`, `MainImplementsLock`, `OneMain`, `KeyIsFound` |
| `SqlRetryProofs` | `NeverTwice`, `ReportsTruly`, `Heals` |
| `FlightProofs`, `SyncClientProofs` | `CompletionTrue` |

They hold for any topics, tables, configurations, files, sockets, ids, failures, processes,
programs and calls that meet the assumption named in each module (`ClientAssumption`,
`DispatchAssumption`, `CmqttAssumption`, `HeartbeatAssumption`, `IniAssumption`,
`KeyAssumption`, `LockAssumption`, `MainAssumption`, `SqlAssumption`, `SyncAssumption`). TLC
evaluates these in the runs.

*Types and queue.* `TypeInv` adds to the type that the queue is disciplined and that queued
and sent subscriptions name a topic, which the broker's set of topics needs.

*Reconnecting.* `NeverGivesUp` alone is not inductive. `ReconnectInv` adds that a CONNECT is
only queued while the client is idle, that the callbacks that queue one run only then, and
that nothing has happened before the first connect. Every step falls under one of three
lemmas: it leaves connection and queue as they were (`ReconnectFrame`), it ends idle with a
CONNECT queued or promised (`ReconnectIdle`), or it starts an attempt (`ReconnectBusy`).

*Sessions.* `SessionInv` says that subscriptions and messages are in transit only on an
accepted session the client knows of, and that a SUBACK of an older connection finds no
response at all: closing the session has emptied them, and the receive thread must handle
it before it can read the CONNACK that allows new ones. The same argument, in
`AcceptedInv`, shows that a CONNACK of an older connection is never taken for that of the
current one, provided that `connect()` never completes at once (`~Immediate`). The
assumption is needed: with it dropped TLC finds a counterexample, in which the new attempt is
waiting for its CONNACK when the old one is handled.

*Ids.* Closing a session starts the message ids again while commands are queued. That no two
subscriptions under way share one rests on `MQTTAsync_assignMsgId` looking at both the queue
and the responses. `TokenInv` says that the ids within each list, and across the two, differ;
every other step only moves or removes entries, which the lemmas on `Within` state once.

*Dispatch.* The table is a recursive function of the configuration, the total of the
statistics one of the counters. Induction over the numbers is done by hand: the set of
numbers for which the claim holds contains 0 and is closed under successor, first for the
existence of a function with the defining equation and then for what it returns.
`StatsLag` needs that the counters add up to the total (`CountInv`), and what the rows
printed so far have in common with the counters (`ShownInv`).

*The composition.* Two facts that neither component knows: the library has never more
subscriptions under way than `regTopicFromTable` has reached entries (`QueuedInv`), so the
bound `MaxSubs` never keeps MQTTAsync_subscribe from a step; and no message arrives before
the first subscription, or on a topic not in the table (`WireInv`), which
`decode_msg_handle` takes for granted. With them every step of the program is a step of
each component or leaves it alone, and the components' theorems carry over
(`ProgramIsSafe`).

*The process.* `LockInv` adds that whoever is past the lock is its holder; `MainImplementsLock`
maps the process with its settings and threads to the lock alone. `HeartInv` bounds how far
`timeGloble_g` lags behind the clock and by when Hall must have seen a new second, for all
durations that leave room in a second. `IniInv` relates the lines that are behind
`GetInitKey` to the entries of the section they contain; that `hits` finds a key exactly in
the entries that have it is a lemma about sequences of characters with one word in them.

*Statements.* `SqlInv` adds that nothing has been executed while a call is still going on,
and that a smooth call finds the handle open or closed, never cut.

*Messages in flight.* `CompletionIsTrue` says that a message whose id has left the list of
messages in flight is with the broker. The invariant (`Flight`, in `FlightProofs`) says that
ids in the list are distinct; that every PUBLISH on its way or half written belongs to the
list entry of its id, and is there once; that every PUBACK on its way is for an entry whose
message the broker has; and that without a connection there are none of either. `Sound` adds
what the threads remember: the token of a publish that is still going on, that its message is
in the list or has got through, and who holds `connect_mutex`. The locked sections of
`MQTTClient.c` are functions on a record of the whole state; for each there is a lemma that it
keeps the state sound, and `SyncClientProofs` has one step per action. With a clean session
the property is false, as the list is emptied with the session.

The step from the first instance to the proof was worthwhile in itself: invariants for
the other properties of `SyncClient` were tried on longer programs of the threads, where
`AnswersMatch`, `ConnectionIsReal` and `AnswerNotLost`, as they were first stated, turned out
to be false. They now name the conditions that were missing.

Only model-checked:

* liveness (`SubscribedUnlessFailure`, `EveryMessageDecoded`, `ConnectedForGood`,
  `CallsReturn`, `EverythingGetsThrough`, `DecodingEnds`), which TLAPS does not do;
* `Delivery`: its trails are folds over sequences of handlers, its bounds are cardinalities,
  and that a crash costs one message is a budget over the whole behaviour (a torn file frees an id
  that a later message gets);
* `Containers`, `Wire` and `Codec`: recursive operators and induction over data;
* `AnswersMatch`, `ConnectionIsReal` and `AnswerNotLost` of `SyncClient`.

## What is not modelled

* TLS (`SSLSocket.c` passes its data to OpenSSL, which cmqtt is built without), tracing
  (`Log.c`, `StackTrace.c`), SHA-1 (the accept key of a WebSocket is an equality of values),
  `lib/cmd.init.c` (not built).
* Of the asynchronous client: automatic reconnect, several server URIs, several clients,
  unsubscribe, `MQTTAsync_destroy`.
* Of the synchronous client: several clients, MQTT 5 calls, several server URIs, destroy.
* Will messages after they have been sent with the CONNECT, user-defined persistence.
* Packets that break the standard; failing allocations other than those of the containers and
  the topic table; errors of `select` itself; name resolution and socket options.
* Eyecatchers of the heap, trees with two indexes, WebSocket frames with a 64-bit length.
* `excuteSql2` (the same code without the log line), `initRecordLogin`, `getInternetIP`,
  `code_convert`, `RepeatRun`, `my_mqqta_sendmsg`, `my_unsubsribe_topic`, `core_stats`:
  without a caller.
* Lines longer than the buffer of `GetInitKey`; write errors and removal of the lock file.
* The ten settings of `main` that are only handed on to the MQTT and MySQL clients: each is
  the same lookup again.
