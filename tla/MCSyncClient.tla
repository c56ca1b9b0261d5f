---------------------------- MODULE MCSyncClient ----------------------------
(* Scenarios for SyncClient. *)
EXTENDS SyncClient

Scenario(a, b) ==
    [progs |-> [a |-> a, b |-> b], callbacks |-> TRUE, reconnects |-> TRUE, cleansession |-> FALSE,
     websocket |-> FALSE, version |-> 4, incoming |-> 0, losses |-> 1, interrupts |-> 0]

NoCallbacks(s) == [s EXCEPT !.callbacks = FALSE, !.reconnects = FALSE]

\* One thread subscribes and another unsubscribes, on one connection.
TwoAsk == [Scenario(<<"connect", "SUBSCRIBE">>, <<"UNSUBSCRIBE">>) EXCEPT
              !.losses = 0, !.reconnects = FALSE]

MCScenarios ==
    { TwoAsk,
      \* the connection is lost and renewed under a subscriber
      Scenario(<<"connect", "SUBSCRIBE">>, <<>>),
      \* one request after another
      [Scenario(<<"connect", "SUBSCRIBE", "SUBSCRIBE">>, <<>>) EXCEPT !.reconnects = FALSE],
      \* a session kept across a loss, with a partial write
      [Scenario(<<"connect", "publish", "publish", "wait">>, <<>>) EXCEPT !.interrupts = 1],
      \* a connection lost again before its messages in flight have been sent again
      [Scenario(<<"connect", "publish", "connect">>, <<>>) EXCEPT !.losses = 2, !.reconnects = FALSE],
      \* a disconnect while another thread connects or publishes; version 3 after 4
      [Scenario(<<"connect", "publish">>, <<"disconnect">>) EXCEPT
          !.version = 0, !.cleansession = TRUE, !.reconnects = FALSE],
      \* a WebSocket, and a message for the callback
      [Scenario(<<"connect", "disconnect">>, <<>>) EXCEPT
          !.websocket = TRUE, !.incoming = 1, !.reconnects = FALSE],
      \* without callbacks the caller reads the socket
      [NoCallbacks(Scenario(<<"connect", "SUBSCRIBE", "receive", "disconnect">>, <<>>)) EXCEPT
          !.incoming = 1, !.interrupts = 1],
      [NoCallbacks(Scenario(<<"connect", "publish", "publish", "wait", "disconnect">>, <<>>)) EXCEPT
          !.websocket = TRUE, !.interrupts = 1],
      \* and meets the connection another thread has renewed
      NoCallbacks(Scenario(<<"connect", "publish", "wait">>, <<"disconnect", "connect">>)),
      NoCallbacks(Scenario(<<"connect", "receive">>, <<"disconnect", "connect">>)) }

=============================================================================
