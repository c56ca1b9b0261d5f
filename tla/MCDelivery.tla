------------------------------ MODULE MCDelivery ------------------------------
(* Small scenes of Delivery for TLC. *)
EXTENDS Delivery

Scene(out, in, id) ==
    [out |-> out, in |-> in, msgID |-> id, v5 |-> FALSE, cleansession |-> FALSE,
     deleteOldest |-> FALSE, relDup |-> TRUE, retryInterval |-> FALSE, keeps |-> FALSE,
     refused |-> {}]

MCScenarios ==
    {[Scene(<<2, 1>>, <<>>, 0) EXCEPT !.retryInterval = TRUE, !.keeps = TRUE],
     Scene(<<2, 2>>, <<>>, 0), Scene(<<1, 2>>, <<>>, 4), Scene(<<2>>, <<1>>, 0)}
    \cup {[Scene(<<1, 2>>, <<>>, 0) EXCEPT !.v5 = TRUE, !.refused = {i}] : i \in 1 .. 2}
    \cup {[Scene(<<>>, <<2, 1>>, 0) EXCEPT !.v5 = b] : b \in BOOLEAN}
    \cup {[Scene(<<0, 1, 2>>, <<>>, 0) EXCEPT !.deleteOldest = TRUE]}
    \cup {[Scene(<<2>>, <<2>>, 0) EXCEPT !.cleansession = TRUE]}
    \cup {[Scene(<<>>, <<2, 0>>, 0) EXCEPT !.relDup = FALSE]}

=============================================================================
