----------------------------- MODULE MCDispatch -----------------------------
(***************************************************************************)
(* Dispatch with three built-in topics and one topic nobody handles, for   *)
(* every [TOPIC] section whose values are at the boundaries of the code.   *)
(***************************************************************************)
EXTENDS Dispatch

CONSTANTS t1, t2, t3, other

MCTable == <<t1, t2, t3>>
MCForeign == {other}

\* DEFAULT 2 is neither of the two accepted values; NUM 0 is "not given", 2
\* cuts the table short, 4 exceeds it and -1 is malformed; an entry of 2 is
\* not an enabling one.
MCConfigs ==
    [DEFAULT : {0, 1, 2},
     NUM     : {-1, 0, 2, 4},
     entry   : [1..3 -> {0, 1, 2, Absent}]]

=============================================================================
