------------------------------ MODULE MCCmqtt ------------------------------
(***************************************************************************)
(* The composed program with two built-in topics, one or both enabled.     *)
(***************************************************************************)
EXTENDS Cmqtt

CONSTANTS t1, t2

MCTable == <<t1, t2>>
MCFilters == {t1, t2}
MCForeign == {}

\* Both topics enabled by default; only the second one; a malformed number.
MCConfigs ==
    {[DEFAULT |-> 1, NUM |-> 0,  entry |-> <<Absent, Absent>>],
     [DEFAULT |-> 0, NUM |-> 2,  entry |-> <<0, 1>>],
     [DEFAULT |-> 0, NUM |-> -1, entry |-> <<1, 1>>]}

=============================================================================
