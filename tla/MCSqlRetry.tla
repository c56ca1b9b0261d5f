----------------------------- MODULE MCSqlRetry -----------------------------
(***************************************************************************)
(* excuteSql called a few times in a row on the same handle.               *)
(***************************************************************************)
EXTENDS SqlRetry

=============================================================================
