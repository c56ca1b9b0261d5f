--------------------------- MODULE MCAsyncClient ---------------------------
(***************************************************************************)
(* The client library with an application that may subscribe at any time.  *)
(***************************************************************************)
EXTENDS AsyncClient

=============================================================================
