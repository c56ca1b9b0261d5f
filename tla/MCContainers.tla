---------------------------- MODULE MCContainers ----------------------------
(***************************************************************************)
(* An instance of Containers: room for a list of three elements with their *)
(* contents, so that an insertion can be in the middle, and two values, so *)
(* that a search by value can find another content than one by address.    *)
(***************************************************************************)
EXTENDS Containers

\* Values are only compared with each other, and the properties are about safety.
MCSymmetry == Permutations(Values)
=============================================================================
