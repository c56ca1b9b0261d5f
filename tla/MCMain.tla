------------------------------- MODULE MCMain -------------------------------
(***************************************************************************)
(* Three processes, two of them of the same program; files of up to three  *)
(* lines with keys over two characters and blanks; ticks of 100 ms.        *)
(***************************************************************************)
EXTENDS Main

CONSTANTS p1, p2, q1, cmqtt, other, k, x, wanted, unwanted

MCNameOf == [p \in Procs |-> IF p = q1 THEN other ELSE cmqtt]

MCKey == <<k, x>>
MCTitles == {wanted, unwanted}

\* The key as such, with blanks, as the end and as the beginning of a longer
\* one, twice, and others.
MCLefts == {<<k, x>>, <<Blank, k, x>>, <<k, x, Blank>>, <<x, k, x>>, <<k, x, x>>,
            <<k, x, k, x>>, <<k>>, <<>>}

=============================================================================
