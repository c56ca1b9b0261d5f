------------------------------ MODULE ListSpec ------------------------------
(***************************************************************************)
(* What the linked list of the library promises its callers: a sequence of *)
(* contents, next to the contents that the caller holds itself.  A content *)
(* is never in two places, and only the operations that say so free it.    *)
(***************************************************************************)
EXTENDS Naturals, Sequences, SequencesExt

CONSTANT Blocks         \* every content there can be

VARIABLES items,        \* the contents in the list, in order
          held          \* the contents the caller holds

Init == items = << >> /\ held = {}

\* The caller obtains a content, gives one up, or exchanges one for a block of another size.
Obtain == \E c \in Blocks \ (held \cup Range(items)) : held' = held \cup {c} /\ UNCHANGED items
Release == \E c \in held : held' = held \ {c} /\ UNCHANGED items
Exchange == \E c \in held, d \in Blocks \ (held \cup Range(items)) :
                held' = (held \ {c}) \cup {d} /\ UNCHANGED items

Insert == \E c \in held, i \in 1 .. Len(items) + 1 :
              items' = InsertAt(items, i, c) /\ held' = held \ {c}

Detach == \E i \in 1 .. Len(items) :
              items' = RemoveAt(items, i) /\ held' = held \cup {items[i]}

Discard == \E i \in 1 .. Len(items) : items' = RemoveAt(items, i) /\ UNCHANGED held

Empty == items' = << >> /\ UNCHANGED held

Dissolve == items' = << >> /\ held' = held \cup Range(items)

Next == Obtain \/ Release \/ Exchange \/ Insert \/ Detach \/ Discard \/ Empty \/ Dissolve

Spec == Init /\ [][Next]_<<items, held>>

=============================================================================
