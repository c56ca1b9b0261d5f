----------------------------- MODULE LinkedList -----------------------------
(***************************************************************************)
(* The doubly linked list of the MQTT library (LinkedList.c), as operators *)
(* on a list value: the elements by address, the first and last element,   *)
(* the cached element "current" that the last search found, and the count. *)
(* An element that has been freed is no longer in the domain of "el".      *)
(*                                                                         *)
(* The field "size" of the list, to which appending adds and from which    *)
(* removing takes nothing, is left out: no code reads it.                  *)
(***************************************************************************)
EXTENDS Integers, Sequences, Functions

ListNull == 0

ListZero == [first |-> ListNull, last |-> ListNull, current |-> ListNull, count |-> 0, el |-> << >>]

WithElement(l, new, e) ==
    [l EXCEPT !.el = [x \in DOMAIN @ \cup {new} |-> IF x = new THEN e ELSE @[x]]]

FreeElement(l, e) == [l EXCEPT !.el = Restrict(@, DOMAIN @ \ {e})]

ListAppendNoMalloc(l, content, new) ==
    LET l1 == WithElement(l, new, [content |-> content, next |-> ListNull, prev |-> l.last])
        l2 == IF l.first = ListNull THEN [l1 EXCEPT !.first = new]
              ELSE [l1 EXCEPT !.el[l.last].next = new]
    IN  [l2 EXCEPT !.last = new, !.count = @ + 1]

\* Mutant: the new element is not made the successor of the one before it.
ListInsertUnlinked(l, content, new, index) ==
    IF index = ListNull THEN ListAppendNoMalloc(l, content, new)
    ELSE LET l1 == WithElement(l, new, [content |-> content, next |-> index,
                                        prev |-> l.el[index].prev])
         IN  [l1 EXCEPT !.el[index].prev = new, !.count = @ + 1, !.first = new]

ListInsert(l, content, new, index) ==
    IF index = ListNull THEN ListAppendNoMalloc(l, content, new)
    ELSE LET before == l.el[index].prev
             l1 == WithElement(l, new, [content |-> content, next |-> index, prev |-> before])
             l2 == [l1 EXCEPT !.el[index].prev = new, !.count = @ + 1]
         IN  IF before = ListNull THEN [l2 EXCEPT !.first = new]
             ELSE [l2 EXCEPT !.el[before].next = new]

-----------------------------------------------------------------------------
ListNextElement(l, pos) == IF pos = ListNull THEN l.first ELSE l.el[pos].next
\* The first element after pos whose content is one the comparison accepts.
RECURSIVE FindAfter(_, _, _)
FindAfter(l, pos, accepted) ==
    LET next == ListNextElement(l, pos)
    IN  IF next = ListNull THEN next
        ELSE IF l.el[next].content \in accepted THEN next
        ELSE FindAfter(l, next, accepted)

\* The search: the cached element is tried first, and what is found is cached.
ListFindItem(l, accepted) ==
    IF l.current # ListNull /\ l.el[l.current].content \in accepted THEN l.current
    ELSE FindAfter(l, ListNull, accepted)

\* The list without element e.  The cache moves on when it was at e; otherwise
\* it is put back to what it was before the search.
ListUnlink(l, e) ==
    LET next == l.el[e].next
        prev == l.el[e].prev
        l1   == IF prev = ListNull THEN [l EXCEPT !.first = next] ELSE [l EXCEPT !.el[prev].next = next]
        l2   == IF next = ListNull THEN [l1 EXCEPT !.last = prev] ELSE [l1 EXCEPT !.el[next].prev = prev]
    IN  FreeElement([l2 EXCEPT !.current = IF l.current = e THEN next ELSE l.current,
                               !.count = @ - 1], e)

ListDetachHead(l) ==
    LET first == l.first
        next  == l.el[first].next
        l1    == [l EXCEPT !.current = IF @ = first THEN next ELSE @,
                           !.last = IF @ = first THEN ListNull ELSE @,
                           !.first = next, !.count = @ - 1]
    IN  FreeElement(IF next = ListNull THEN l1 ELSE [l1 EXCEPT !.el[next].prev = ListNull], first)

ListPopTail(l) ==
    LET last == l.last
        prev == l.el[last].prev
        l1   == [l EXCEPT !.current = IF @ = last THEN prev ELSE @,
                          !.first = IF @ = last THEN ListNull ELSE @,
                          !.last = prev, !.count = @ - 1]
    IN  FreeElement(IF prev = ListNull THEN l1 ELSE [l1 EXCEPT !.el[prev].next = ListNull], last)

-----------------------------------------------------------------------------
\* The contents from the first element on.
RECURSIVE Forward(_, _)
Forward(l, e) == IF e = ListNull THEN << >> ELSE << l.el[e].content >> \o Forward(l, l.el[e].next)

Items(l) == Forward(l, l.first)

=============================================================================
