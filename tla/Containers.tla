----------------------------- MODULE Containers -----------------------------
(***************************************************************************)
(* A list of the MQTT library and the heap tracking under it.  Every list, *)
(* list element and content is a block that Heap.c records in its tree, so *)
(* one list operation is also one or more insertions into, or removals     *)
(* from, the red/black tree.  The caller is any code of the library that   *)
(* allocates contents, puts them into a list and takes them out again.     *)
(*                                                                         *)
(* Every operation runs under the heap's mutex (and the caller's own), so  *)
(* each is one step.  An allocation that fails undoes what it had done and *)
(* returns NULL, which changes nothing here; a reallocation that fails is  *)
(* the exception and has an action of its own.                             *)
(***************************************************************************)
EXTENDS Tree, LinkedList, SequencesExt

CONSTANTS Links,        \* the addresses malloc may return for a list or an element of it
          Contents,     \* the addresses it may return for a content, both positive integers
          Sizes,        \* the sizes of contents the caller asks for
          Values,       \* what a comparison callback tells contents apart by
          MaxFailures   \* bound: how many reallocations may fail

\* sizeof(List) and sizeof(ListElement) on the 64-bit build.
SizeofList        == 40
SizeofListElement == 24

VARIABLES heap,         \* [tree, current_size]: the tree of records, and the bytes in use
          listAt,       \* the address of the list structure, or NULL
          list,         \* the list structure and its elements
          value,        \* the value in each content block
          owned,        \* the contents the caller holds
          lost          \* blocks that a failed reallocation left without a record

vars == << heap, listAt, list, value, owned, lost >>

-----------------------------------------------------------------------------
\* Heap.c: sizes are rounded up to a multiple of 4 * sizeof(int).
Heap_roundup(size) == IF size % 16 # 0 THEN size + (16 - (size % 16)) ELSE size

Recorded(h) == { h.tree.node[n].content : n \in DOMAIN h.tree.node }
Live(h)     == { s.ptr : s \in Recorded(h) }
Available(addresses) == addresses \ (Live(heap) \cup lost)
Addresses == Links \cup Contents

mymalloc(h, p, asked) ==
    LET size == Heap_roundup(asked)
    IN  [tree |-> TreeAddByIndex(h.tree, [ptr |-> p, size |-> size], size),
         current_size |-> h.current_size + size]

\* The record is found by the pointer; without one the block stays as it is.
Internal_heap_unlink(h, p) ==
    LET e == TreeFindIndex1(h.tree, p)
    IN  IF e = NULL THEN h
        ELSE [h EXCEPT !.current_size = @ - h.tree.node[e].content.size,
                       !.tree = TreeRemoveNodeIndex(@, e)]

myfree(h, p) == IF p = NULL THEN h ELSE Internal_heap_unlink(h, p)

RECURSIVE FreeAll(_, _)
FreeAll(h, s) == IF s = << >> THEN h ELSE FreeAll(myfree(h, Head(s)), Tail(s))

\* The record leaves the tree before the block is moved, because its key may
\* change; q is where realloc put the block, NULL when it failed.
myrealloc(h, p, q, asked) ==
    LET s    == h.tree.node[TreeFindIndex1(h.tree, p)].content
        size == Heap_roundup(asked)
        out  == [tree |-> TreeRemoveKeyIndex(h.tree, p),
                 current_size |-> h.current_size + size - s.size]
    IN  IF q = NULL THEN out
        ELSE [out EXCEPT !.tree = TreeAddByIndex(@, [ptr |-> q, size |-> size], size)]

-----------------------------------------------------------------------------
Init ==
    /\ heap = [tree |-> TreeInitializeNoMalloc, current_size |-> 0]
    /\ listAt = NULL
    /\ list = ListZero
    /\ value = << >>
    /\ owned = {}
    /\ lost = {}

ListInitialize ==
    /\ listAt = NULL
    /\ \E p \in Available(Links) :
        /\ heap' = mymalloc(heap, p, SizeofList)
        /\ listAt' = p
    /\ list' = ListZero
    /\ UNCHANGED << value, owned, lost >>

\* The caller's own allocations.
Allocate == \E p \in Available(Contents), size \in Sizes, v \in Values :
    /\ heap' = mymalloc(heap, p, size)
    /\ owned' = owned \cup {p}
    /\ value' = [c \in DOMAIN value \cup {p} |-> IF c = p THEN v ELSE value[c]]
    /\ UNCHANGED << listAt, list, lost >>

Release == \E c \in owned :
    /\ heap' = myfree(heap, c)
    /\ owned' = owned \ {c}
    /\ value' = Restrict(value, DOMAIN value \ {c})
    /\ UNCHANGED << listAt, list, lost >>

Reallocate == \E c \in owned, size \in Sizes : \E q \in Available(Contents) \cup {c} :
    /\ heap' = myrealloc(heap, c, q, size)
    /\ owned' = (owned \ {c}) \cup {q}
    /\ value' = [x \in (DOMAIN value \ {c}) \cup {q} |-> IF x = q THEN value[c] ELSE value[x]]
    /\ UNCHANGED << listAt, list, lost >>

\* The block is still allocated, but its record is gone and the caller has NULL.
ReallocateFails == \E c \in owned, size \in Sizes :
    /\ Cardinality(lost) < MaxFailures
    /\ heap' = myrealloc(heap, c, NULL, size)
    /\ owned' = owned \ {c}
    /\ value' = Restrict(value, DOMAIN value \ {c})
    /\ lost' = lost \cup {c}
    /\ UNCHANGED << listAt, list >>

-----------------------------------------------------------------------------
ListAppend == \E c \in owned, p \in Available(Links) :
    /\ listAt # NULL
    /\ heap' = mymalloc(heap, p, SizeofListElement)
    /\ list' = ListAppendNoMalloc(list, c, p)
    /\ owned' = owned \ {c}
    /\ UNCHANGED << listAt, value, lost >>

InsertBefore == \E c \in owned, p \in Available(Links), index \in DOMAIN list.el \cup {NULL} :
    /\ listAt # NULL
    /\ heap' = mymalloc(heap, p, SizeofListElement)
    /\ list' = ListInsert(list, c, p, index)
    /\ owned' = owned \ {c}
    /\ UNCHANGED << listAt, value, lost >>

\* What the comparison accepts: one content by its address, or all of one value.
Accepted == { {c} : c \in DOMAIN value } \cup { {c \in DOMAIN value : value[c] = v} : v \in Values }

\* The elements that some search finds.
Found == { ListFindItem(list, accepted) : accepted \in Accepted } \ {NULL}

\* A search that finds nothing leaves the list as it is.
FindItem == \E e \in Found :
    /\ listAt # NULL
    /\ list' = [list EXCEPT !.current = e]
    /\ UNCHANGED << heap, listAt, value, owned, lost >>

\* ListDetach, ListDetachItem: the content goes back to the caller.
ListDetach == \E e \in Found :
    /\ listAt # NULL
    /\ list' = ListUnlink(list, e)
    /\ heap' = myfree(heap, e)
    /\ owned' = owned \cup {list.el[e].content}
    /\ UNCHANGED << listAt, value, lost >>

\* ListRemove, ListRemoveItem: the content is freed first.
ListRemove == \E e \in Found :
    LET c == list.el[e].content
    IN  /\ listAt # NULL
        /\ list' = ListUnlink(list, e)
        /\ heap' = myfree(myfree(heap, c), e)
        /\ value' = Restrict(value, DOMAIN value \ {c})
        /\ UNCHANGED << listAt, owned, lost >>

DetachHead ==
    /\ listAt # NULL /\ list.count > 0
    /\ list' = ListDetachHead(list)
    /\ heap' = myfree(heap, list.first)
    /\ owned' = owned \cup {list.el[list.first].content}
    /\ UNCHANGED << listAt, value, lost >>

\* Mutant: the content of the head is not freed.
ListRemoveHeadOnly ==
    LET c == list.el[list.first].content
    IN  /\ listAt # NULL /\ list.count > 0
        /\ list' = ListDetachHead(list)
        /\ heap' = myfree(heap, list.first)
        /\ value' = Restrict(value, DOMAIN value \ {c})
        /\ UNCHANGED << listAt, owned, lost >>

ListRemoveHead ==
    LET c == list.el[list.first].content
    IN  /\ listAt # NULL /\ list.count > 0
        /\ list' = ListDetachHead(list)
        /\ heap' = myfree(myfree(heap, list.first), c)
        /\ value' = Restrict(value, DOMAIN value \ {c})
        /\ UNCHANGED << listAt, owned, lost >>

PopTail ==
    /\ listAt # NULL /\ list.count > 0
    /\ list' = ListPopTail(list)
    /\ heap' = myfree(heap, list.last)
    /\ owned' = owned \cup {list.el[list.last].content}
    /\ UNCHANGED << listAt, value, lost >>

-----------------------------------------------------------------------------
\* The blocks of the elements from e on, each followed by its content if that is freed too.
RECURSIVE Chain(_, _, _)
Chain(l, e, freeContent) ==
    IF e = NULL THEN << >>
    ELSE (IF freeContent THEN << l.el[e].content, e >> ELSE << e >>)
         \o Chain(l, l.el[e].next, freeContent)

ListEmpty ==
    /\ listAt # NULL
    /\ heap' = FreeAll(heap, Chain(list, list.first, TRUE))
    /\ list' = ListZero
    /\ value' = Restrict(value, owned)
    /\ UNCHANGED << listAt, owned, lost >>

ListFree ==
    /\ listAt # NULL
    /\ heap' = FreeAll(heap, Chain(list, list.first, TRUE) \o << listAt >>)
    /\ list' = ListZero
    /\ listAt' = NULL
    /\ value' = Restrict(value, owned)
    /\ UNCHANGED << owned, lost >>

ListFreeNoContent ==
    /\ listAt # NULL
    /\ heap' = FreeAll(heap, Chain(list, list.first, FALSE) \o << listAt >>)
    /\ list' = ListZero
    /\ listAt' = NULL
    /\ owned' = DOMAIN value
    /\ UNCHANGED << value, lost >>

Next ==
    \/ ListInitialize
    \/ Allocate
    \/ Release
    \/ Reallocate
    \/ ReallocateFails
    \/ ListAppend
    \/ InsertBefore
    \/ FindItem
    \/ ListDetach
    \/ ListRemove
    \/ DetachHead
    \/ ListRemoveHead
    \/ PopTail
    \/ ListEmpty
    \/ ListFree
    \/ ListFreeNoContent

Spec == Init /\ [][Next]_vars

-----------------------------------------------------------------------------
\* The black nodes on the way down to a missing child, or -1 when two ways differ.
RECURSIVE BlackHeight(_, _)
BlackHeight(t, n) ==
    IF n = NULL THEN 0
    ELSE LET l == BlackHeight(t, Child(t, n, LEFT))
             r == BlackHeight(t, Child(t, n, RIGHT))
         IN  IF l = -1 \/ r = -1 \/ l # r THEN -1 ELSE l + (IF isRed(t, n) THEN 0 ELSE 1)

(***************************************************************************)
(* After any sequence of insertions and removals the tree of Heap.c is a   *)
(* red/black tree: the links up agree with the links down, no red node has *)
(* a red child, every way down passes as many black nodes, and count and   *)
(* size are those of the nodes.  So heap tracking knows every block: a     *)
(* loop over TreeNextElement meets each block once, in ascending order,    *)
(* and the search by address finds exactly the recorded ones.              *)
(***************************************************************************)
TreeIsRedBlack ==
    LET t    == heap.tree
        walk == Walk(t, NULL)
    IN  /\ t.root # NULL => Parent(t, t.root) = NULL /\ isBlack(t, t.root)
        /\ \A n \in DOMAIN t.node, d \in {LEFT, RIGHT} :
               Child(t, n, d) # NULL => Parent(t, Child(t, n, d)) = n
        /\ \A n \in DOMAIN t.node :
               isRed(t, n) => isBlack(t, Child(t, n, LEFT)) /\ isBlack(t, Child(t, n, RIGHT))
        /\ BlackHeight(t, t.root) # -1
        /\ t.count = Cardinality(DOMAIN t.node)
        /\ t.size = MapThenSumSet(LAMBDA n : t.node[n].size, DOMAIN t.node)
        /\ Len(walk) = t.count
        /\ \A i \in 1 .. t.count - 1 : walk[i].ptr < walk[i + 1].ptr
        /\ \A p \in Addresses : (TreeFindIndex1(t, p) # NULL) <=> (p \in Live(heap))

(***************************************************************************)
(* Nothing leaks and nothing is freed twice: the recorded blocks are       *)
(* exactly the list structure, its elements, the contents in it and the    *)
(* contents the caller holds, and current_size is the sum of their sizes   *)
(* as long as no reallocation has failed.                                  *)
(***************************************************************************)
NothingLeaks ==
    /\ Live(heap) = (IF listAt = NULL THEN {} ELSE {listAt})
                    \cup DOMAIN list.el \cup Range(Items(list)) \cup owned
    /\ lost = {} => heap.current_size = MapThenSumSet(LAMBDA s : s.size, Recorded(heap))

Abstract == INSTANCE ListSpec WITH Blocks <- Addresses, items <- Items(list), held <- owned

(***************************************************************************)
(* The list, with its cached element and its searches by address or by     *)
(* value, behaves as the sequence of contents that its callers think of.   *)
(***************************************************************************)
ImplementsSequence == Abstract!Spec

=============================================================================
