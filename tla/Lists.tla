-------------------------------- MODULE Lists --------------------------------
(***************************************************************************)
(* The lists of Topsy (Topsy/List.c) with their cells: doubly linked, with *)
(* a cursor inside each list, cells taken from the kernel heap.            *)
(*                                                                         *)
(* An operator takes the memory m, a record with                           *)
(*   cell   what is in each cell, whether the cell is in use or not        *)
(*   used   the cells that the heap has handed out                         *)
(*   list   first, current and last of every list                          *)
(* and returns it changed.  Cells are numbered in the order of addresses   *)
(* and NULL is 0, as it is in C.  An item is a number as well.             *)
(***************************************************************************)
EXTENDS Integers, Sequences, FiniteSets, FiniteSetsExt, Functions

CONSTANTS
    NbCells,    \* the room that the heap has for cells
    ListName

ASSUME ListsAssumption == NbCells \in Nat \ {0}

NULL == 0
Cell == 1 .. NbCells

\* listNew, for every list: no cell is in use yet.
listNew ==
    [ cell |-> [c \in Cell |-> [item |-> NULL, next |-> NULL, prev |-> NULL]],
      used |-> {},
      list |-> [l \in ListName |->
                   [first |-> NULL, current |-> NULL, last |-> NULL]] ]

-----------------------------------------------------------------------------
(* The kernel heap, for blocks of one size: the first free one, which keeps *)
(* what its last owner has left there.                                     *)

HasRoom(m) == m.used # Cell
Fresh(m)   == Min(Cell \ m.used)

hmFree(m, c) == [m EXCEPT !.used = @ \ {c}]

-----------------------------------------------------------------------------
(* Where a walk along the next pointers leads *)

\* The cells that a walk along next meets from c on, and those of list l.
Walk(m, c) ==
    LET upto[n \in 0 .. NbCells] ==
            [e \in Cell \cup {NULL} |->
                IF e = NULL \/ n = 0 THEN << >>
                ELSE <<e>> \o upto[n - 1][m.cell[e].next]]
    IN  upto[NbCells][c]

Chain(m, l) == Walk(m, m.list[l].first)

Items(m, l) ==
    LET ch == Chain(m, l) IN [i \in DOMAIN ch |-> m.cell[ch[i]].item]

\* The first cell of l that holds one of the items, or NULL: what a linear search
\* finds.
FirstOf(m, l, items) ==
    LET ch == Chain(m, l)
        at == {i \in DOMAIN ch : m.cell[ch[i]].item \in items}
    IN  IF at = {} THEN NULL ELSE ch[Min(at)]

Search(m, l, item) == FirstOf(m, l, {item})

-----------------------------------------------------------------------------
(* Operations.  A list operation that returns LIST_ERROR returns m as it was. *)

\* Wrong: the old first element is not told of its predecessor.
listAddInFrontOneWay(m, l, item) ==
    LET e == Fresh(m)
        d == m.list[l]
    IN  IF ~HasRoom(m) THEN m
        ELSE [m EXCEPT
                !.used = @ \cup {e},
                !.cell[e] = [item |-> item, next |-> d.first, prev |-> NULL],
                !.list[l].first = e,
                !.list[l].last = IF d.first = NULL THEN e ELSE @]

listAddInFront(m, l, item) ==
    LET e == Fresh(m)
        d == m.list[l]
        linked == IF d.first = NULL THEN [m EXCEPT !.list[l].last = e]
                  ELSE [m EXCEPT !.cell[d.first].prev = e]
    IN  IF ~HasRoom(m) THEN m
        ELSE [linked EXCEPT
                !.used = @ \cup {e},
                !.cell[e] = [item |-> item, next |-> d.first, prev |-> NULL],
                !.list[l].first = e]

\* removeElem, and the linear search of listRemove, which unlinks in the same
\* way: the neighbours of e, or the ends of the list, close the gap.
removeElem(m, l, e) ==
    LET nx == m.cell[e].next
        pv == m.cell[e].prev
        fore == IF e = m.list[l].first
                THEN [m EXCEPT !.list[l].first = nx]
                ELSE [m EXCEPT !.cell[pv].next = nx]
    IN  IF nx = NULL
        THEN [fore EXCEPT !.list[l].last = IF e = m.list[l].first THEN NULL ELSE pv]
        ELSE [fore EXCEPT !.cell[nx].prev = IF e = m.list[l].first THEN NULL ELSE pv]

\* The hint is valid: hintElem still holds the item.
IsHint(m, item, hint) == hint # NULL /\ m.cell[hint].item = item

\* The element that listRemove works on: the hint, if it is valid, or what
\* the linear search finds.  The cell keeps its pointers when it is freed.
listRemove(m, l, item, hint) ==
    LET e == IF IsHint(m, item, hint) THEN hint ELSE Search(m, l, item)
    IN  IF item = NULL \/ e = NULL THEN m
        ELSE hmFree([removeElem(m, l, e) EXCEPT !.cell[e].item = NULL], e)

\* To the end of its own list.
listMoveToEnd(m, l, item, hint) ==
    LET out == removeElem(m, l, hint)
        last == m.list[l].last
    IN  IF ~IsHint(m, item, hint) \/ last = hint THEN m
        ELSE [out EXCEPT
                !.cell[last].next = hint,
                !.cell[hint].prev = last,
                !.cell[hint].next = NULL,
                !.list[l].last = hint]


\* From one list to the front of the other.
listSwap(m, from, to, item, hint) ==
    LET out == removeElem(m, from, hint)
        first == out.list[to].first
        linked == IF first = NULL THEN out ELSE [out EXCEPT !.cell[first].prev = hint]
    IN  IF ~IsHint(m, item, hint) THEN m
        ELSE [linked EXCEPT
                !.cell[hint].next = first,
                !.cell[hint].prev = NULL,
                !.list[to].first = hint,
                !.list[to].last = IF @ = NULL THEN hint ELSE @]

\* Iteration: the item of the element under the cursor, or NULL.
Item(m, l) ==
    LET c == m.list[l].current IN IF c = NULL THEN NULL ELSE m.cell[c].item

listGetFirst(m, l) == [m EXCEPT !.list[l].current = m.list[l].first]

listGetNext(m, l) ==
    LET c == m.list[l].current
    IN  IF c = NULL THEN m ELSE [m EXCEPT !.list[l].current = m.cell[c].next]

-----------------------------------------------------------------------------
\* Both directions agree, no cell is in two lists, and cells outside the lists
\* are not in use, beyond those in others.
Linked(m, others) ==
    LET cells(l) == Range(Chain(m, l))
    IN  /\ \A l \in ListName :
              LET ch == Chain(m, l)
                  n == Cardinality(cells(l))
              IN  /\ DOMAIN ch = 1 .. n
                  /\ n = 0 => m.list[l].last = NULL
                  /\ n > 0 => m.list[l].last = ch[n]
                  /\ \A i \in 1 .. n :
                        m.cell[ch[i]].prev = IF i = 1 THEN NULL ELSE ch[i - 1]
        /\ \A l, k \in ListName : l # k => cells(l) \cap cells(k) = {}
        /\ m.used = others \cup UNION {cells(l) : l \in ListName}
=============================================================================
