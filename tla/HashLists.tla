------------------------------ MODULE HashLists ------------------------------
(***************************************************************************)
(* The hash list of Topsy (Topsy/HashList.c): an array of singly linked    *)
(* chains.  Its elements come from the same heap as those of the lists and *)
(* are as large: the second word of a cell is the key here and the third   *)
(* one is next, where a list element has next and prev.                    *)
(* The memory m of Lists has one more field: table.                        *)
(***************************************************************************)
EXTENDS Lists

CONSTANTS
    HASHLISTSIZE,
    WORD            \* 2 to the width of an unsigned long

ASSUME HashListsAssumption == HASHLISTSIZE \in Nat \ {0} /\ WORD > HASHLISTSIZE

Key(m, e)      == m.cell[e].next
HashNext(m, e) == m.cell[e].prev

\* Keys are unsigned: a negative thread id is a large one.
hashFunction(key) == (key % WORD) % HASHLISTSIZE

hashListNew(m) == [ cell |-> m.cell, used |-> m.used, list |-> m.list,
                    table |-> [i \in 0 .. HASHLISTSIZE - 1 |-> NULL] ]

\* The elements of bucket i in their order.
Bucket(m, i) ==
    LET from[e \in Cell \cup {NULL}, n \in 0 .. NbCells] ==
            IF e = NULL \/ n = 0 THEN << >> ELSE <<e>> \o from[HashNext(m, e), n - 1]
    IN  from[m.table[i], NbCells]

\* The element with the given key, or NULL.
Lookup(m, key) ==
    LET b == Bucket(m, hashFunction(key))
        at == {i \in DOMAIN b : Key(m, b[i]) = key}
    IN  IF at = {} THEN NULL ELSE b[Min(at)]

\* What a caller gets in *data: NULL stands for HASHNOTFOUND.
hashListGet(m, key) ==
    LET e == Lookup(m, key) IN IF e = NULL THEN NULL ELSE m.cell[e].item

\* HASHERROR without room, HASHDUPLICATEKEY if the key is there already; a new
\* element goes to the end of its chain.
CanHash(m, key) == HasRoom(m) /\ Lookup(m, key) = NULL

hashListAdd(m, data, key) ==
    LET i == hashFunction(key)
        b == Bucket(m, i)
        e == Fresh(m)
        filled == [m EXCEPT !.used = @ \cup {e},
                            !.cell[e] = [item |-> data, next |-> key, prev |-> NULL]]
    IN  IF ~CanHash(m, key) THEN m
        ELSE IF b = << >> THEN [filled EXCEPT !.table[i] = e]
        ELSE [filled EXCEPT !.cell[b[Len(b)]].prev = e]

hashListRemove(m, key) ==
    LET i == hashFunction(key)
        b == Bucket(m, i)
        e == Lookup(m, key)
        n == CHOOSE j \in DOMAIN b : b[j] = e
    IN  IF e = NULL THEN m
        ELSE IF n = 1 THEN hmFree([m EXCEPT !.table[i] = HashNext(m, e)], e)
        ELSE hmFree([m EXCEPT !.cell[b[n - 1]].prev = HashNext(m, e)], e)

\* The elements of all chains.
Hashed(m) == UNION {Range(Bucket(m, i)) : i \in DOMAIN m.table}
=============================================================================
