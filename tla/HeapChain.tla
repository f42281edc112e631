------------------------------- MODULE HeapChain -------------------------------
(***************************************************************************)
(* Memory/MMHeapMemory.c word by word: mem holds what every word of the    *)
(* heap contains, and the functions follow the pointers they find in it.   *)
(* A header is two words, status and next.  Owners write what they like    *)
(* into the bytes that they asked for.                                     *)
(*                                                                         *)
(* It implements Heap: the entries are the headers that the chain reaches. *)
(***************************************************************************)
EXTENDS HeapLayout, Functions

CONSTANTS HM_FREED, HM_ALLOCATED, NULL, JUNK

ASSUME ChainAssumption == NULL \notin Int /\ HM_FREED # HM_ALLOCATED

\* The words of the heap, the header at end included.
Words == {a \in start .. end + ALIGN : a % ALIGN = 0}

AreaStatus == {HM_FREED, HM_ALLOCATED}

\* What a loop variable may hold.
Pointers == Words \cup {NULL}

VARIABLES mem, live

vars == <<mem, live>>

-----------------------------------------------------------------------------
StatusOf(m, e) == m[e]
NextOf(m, e) == m[e + ALIGN]

\* Wrong: the header counts as room.
ENTRYSIZEFull(m, e) == NextOf(m, e) - e

ENTRYSIZE(m, e) == NextOf(m, e) - e - HEADER

IsHeader(m, e) == e \in Words /\ e + ALIGN \in Words /\ m[e] \in AreaStatus

\* entry = entry->next.  A pointer that does not lead upwards to a header would not
\* be followed; ChainIntact says that there is none.
Following(m, e) ==
    IF IsHeader(m, NextOf(m, e)) /\ NextOf(m, e) > e THEN NextOf(m, e) ELSE NULL

\* Wrong: a block that fits exactly is passed over.
FitsLarger(m, e, n) == StatusOf(m, e) = HM_FREED /\ ENTRYSIZE(m, e) > n

Fits(m, e, n) == StatusOf(m, e) = HM_FREED /\ ENTRYSIZE(m, e) >= n

findFree(m, n) ==
    LET from[entry \in Pointers] ==
            IF entry = NULL \/ Fits(m, entry, n) THEN entry ELSE from[Following(m, entry)]
    IN  from[start]

\* Wrong: the rest need not have room for a header of its own.
splitTight(m, e, n) ==
    LET new == e + HEADER + n
    IN  IF ENTRYSIZE(m, e) > n
        THEN [m EXCEPT ![new] = HM_FREED,
                       ![new + ALIGN] = NextOf(m, e),
                       ![e] = HM_ALLOCATED,
                       ![e + ALIGN] = new]
        ELSE [m EXCEPT ![e] = HM_ALLOCATED]

\* Wrong: a block that is handed out whole stays HM_FREED.
splitForgets(m, e, n) ==
    LET new == e + HEADER + n
    IN  IF ENTRYSIZE(m, e) >= n + HEADER + LEFTOVER
        THEN [m EXCEPT ![new] = HM_FREED,
                       ![new + ALIGN] = NextOf(m, e),
                       ![e] = HM_ALLOCATED,
                       ![e + ALIGN] = new]
        ELSE m

split(m, e, n) ==
    LET new == e + HEADER + n
    IN  IF ENTRYSIZE(m, e) >= n + HEADER + LEFTOVER
        THEN [m EXCEPT ![new] = HM_FREED,
                       ![new + ALIGN] = NextOf(m, e),
                       ![e] = HM_ALLOCATED,
                       ![e + ALIGN] = new]
        ELSE [m EXCEPT ![e] = HM_ALLOCATED]

\* Wrong: it does not look at the status of the next entry.
GoesOnToEnd(m, atNext) == atNext \notin {NULL, end}

\* The inner loop of compact, from a free entry: it ends with atNext.
GoesOn(m, atNext) == atNext # NULL /\ StatusOf(m, atNext) = HM_FREED

Collapsed(m, e) ==
    LET from[atNext \in Pointers] ==
            IF GoesOn(m, atNext) THEN from[Following(m, atNext)] ELSE atNext
    IN  from[e]

\* What comes behind at when compact has been there.
Behind(m, at) ==
    IF StatusOf(m, at) = HM_FREED THEN Collapsed(m, Following(m, at)) ELSE Following(m, at)

\* No round reads a pointer that another has written.
compact(m) ==
    LET from[at \in Pointers] ==
            IF at = NULL THEN m
            ELSE [from[Behind(m, at)] EXCEPT ![at + ALIGN] = Behind(m, at)]
    IN  from[start]

\* The entries that the loop of hmFree comes by.
Entries(m) ==
    LET from[entry \in Pointers] ==
            IF entry = NULL THEN {} ELSE {entry} \cup from[Following(m, entry)]
    IN  from[start]

-----------------------------------------------------------------------------
\* The owner of size bytes at a may have written to all of them.
Written(m, a, size) ==
    [w \in Words |-> IF a <= w /\ w < a + size THEN JUNK ELSE m[w]]

\* The heap when hmAlloc has looked for n bytes, and what it has found.
Searched(n) == IF findFree(mem, n) # NULL THEN mem ELSE compact(mem)
Found(n) == findFree(Searched(n), n)

hmAlloc(size) ==
    LET n == Rounded(size)
        m == Searched(n)
        e == Found(n)
    IN  IF e = NULL
        THEN mem' = m /\ UNCHANGED live
        ELSE /\ mem' = Written(split(m, e, n), e + HEADER, size)
             /\ live' = [a \in DOMAIN live \cup {e + HEADER} |->
                            IF a = e + HEADER THEN size ELSE live[a]]

\* By the owner of the block, or by somebody who is wrong about it.
hmFree(address) ==
    /\ address \in Words
    /\ IF /\ start <= address /\ address < end - LEFTOVER
          /\ address - HEADER \in Entries(mem)
       THEN /\ mem' = [mem EXCEPT ![address - HEADER] = HM_FREED]
            /\ live' = Restrict(live, DOMAIN live \ {address})
       ELSE UNCHANGED <<mem, live>>

hmInit ==
    /\ mem = [w \in Words |-> CASE w = start         -> HM_FREED
                                [] w = start + ALIGN -> end
                                [] w = end           -> HM_ALLOCATED
                                [] w = end + ALIGN   -> NULL
                                [] OTHER             -> JUNK]
    /\ live = [a \in {} |-> 0]

Next ==
    \/ \E size \in Sizes : hmAlloc(size)
    \/ \E address \in Words : hmFree(address)

Spec == hmInit /\ [][Next]_vars

-----------------------------------------------------------------------------
(* Properties *)

\* Whatever the owners write, the chain leads from start to end, upwards and
\* through nothing but headers.
ChainIntact ==
    /\ end \in Entries(mem) /\ mem[end] = HM_ALLOCATED /\ mem[end + ALIGN] = NULL
    /\ \A e \in Entries(mem) \ {end} :
          NextOf(mem, e) \in Entries(mem) /\ e + HEADER <= NextOf(mem, e)

\* The pointers and loops do what Heap says of sets of headers.
HeapSets ==
    INSTANCE Heap WITH
        entries <- Entries(mem),
        free <- {e \in Entries(mem) : mem[e] = HM_FREED}

ImplementsHeap == HeapSets!Spec

\* What an owner may write to lies inside the heap and outside every header, and
\* two owners never share a byte.
LiveDisjoint == HeapSets!LiveDisjoint

\* The headers in use are end and those of the blocks that have an owner: no
\* memory is lost, none is handed out twice, whatever was freed twice.
NoLeak == HeapSets!NoLeak

\* hmFree accepts every block that hmAlloc has handed out.
CanBeFreed == HeapSets!CanBeFreed

\* A free block at e, with the free ones that follow it, has n bytes.
CouldHold(e, n) ==
    /\ mem[e] = HM_FREED
    /\ \A f \in Entries(mem) :
          f > e /\ mem[f] = HM_ALLOCATED => f - e - HEADER >= n

\* hmAlloc fails only if no stretch of free memory is large enough.
FailsOnlyWhenFull ==
    \A size \in Sizes :
        Found(Rounded(size)) = NULL =>
            \A e \in Entries(mem) : ~CouldHold(e, Rounded(size))
===============================================================================
