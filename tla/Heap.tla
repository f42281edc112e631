--------------------------------- MODULE Heap ---------------------------------
(***************************************************************************)
(* The kernel heap of Memory/MMHeapMemory.c as its callers see it, and as  *)
(* the set of headers that lie in it.                                      *)
(*                                                                         *)
(* Addresses are bytes, counted from start.  Every block is a header       *)
(* followed by the bytes up to the next header; the last header, end, has  *)
(* nothing behind it.  entries holds the addresses of the headers of the   *)
(* chain, free those with the status HM_FREED.  live is not in the code:   *)
(* what the callers own, as they know it, the size that each asked for.    *)
(*                                                                         *)
(* hmAlloc and hmFree are one step each, because both run under hmLock     *)
(* (see KernelLocks).  HeapChain has the pointers and the loops.           *)
(***************************************************************************)
EXTENDS HeapLayout, Functions

VARIABLES entries, free, live

vars == <<entries, free, live>>

-----------------------------------------------------------------------------
\* ENTRYSIZE(e) >= n: there is no header before the n bytes of e end.
Room(es, e, n) == \A f \in es : f > e => f - e - HEADER >= n

\* What findFree looks for.
Fitting(es, fr, n) == {e \in fr : Room(es, e, n)}

First(S, e) == e \in S /\ \A f \in S : e <= f

\* d is the header before e.
Before(es, d, e) == d < e /\ \A f \in es : f <= d \/ f >= e

\* compact drops every free header that follows a free one.
Absorbed(es, fr) == {e \in fr : \E d \in fr : Before(es, d, e)}

\* split makes a block of the rest if it is worth it.
Splits(es, e, n) == Room(es, e, n + HEADER + LEFTOVER)

\* The block e of entries es is handed out for size bytes.
Take(es, fr, e, size) ==
    LET n == Rounded(size)
        rest == IF Splits(es, e, n) THEN {e + HEADER + n} ELSE {}
    IN  /\ entries' = es \cup rest
        /\ free' = (fr \ {e}) \cup rest
        /\ live' = [a \in DOMAIN live \cup {e + HEADER} |->
                        IF a = e + HEADER THEN size ELSE live[a]]

\* findFree succeeds at once.
AllocFirst(size) ==
    \E e \in free :
        /\ First(Fitting(entries, free, Rounded(size)), e)
        /\ Take(entries, free, e, size)

\* findFree succeeds after compact.
AllocCompacted(size) ==
    LET gone == Absorbed(entries, free)
        es == entries \ gone
        fr == free \ gone
    IN  /\ Fitting(entries, free, Rounded(size)) = {}
        /\ \E e \in fr :
            /\ First(Fitting(es, fr, Rounded(size)), e)
            /\ Take(es, fr, e, size)

\* HM_ALLOCFAILED; the heap stays compacted.
AllocFails(size) ==
    LET gone == Absorbed(entries, free)
    IN  /\ Fitting(entries, free, Rounded(size)) = {}
        /\ Fitting(entries \ gone, free \ gone, Rounded(size)) = {}
        /\ entries' = entries \ gone
        /\ free' = free \ gone
        /\ UNCHANGED live

\* hmFree's first test
InsideHeap(address) == start <= address /\ address < end - LEFTOVER

\* hmFree by the owner of a block.
Free(address) ==
    /\ address \in DOMAIN live
    /\ IF InsideHeap(address) /\ address - HEADER \in entries
       THEN /\ free' = free \cup {address - HEADER}
            /\ live' = Restrict(live, DOMAIN live \ {address})
       ELSE UNCHANGED <<free, live>>
    /\ UNCHANGED entries

\* hmFree of an address that nobody owns: a second hmFree, or a pointer that
\* never came from the heap.
FreeStray(address) ==
    /\ address \notin DOMAIN live
    /\ IF InsideHeap(address) /\ address - HEADER \in entries
       THEN free' = free \cup {address - HEADER}
       ELSE UNCHANGED free
    /\ UNCHANGED <<entries, live>>

Alloc(size) == AllocFirst(size) \/ AllocCompacted(size) \/ AllocFails(size)

-----------------------------------------------------------------------------
\* hmInit
Init ==
    /\ entries = {start, end}
    /\ free = {start}
    /\ live = [a \in {} |-> 0]

Next ==
    \/ \E size \in Sizes : Alloc(size)
    \/ \E address \in Addresses : Free(address) \/ FreeStray(address)

Spec == Init /\ [][Next]_vars

-----------------------------------------------------------------------------
(* Properties *)

TypeOK ==
    /\ entries \subseteq start .. end
    /\ {start, end} \subseteq entries
    /\ free \subseteq entries \ {end}
    /\ live \in [DOMAIN live -> Sizes]
    /\ DOMAIN live \subseteq start .. end

\* What an owner may write to lies inside the heap and outside every header, and
\* two owners never share a byte.
LiveDisjoint ==
    \A a \in DOMAIN live :
        /\ HEADER <= a /\ a + live[a] <= end
        /\ \A f \in entries : f + HEADER <= a \/ f >= a + live[a]
        /\ \A b \in DOMAIN live : a < b => a + live[a] <= b - HEADER

\* A block in use has an owner, and a block that has an owner is in use: no
\* memory is lost, none is handed out twice.
NoLeak ==
    {e \in entries : e \notin free} = {end} \cup {a - HEADER : a \in DOMAIN live}

\* hmFree accepts what hmAlloc has handed out.  It would refuse a block of
\* LEFTOVER bytes at the end of the heap; the kernel asks for none so small.
CanBeFreed == \A a \in DOMAIN live : InsideHeap(a)

\* To free an address that nobody owns has no effect.
StrayFreeHarmless ==
    [][\A a \in Addresses : FreeStray(a) => UNCHANGED vars]_vars

\* Headers do not overlap.
Spaced == \A e, f \in entries : e < f => e + HEADER <= f

\* Every owner has at least the rounded size that it asked for.
OwnersHaveRoom ==
    \A a \in DOMAIN live :
        /\ a - HEADER \in entries \ free
        /\ Room(entries, a - HEADER, Rounded(live[a]))

\* The invariant that every step preserves on its own.
IndInv == TypeOK /\ Spaced /\ OwnersHaveRoom /\ NoLeak
===============================================================================
