------------------------------ MODULE VmRegions ------------------------------
(***************************************************************************)
(* What virtual memory promises (Memory/MMVirtualMemory.c): each page of   *)
(* the two address spaces belongs to one region, a region is free or has   *)
(* an owner, and regions change hands by allocating, freeing and moving    *)
(* only.  A region that is split off when the heap is full is on no record *)
(* afterwards: nobody can free it.  Which of several free regions an       *)
(* allocation takes is left open; so is which regions a cleanup reaches.   *)
(***************************************************************************)
EXTENDS Integers, FiniteSets

CONSTANTS
    ThreadId,
    Pages,          \* the pages of each address space: a function
    FirstUsed,      \* the regions that mmVmInit allocates
    FirstFree       \* and those it leaves free

MMTHREADID == -1
THREAD_MODE(t) == IF t <= MMTHREADID THEN "KERNEL" ELSE "USER"
Space == {"KERNEL", "USER"}

VARIABLES
    used,   \* regions with an owner: [start, pages, owner]
    free,   \* regions without: [start, pages]
    lost    \* regions with an owner that are on no record

vars == <<used, free, lost>>

PagesOf(r) == r.start .. r.start + r.pages - 1
In(s, r)   == PagesOf(r) \subseteq Pages[s]

\* A region of n pages for t: a free one, or the front part of one.
Taken(f, n, t) == [start |-> f.start, pages |-> n, owner |-> t]
Rest(f, n) == IF n = f.pages THEN {}
              ELSE {[start |-> f.start + n, pages |-> f.pages - n]}
Freed(r) == [start |-> r.start, pages |-> r.pages]

\* The region joins those that are kept, or, if it is split off, the lost ones.
Enters(r, kept, split) ==
    \/ used' = kept \cup {r} /\ UNCHANGED lost
    \/ split /\ used' = kept /\ lost' = lost \cup {r}

Alloc(t) ==
    \E f \in free : \E n \in 1 .. f.pages :
        /\ In(THREAD_MODE(t), f)
        /\ Enters(Taken(f, n, t), used, n < f.pages)
        /\ free' = (free \ {f}) \cup Rest(f, n)

\* At the request of r's owner, or of a kernel thread.
Release(r) ==
    /\ used' = used \ {r}
    /\ free' = free \cup {Freed(r)}
    /\ UNCHANGED lost

\* A kernel thread gives what is in r to user thread t.
Move(r, t) ==
    \E f \in free :
        /\ THREAD_MODE(t) = "USER"
        /\ In("USER", f)
        /\ f.pages >= r.pages
        /\ Enters(Taken(f, r.pages, t), used \ {r}, r.pages < f.pages)
        /\ free' = (free \ {f}) \cup Rest(f, r.pages) \cup {Freed(r)}

Init == used = FirstUsed /\ free = FirstFree /\ lost = {}

Next ==
    \/ \E t \in ThreadId : Alloc(t)
    \/ \E r \in used :
          r.owner \in ThreadId /\ (Release(r) \/ \E t \in ThreadId : Move(r, t))

Spec == Init /\ [][Next]_vars

-----------------------------------------------------------------------------
\* Every page of either space is in exactly one region: one that is free, one that
\* has an owner, or one that is lost.
RegionsTile ==
    /\ \A s \in Space : \A p \in Pages[s] :
          \E A \in {used, free, lost} : \E r \in A : p \in PagesOf(r)
    /\ \A A \in {used, free, lost} : \A r, q \in A :
          r # q => PagesOf(r) \cap PagesOf(q) = {}
    /\ \A r \in used, q \in free : PagesOf(r) \cap PagesOf(q) = {}
    /\ \A r \in lost, q \in used \cup free : PagesOf(r) \cap PagesOf(q) = {}
=============================================================================
