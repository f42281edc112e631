---------------------------- MODULE VirtualMemory ----------------------------
(***************************************************************************)
(* The memory manager at work (Memory/MMVirtualMemory.c, MMMain.c): two    *)
(* address spaces, each with a list of regions and a list of free regions, *)
(* and the requests of user threads and of TM, which starts and destroys   *)
(* them.  MM serves one request after the other, each in one step; the     *)
(* walk of mmVmCleanup alone is taken apart, since it need not end.        *)
(*                                                                         *)
(* The heap is left with room for so many list elements and so many region *)
(* descriptors, and either can run out first.  What other kernel threads   *)
(* allocate on it between two of MM's calls of hmAlloc and hmFree is left  *)
(* out, and so is the content of the pages.                                *)
(***************************************************************************)
EXTENDS Integers, Sequences, FiniteSets, SequencesExt

CONSTANTS
    NbCells,            \* room for list elements on the heap
    NbRegions,          \* room for region descriptors: they are never freed
    Users,              \* ids of the user threads
    LOGICALPAGESIZE,    \* in bytes
    STACKSIZE,          \* of a thread, in bytes
    SegMap,             \* sizes of the parts of the loaded system
    KernelSize, UserSize,
    Sizes               \* that users ask for, in bytes

TMTHREADID == -2
MMTHREADID == -1
ANY == 1
THREAD_MODE(t) == IF t <= MMTHREADID THEN "KERNEL" ELSE "USER"
Space == {"KERNEL", "USER"}

\* The heap has room for what mmVmInit needs, and nobody asks for no bytes at all.
ASSUME VmAssumption ==
    /\ LOGICALPAGESIZE \in Nat \ {0}
    /\ \A u \in Users : u \in Nat /\ u > ANY
    /\ Sizes \subseteq Nat \ {0}
    /\ {NbCells, NbRegions} \subseteq Nat /\ NbCells >= 10 /\ NbRegions >= 10

RegionList(s) == <<"regionList", s>>
FreeList(s)   == <<"freeList", s>>
INSTANCE Lists WITH ListName <- {RegionList(s) : s \in Space}
                                   \cup {FreeList(s) : s \in Space}

VARIABLES
    lists,      \* the memory of the four lists
    regions,    \* the region descriptors; an item is the number of one
    stack,      \* stackEnd of each user thread that lives, else NULL
    tm,         \* what TM is doing, and for whom
    walk        \* the thread that mmVmCleanup works for and its local region

vars == <<lists, regions, stack, tm, walk>>

LOGICALPAGENUMBER(a)    == a \div LOGICALPAGESIZE
LOGICALPAGEREMAINDER(a) == a % LOGICALPAGESIZE

roundToPageUp(x) ==
    LOGICALPAGENUMBER(x) + IF LOGICALPAGEREMAINDER(x) > 0 THEN 1 ELSE 0
roundUp(x) == roundToPageUp(x) * LOGICALPAGESIZE

RegionDesc == [startPage : Nat, numOfPages : Nat, owner : Int]

-----------------------------------------------------------------------------
(* mmVmInit.  Addresses of the user's space follow those of the kernel's. *)

\* mmAddressSpaceRange: page 0 is invalid in either space.
KernelStart == LOGICALPAGESIZE
UserStart   == KernelStart + KernelSize + LOGICALPAGESIZE
SpaceStart(s) == IF s = "KERNEL" THEN KernelStart ELSE UserStart
SpaceSize(s)  == IF s = "KERNEL" THEN KernelSize ELSE UserSize
PagesOfSpace(s) ==
    LOGICALPAGENUMBER(SpaceStart(s)) .. roundToPageUp(SpaceStart(s) + SpaceSize(s)) - 1

\* A memory is a pair of lists and descriptors.
vmInitRegion(mem, l, addr, size) ==
    [ lists   |-> listAddInFront(mem.lists, l, Len(mem.regions) + 1),
      regions |-> Append(mem.regions, [startPage  |-> LOGICALPAGENUMBER(addr),
                                       numOfPages |-> roundToPageUp(size),
                                       owner      |-> 0]) ]

\* Boot stack, code, data, heap and the stacks of MM and TM, and what is left.
KernelCode == KernelStart + SegMap.bootStackSize
KernelData == KernelCode + roundUp(SegMap.kernelCodeSize)
HeapStart  == roundUp(KernelData + SegMap.kernelDataSize)   \* mmVmGetHeapAddress
MmStack    == HeapStart + SegMap.heapSize
TmStack    == MmStack + STACKSIZE
KernelRest == TmStack + STACKSIZE
UserData   == UserStart + roundUp(SegMap.userCodeSize)
UserRest   == roundUp(UserData + SegMap.userDataSize)

Part(l, addr, size) == [list |-> l, addr |-> addr, size |-> size]
Parts ==
    << Part(RegionList("KERNEL"), KernelStart, SegMap.bootStackSize),
       Part(RegionList("KERNEL"), KernelCode, SegMap.kernelCodeSize),
       Part(RegionList("KERNEL"), KernelData, SegMap.kernelDataSize),
       Part(RegionList("KERNEL"), HeapStart, SegMap.heapSize),
       Part(RegionList("KERNEL"), MmStack, STACKSIZE),
       Part(RegionList("KERNEL"), TmStack, STACKSIZE),
       Part(FreeList("KERNEL"), KernelRest, KernelSize - (KernelRest - KernelStart)),
       Part(RegionList("USER"), UserStart, SegMap.userCodeSize),
       Part(RegionList("USER"), UserData, SegMap.userDataSize),
       Part(FreeList("USER"), UserRest,
            UserSize - roundUp(SegMap.userDataSize) - roundUp(SegMap.userCodeSize)) >>

\* Nothing is empty, and what is not the linker's is made of whole pages.
ASSUME LayoutAssumption ==
    /\ {SegMap.kernelCodeSize, SegMap.kernelDataSize,
        SegMap.userCodeSize, SegMap.userDataSize} \subseteq Nat \ {0}
    /\ \A x \in {SegMap.bootStackSize, SegMap.heapSize, STACKSIZE, KernelSize, UserSize} :
          x \in Nat \ {0} /\ LOGICALPAGEREMAINDER(x) = 0
    /\ KernelRest < KernelStart + KernelSize
    /\ UserRest < UserStart + UserSize

\* The memory when so many of the parts have got their regions.
mmVmInit ==
    LET upto[i \in 0 .. Len(Parts)] ==
            IF i = 0 THEN [lists |-> listNew, regions |-> << >>]
            ELSE LET mem == upto[i - 1]
                 IN  vmInitRegion(mem, Parts[i].list, Parts[i].addr, Parts[i].size)
    IN  upto[Len(Parts)]

-----------------------------------------------------------------------------
(* Finding a region.  All walks go from the first element of a list to the *)
(* one that is wanted, or to its end, and leave the cursor there.          *)

\* The list with its cursor at the first of the items.
CursorAt(m, l, items) == [m EXCEPT !.list[l].current = FirstOf(m, l, items)]

\* MM_VMEXACT
isPageInRegion(r, page) == r.startPage = page

\* getRegion in the exact mode: the kernel's list is searched first, then the
\* users'.  The result is the lists with the cursors that the search has left,
\* and the region, or NULL.  An address that is not aligned is refused.
getRegion(mem, address) ==
    LET here == {r \in DOMAIN mem.regions :
                    isPageInRegion(mem.regions[r], LOGICALPAGENUMBER(address))}
        one == CursorAt(mem.lists, RegionList("KERNEL"), here)
        two == CursorAt(one, RegionList("USER"), here)
    IN  IF LOGICALPAGEREMAINDER(address) # 0
        THEN [lists |-> mem.lists, region |-> NULL]
        ELSE IF Item(one, RegionList("KERNEL")) # NULL
        THEN [lists |-> one, region |-> Item(one, RegionList("KERNEL"))]
        ELSE [lists |-> two, region |-> Item(two, RegionList("USER"))]

-----------------------------------------------------------------------------
(* Requests.  A memory is a record of lists and regions here as well; ok is *)
(* whether the request succeeds, address where the new region starts.      *)

\* Wrong: the rest keeps the pages that were split off.
vmAllocRegionOverlapping(mem, region, pages, s, owner) ==
    LET r == mem.regions[region]
        new == Len(mem.regions) + 1
    IN  IF r.numOfPages > pages
        THEN [ lists |-> listAddInFront(mem.lists, RegionList(s), new),
               regions |-> Append([mem.regions EXCEPT ![region].owner = ANY],
                                  [r EXCEPT !.numOfPages = pages, !.owner = owner]) ]
        ELSE [ lists |-> listAddInFront(
                            listRemove(mem.lists, FreeList(s), region, NULL),
                            RegionList(s), region),
               regions |-> [mem.regions EXCEPT ![region].owner = owner] ]

\* vmAllocRegion: a free region that is large enough is split, or changes lists.  The
\* result of listAddInFront is ignored: a new descriptor that finds no room for its
\* list element is in no list, and yet its pages are taken from the free region.
vmAllocRegion(mem, region, pages, s, owner) ==
    LET r == mem.regions[region]
        new == Len(mem.regions) + 1
    IN  IF r.numOfPages > pages
        THEN [ lists |-> listAddInFront(mem.lists, RegionList(s), new),
               regions |-> Append([mem.regions EXCEPT
                                      ![region] = [startPage  |-> r.startPage + pages,
                                                   numOfPages |-> r.numOfPages - pages,
                                                   owner      |-> ANY]],
                                  [r EXCEPT !.numOfPages = pages, !.owner = owner]) ]
        ELSE [ lists |-> listAddInFront(
                            listRemove(mem.lists, FreeList(s), region, NULL),
                            RegionList(s), region),
               regions |-> [mem.regions EXCEPT ![region].owner = owner] ]

\* mmVmAlloc: first fit.  A region that must be split is passed over if the
\* heap has no room for another descriptor.
mmVmAlloc(mem, size, owner) ==
    LET s == THREAD_MODE(owner)
        pages == roundToPageUp(size)
        fitting == {r \in DOMAIN mem.regions :
                       \/ mem.regions[r].numOfPages = pages
                       \/ /\ mem.regions[r].numOfPages > pages
                          /\ Len(mem.regions) < NbRegions}
        found == CursorAt(mem.lists, FreeList(s), fitting)
        region == Item(found, FreeList(s))
        at == [mem EXCEPT !.lists = found]
    IN  IF region = NULL THEN [mem |-> at, ok |-> FALSE, address |-> NULL]
        ELSE [ mem |-> vmAllocRegion(at, region, pages, s, owner),
               ok |-> TRUE,
               address |-> mem.regions[region].startPage * LOGICALPAGESIZE ]

\* Wrong: any thread may free any region.
MayFreeAll(owner, sender) == TRUE

\* Users may free their own regions, kernel threads all of them.  The boot's
\* regions have owner 0, which counts as a user.
MayFree(owner, sender) == owner = sender \/ THREAD_MODE(sender) = "KERNEL"

\* A freed region keeps its owner and goes to the front of its free list.
mmVmFree(mem, address, sender) ==
    LET found == getRegion(mem, address)
        s == THREAD_MODE(mem.regions[found.region].owner)
        out == listRemove(found.lists, RegionList(s), found.region, NULL)
    IN  [mem EXCEPT !.lists =
            IF found.region # NULL
               /\ MayFree(mem.regions[found.region].owner, sender)
            THEN listAddInFront(out, FreeList(s), found.region)
            ELSE found.lists]

\* Moving a page is a copy, which cannot fail with direct mapping.
mmVmMove(mem, address, newOwner) ==
    LET found == getRegion(mem, address)
        size == mem.regions[found.region].numOfPages * LOGICALPAGESIZE
        got == mmVmAlloc([mem EXCEPT !.lists = found.lists], size, newOwner)
    IN  IF THREAD_MODE(newOwner) = "KERNEL"
        THEN [mem |-> mem, ok |-> FALSE, address |-> address]
        ELSE IF found.region = NULL
        THEN [mem |-> [mem EXCEPT !.lists = found.lists], ok |-> FALSE, address |-> address]
        ELSE IF ~got.ok THEN [got EXCEPT !.address = address]
        ELSE [got EXCEPT !.mem = mmVmFree(got.mem, address, MMTHREADID)]

-----------------------------------------------------------------------------
(* Steps *)

Mem == [lists |-> lists, regions |-> regions]

\* The cursors are dead between two requests, since every walk begins with
\* listGetFirst: they are NULL then, which keeps the states few.
Parked(m) == [m EXCEPT !.list = [l \in DOMAIN @ |-> [@[l] EXCEPT !.current = NULL]]]

Becomes(mem) == lists' = Parked(mem.lists) /\ regions' = mem.regions

\* mmMain is in its loop; while it walks in mmVmCleanup it serves nobody.
Receives == walk = << >>

UserRequest(u) ==
    /\ Receives
    /\ stack[u] # NULL
    /\ UNCHANGED <<stack, tm, walk>>

\* The addresses that users name: those of the pages that are free at first,
\* one that is not aligned, and one of the kernel's.
Named == {p * LOGICALPAGESIZE : p \in {q \in PagesOfSpace("USER") :
             q >= LOGICALPAGENUMBER(UserRest)}}
         \cup {UserRest + 1, KernelStart}

VmAlloc(u)   == UserRequest(u) /\ \E n \in Sizes : Becomes(mmVmAlloc(Mem, n, u).mem)
VmFree(u)    == UserRequest(u) /\ \E a \in Named : Becomes(mmVmFree(Mem, a, u))

\* threadStart: a stack in the kernel's space, then moved to the user's.
TmAllocStack(u) ==
    LET got == mmVmAlloc(Mem, STACKSIZE, TMTHREADID)
    IN  /\ Receives
        /\ tm.doing = "idle"
        /\ stack[u] = NULL
        /\ Becomes(got.mem)
        /\ tm' = IF got.ok THEN [doing |-> "move", thread |-> u, address |-> got.address]
                 ELSE tm
        /\ UNCHANGED <<stack, walk>>

TmMoveStack ==
    LET got == mmVmMove(Mem, tm.address, tm.thread)
    IN  /\ Receives
        /\ tm.doing = "move"
        /\ Becomes(got.mem)
        /\ stack' = IF got.ok THEN [stack EXCEPT ![tm.thread] = got.address] ELSE stack
        /\ tm' = [tm EXCEPT !.doing = IF got.ok THEN "idle" ELSE "undo"]
        /\ UNCHANGED walk

\* The move has failed.
TmUndo ==
    /\ Receives
    /\ tm.doing = "undo"
    /\ Becomes(mmVmFree(Mem, tm.address, TMTHREADID))
    /\ tm' = [tm EXCEPT !.doing = "idle"]
    /\ UNCHANGED <<stack, walk>>

\* threadDestroy: the stack, then all that the thread still owns.
TmFreeStack(u) ==
    /\ Receives
    /\ tm.doing = "idle"
    /\ stack[u] # NULL
    /\ Becomes(mmVmFree(Mem, stack[u], TMTHREADID))
    /\ stack' = [stack EXCEPT ![u] = NULL]
    /\ tm' = [doing |-> "cleanup", thread |-> u, address |-> NULL]
    /\ UNCHANGED walk

\* mmVmCleanup goes to the first region of the list
CleanupBegin ==
    LET m == listGetFirst(lists, RegionList(THREAD_MODE(tm.thread)))
    IN  /\ Receives
        /\ tm.doing = "cleanup"
        /\ lists' = m
        /\ walk' = <<tm.thread, Item(m, RegionList(THREAD_MODE(tm.thread)))>>
        /\ tm' = [tm EXCEPT !.doing = "idle"]
        /\ UNCHANGED <<regions, stack>>

\* Wrong: at its end the walk starts again, as it may have missed a region.
CleanupStepAround ==
    LET l == RegionList(THREAD_MODE(walk[1]))
        r == regions[walk[2]]
        mem == IF r.owner = walk[1]
               THEN mmVmFree(Mem, r.startPage * LOGICALPAGESIZE, walk[1])
               ELSE Mem
        next == listGetNext(mem.lists, l)
        m == IF Item(next, l) = NULL THEN listGetFirst(mem.lists, l) ELSE next
    IN  /\ walk # << >> /\ walk[2] # NULL
        /\ lists' = m
        /\ regions' = mem.regions
        /\ walk' = <<walk[1], Item(m, l)>>
        /\ UNCHANGED <<stack, tm>>

\* and frees it if the thread owns it, before it takes the next one: from the
\* list's cursor, which mmVmFree has moved as well.
CleanupStep ==
    LET l == RegionList(THREAD_MODE(walk[1]))
        r == regions[walk[2]]
        mem == IF r.owner = walk[1]
               THEN mmVmFree(Mem, r.startPage * LOGICALPAGESIZE, walk[1])
               ELSE Mem
        m == listGetNext(mem.lists, l)
    IN  /\ walk # << >>
        /\ walk[2] # NULL
        /\ lists' = m
        /\ regions' = mem.regions
        /\ walk' = <<walk[1], Item(m, l)>>
        /\ UNCHANGED <<stack, tm>>

CleanupEnd ==
    /\ walk # << >>
    /\ walk[2] = NULL
    /\ walk' = << >>
    /\ lists' = Parked(lists)
    /\ UNCHANGED <<regions, stack, tm>>

-----------------------------------------------------------------------------
Init ==
    /\ lists = mmVmInit.lists
    /\ regions = mmVmInit.regions
    /\ stack = [u \in Users |-> NULL]
    /\ tm = [doing |-> "idle", thread |-> NULL, address |-> NULL]
    /\ walk = << >>

MM == CleanupBegin \/ CleanupStep \/ CleanupEnd
TM == TmMoveStack \/ TmUndo \/ \E u \in Users : TmAllocStack(u) \/ TmFreeStack(u)

Next ==
    \/ MM \/ TM
    \/ \E u \in Users : VmAlloc(u) \/ VmFree(u)

Spec == Init /\ [][Next]_vars

-----------------------------------------------------------------------------
(* Properties *)

InList(l) == ToSet(Items(lists, l))
Listed(L(_)) == UNION {InList(L(s)) : s \in Space}
Lost == DOMAIN regions \ (Listed(RegionList) \cup Listed(FreeList))
Owned(r) == [start |-> regions[r].startPage, pages |-> regions[r].numOfPages,
             owner |-> regions[r].owner]
Unowned(r) == [start |-> regions[r].startPage, pages |-> regions[r].numOfPages]

\* The lists as sets: regions that are alike in all that matters are the same.
Regions == INSTANCE VmRegions WITH
    ThreadId  <- Users \cup {TMTHREADID},
    Pages     <- [s \in Space |-> PagesOfSpace(s)],
    FirstUsed <- {[start |-> r.startPage, pages |-> r.numOfPages, owner |-> 0] :
                     r \in {mmVmInit.regions[i] : i \in (1 .. 10) \ {7, 10}}},
    FirstFree <- {[start |-> r.startPage, pages |-> r.numOfPages] :
                     r \in {mmVmInit.regions[i] : i \in {7, 10}}},
    used      <- {Owned(r) : r \in Listed(RegionList)},
    free      <- {Unowned(r) : r \in Listed(FreeList)},
    lost      <- {Owned(r) : r \in Lost}

ImplementsRegions == Regions!Spec
RegionsTile       == Regions!RegionsTile

\* The four lists are well linked in both directions, and no descriptor is in two of
\* them or twice in one.  Moving a region between lists loses none, neither does a
\* request that fails: one that is in no list was split off when there was no room for
\* a list element, and there is none since.
ListsLinked ==
    /\ Linked(lists, {})
    /\ regions \in Seq(RegionDesc)
    /\ Cardinality(lists.used) = Cardinality(DOMAIN regions \ Lost)
    /\ Lost # {} => ~HasRoom(lists)

\* What u has is taken away only at its own request, when it ends, or when another
\* thread ends that has given back its own stack while TM still had it on record.
NotStolen ==
    [][\A u \in Users : \A r \in Listed(RegionList) :
          (regions[r].owner = u /\ r \notin Listed(RegionList)') =>
              \/ VmFree(u)
              \/ walk # << >> /\ walk[1] = u
              \/ \E v \in Users :
                    /\ TmFreeStack(v)
                    /\ stack[v] = regions[r].startPage * LOGICALPAGESIZE]_vars

\* During a cleanup: the thread's regions, and the elements that are still ahead.
Mine  == {r \in Listed(RegionList) : regions[r].owner = walk[1]}
Ahead == Len(Walk(lists, lists.list[RegionList(THREAD_MODE(walk[1]))].current))

\* A cleanup comes to an end, although it frees regions of the list that it walks
\* and every free moves the cursor: each step gives back a region of the thread, or
\* leaves fewer elements ahead of the cursor.
CleanupProgress ==
    [][(walk # << >> /\ walk' # << >>) =>
          \/ Cardinality(Mine') < Cardinality(Mine)
          \/ Mine' = Mine /\ Ahead' < Ahead]_vars

\* The comment of mmVmCleanup: it reclaims "all vm resource owned by a thread".
CleanupReclaims ==
    (walk # << >> /\ walk[2] = NULL) =>
        \A r \in Listed(RegionList) : regions[r].owner # walk[1]
=============================================================================
