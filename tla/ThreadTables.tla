---------------------------- MODULE ThreadTables ----------------------------
(***************************************************************************)
(* The tables of the thread manager (Threads/TMThread.c): threadHashList,  *)
(* threadList and the two scheduler lists of the users' level, all of them *)
(* made of cells of one heap, which can run out of room.  A request to TM  *)
(* is one step, as is a handler that changes the scheduler's lists: how    *)
(* they interleave is the subject of TMScheduler and TMIPC.                *)
(*                                                                         *)
(* The tables hold pointers, so descriptors are numbers and keep what is   *)
(* in them when they are freed.  TM and MM are in both tables for ever;    *)
(* all other threads are user threads.                                     *)
(***************************************************************************)
EXTENDS HashLists, SequencesExt

CONSTANTS
    NbDesc,             \* room on the heap for descriptors of started threads
    FIRST_USERTHREAD,
    LastUserThread,     \* the largest id: LONG_MAX
    MaxOthers           \* how many cells the rest of the kernel may have taken

ASSUME TablesAssumption ==
    /\ ListName = {"threadList", "ready", "blocked"}
    /\ FIRST_USERTHREAD > NbCells           \* an id is not the address of a cell
    /\ LastUserThread >= FIRST_USERTHREAD + NbDesc

MMTHREADID == -1
TMTHREADID == -2

mmThread == NbDesc + 1
tmThread == NbDesc + 2
HeapDesc == 1 .. NbDesc
UserId   == FIRST_USERTHREAD .. LastUserThread

VARIABLES
    m,          \* the lists, the hash list and their cells
    desc,       \* id, status and hint in each descriptor
    alloc,      \* the descriptors that the heap has handed out
    nextId,     \* nextUserThreadId
    failedLate, \* a start has failed after its thread had entered a table
    others,     \* the cells that the rest of the kernel has taken
    \* What a client knows of a listing of the threads, which is not in the code:
    shown,      \* the thread that TM has answered last, NULL if the listing has ended
    unseen      \* the threads that were there at its beginning and are still to come

listing == <<shown, unseen>>
vars == <<m, desc, alloc, nextId, failedLate, others, listing>>

\* A late failure leaves pointers to freed descriptors in the tables; what
\* TM makes of them later is left out.
Serving == ~failedLate

Live == alloc \cup {mmThread, tmThread}

Cursor == m.list["threadList"].current

-----------------------------------------------------------------------------
(* Scheduler lists of the users' level.  No user thread is running while TM *)
(* works: the one that was is in the ready list.                           *)

\* schedulerInsert: the thread is BLOCKED whether or not there was room for it.
Inserted(mem, d, t) ==
    [ m    |-> listAddInFront(mem, "blocked", t),
      desc |-> [d EXCEPT ![t].status = "BLOCKED",
                         ![t].hint = IF HasRoom(mem) THEN Fresh(mem) ELSE @] ]

schedulerSetReady(mem, d, t) ==
    IF d[t].status = "READY" THEN [m |-> mem, desc |-> d]
    ELSE [ m    |-> listSwap(mem, "blocked", "ready", t, d[t].hint),
           desc |-> [d EXCEPT ![t].status = "READY"] ]

schedulerRemove(mem, d, t) ==
    listRemove(mem, IF d[t].status = "READY" THEN "ready" ELSE "blocked", t, d[t].hint)

\* A message wakes a user thread.
Wake ==
    \E t \in alloc :
        /\ Serving
        /\ desc[t].status = "BLOCKED"
        /\ LET s == schedulerSetReady(m, desc, t) IN m' = s.m /\ desc' = s.desc
        /\ UNCHANGED <<alloc, nextId, failedLate, others, listing>>

Running == m.cell[m.list["ready"].first].item

\* The running user thread waits for a message.
Sleep ==
    /\ Serving
    /\ m.list["ready"].first # NULL
    /\ m' = listSwap(m, "ready", "blocked", Running, desc[Running].hint)
    /\ desc' = [desc EXCEPT ![Running].status = "BLOCKED"]
    /\ UNCHANGED <<alloc, nextId, failedLate, others, listing>>

\* schedule() at the end of a time slice
Preempt ==
    /\ Serving
    /\ m.list["ready"].first # NULL
    /\ m' = listMoveToEnd(m, "ready", Running, desc[Running].hint)
    /\ UNCHANGED <<desc, alloc, nextId, failedLate, others, listing>>

-----------------------------------------------------------------------------
(* TM's requests *)

\* getThreadId: the next one that nobody has, from FIRST_USERTHREAD on again
\* after the largest.
getThreadId ==
    LET unused == {i \in UserId : hashListGet(m, i) = NULL}
        ahead == {i \in unused : i >= nextId}
    IN  IF ahead # {} THEN Min(ahead) ELSE Min(unused)

\* MM has no stack or the heap no room: the descriptor, if any, is freed.
StartFailsEarly ==
    /\ Serving
    /\ UNCHANGED vars

\* There is no room for an element of the hash list.
StartFailsUnnamed ==
    LET id == getThreadId
        t == Min(HeapDesc \ alloc)
    IN  /\ Serving
        /\ alloc # HeapDesc
        /\ ~CanHash(m, id)
        /\ nextId' = id + 1
        /\ desc' = [desc EXCEPT ![t].id = id]
        /\ UNCHANGED <<m, alloc, failedLate, others, listing>>

\* There is no room for an element of threadList, or vmMove fails: the tables
\* keep what they have and the descriptor is freed.
StartFailsLate ==
    LET id == getThreadId
        t == Min(HeapDesc \ alloc)
    IN  /\ Serving
        /\ alloc # HeapDesc
        /\ CanHash(m, id)
        /\ nextId' = id + 1
        /\ desc' = [desc EXCEPT ![t].id = id]
        /\ m' = listAddInFront(hashListAdd(m, t, id), "threadList", t)
        /\ failedLate' = TRUE
        /\ UNCHANGED <<alloc, others, listing>>

\* threadStart for a user that succeeds, though the scheduler may have no room.
threadStart ==
    LET id == getThreadId
        t == Min(HeapDesc \ alloc)
        hashed == hashListAdd(m, t, id)
        listed == listAddInFront(hashed, "threadList", t)
        built == Inserted(listed, [desc EXCEPT ![t].id = id], t)
        ready == schedulerSetReady(built.m, built.desc, t)
    IN  /\ Serving
        /\ alloc # HeapDesc
        /\ CanHash(m, id)
        /\ HasRoom(hashed)
        /\ nextId' = id + 1
        /\ m' = IF HasRoom(listed) THEN ready.m ELSE listed
        /\ desc' = ready.desc
        /\ alloc' = alloc \cup {t}
        /\ failedLate' = ~HasRoom(listed)
        /\ UNCHANGED <<others, listing>>

\* Wrong: the walk ends with the first thread that it wakes.
FreeFirstBlocked(mem, d, waiting) ==
    LET woken == SelectSeq(Items(mem, "threadList"), LAMBDA t : t \in waiting)
        found == Search(mem, "threadList", Head(woken))
    IN  IF woken = << >>
        THEN [m |-> [mem EXCEPT !.list["threadList"].current = NULL], desc |-> d]
        ELSE schedulerSetReady([mem EXCEPT !.list["threadList"].current = found],
                               d, Head(woken))

\* A walk of threadList with the list's own cursor, which ends behind the last
\* thread: those that wait for the dead thread are woken in that order.
ipcFreeBlockedThreads(mem, d, waiting) ==
    LET woken == SelectSeq(Items(mem, "threadList"), LAMBDA t : t \in waiting)
    IN  FoldLeft(LAMBDA s, t : schedulerSetReady(s.m, s.desc, t),
                 [m |-> [mem EXCEPT !.list["threadList"].current = NULL], desc |-> d],
                 woken)

\* Wrong: threadList keeps its element.
threadDestroyUnlisted(id) ==
    LET t == hashListGet(m, id)
        unhashed == hashListRemove(m, id)
    IN  IF t = NULL THEN UNCHANGED <<m, desc, alloc, listing>>
        ELSE /\ m' = [schedulerRemove(unhashed, desc, t) EXCEPT
                        !.list["threadList"].current = NULL]
             /\ alloc' = alloc \ {t}
             /\ shown' = NULL /\ unseen' = {}
             /\ UNCHANGED desc

\* Which of the sleeping user threads wait for this one is left open.  A listing of the
\* threads that is in progress is over.
threadDestroy(id) ==
    LET t == hashListGet(m, id)
        unhashed == hashListRemove(m, id)
        unlisted == listRemove(unhashed, "threadList", t, NULL)
        removed == schedulerRemove(unlisted, desc, t)
        sleeping == {u \in alloc \ {t} : desc[u].status = "BLOCKED"}
    IN  IF t = NULL THEN UNCHANGED <<m, desc, alloc, listing>>
        ELSE /\ \E waiting \in SUBSET sleeping :
                    LET s == ipcFreeBlockedThreads(removed, desc, waiting)
                    IN  m' = s.m /\ desc' = s.desc
             /\ alloc' = alloc \ {t}
             /\ shown' = NULL /\ unseen' = {}

\* threadKill, which a user that wants to kill a kernel thread falls victim to
\* itself; an exit is the same for the thread itself.
threadKill ==
    /\ Serving
    /\ \E killer \in UserId : \E victim \in UserId \cup {MMTHREADID, TMTHREADID} :
          /\ hashListGet(m, killer) # NULL
          /\ threadDestroy(IF victim \in UserId THEN victim ELSE killer)
    /\ UNCHANGED <<nextId, failedLate, others>>

\* threadInfo, GETFIRST
InfoFirst ==
    /\ Serving
    /\ m' = listGetFirst(m, "threadList")
    /\ shown' = Item(m', "threadList")
    /\ unseen' = Live \ {shown'}
    /\ UNCHANGED <<desc, alloc, nextId, failedLate, others>>

\* threadInfo, GETNEXT: it fails if there is no next thread.
InfoNext ==
    /\ Serving
    /\ m' = listGetNext(m, "threadList")
    /\ shown' = Item(m', "threadList")
    /\ unseen' = unseen \ {shown'}
    /\ UNCHANGED <<desc, alloc, nextId, failedLate, others>>

-----------------------------------------------------------------------------
\* tmInit
Init ==
    LET hash == hashListAdd(hashListAdd(hashListNew(listNew), mmThread, MMTHREADID),
                            tmThread, TMTHREADID)
        tables == listAddInFront(listAddInFront(hash, "threadList", mmThread),
                                 "threadList", tmThread)
    IN  /\ \E n \in 0 .. MaxOthers : others = NbCells - n + 1 .. NbCells
        /\ m = [tables EXCEPT !.used = @ \cup others]
        /\ desc = [t \in HeapDesc \cup {mmThread, tmThread} |->
                      [id |-> CASE t = mmThread -> MMTHREADID
                                [] t = tmThread -> TMTHREADID
                                [] OTHER -> NULL,
                       status |-> "BLOCKED", hint |-> NULL]]
        /\ alloc = {}
        /\ nextId = FIRST_USERTHREAD
        /\ failedLate = FALSE
        /\ shown = NULL
        /\ unseen = {}

Next ==
    \/ Wake \/ Sleep \/ Preempt
    \/ StartFailsEarly \/ StartFailsUnnamed \/ StartFailsLate \/ threadStart
    \/ threadKill \/ InfoFirst \/ InfoNext

Spec == Init /\ [][Next]_vars

-----------------------------------------------------------------------------

Occurs(l, t) == Cardinality({i \in DOMAIN Items(m, l) : Items(m, l)[i] = t})

\* As long as no start has failed late, every thread that has not been
\* destroyed is found under its own id, is once in threadList and is once in
\* the scheduler list of its status, where its hint points; and the tables hold
\* no other (threadStart, threadDestroy, getThreadId, which starts again from
\* the first id).
TablesAgree ==
    Serving =>
        /\ {m.cell[e].item : e \in Hashed(m)} = Live
        /\ Cardinality(Hashed(m)) = Cardinality(Live)
        /\ \A t \in Live : hashListGet(m, desc[t].id) = t
        /\ \A t \in DOMAIN desc : Occurs("threadList", t) = IF t \in Live THEN 1 ELSE 0
        /\ \A t \in HeapDesc :
              LET queue == IF desc[t].status = "READY" THEN "ready" ELSE "blocked"
              IN  /\ Occurs("ready", t) + Occurs("blocked", t)
                         = IF t \in alloc THEN 1 ELSE 0
                  /\ t \in alloc =>
                        desc[t].hint \in Range(Chain(m, queue))
                            /\ m.cell[desc[t].hint].item = t

\* The cursor of threadList, in which threadInfo keeps a listing's place between
\* two requests, never stands on the cell of a thread that is gone.  Whatever is
\* started, readied or blocked meanwhile, each thread that was there at the beginning
\* is shown once.  If a thread is destroyed, the listing ends there: the cursor is left
\* behind the last thread, whoever has been woken, and the next request fails.
ListingResumes ==
    /\ Cursor \in Range(Chain(m, "threadList")) \cup {NULL}
    /\ Item(m, "threadList") = shown
    /\ LET ahead == Walk(m, IF Cursor = NULL THEN NULL ELSE m.cell[Cursor].next)
       IN  /\ {m.cell[c].item : c \in Range(ahead)} = unseen
           /\ Len(ahead) = Cardinality(unseen)
=============================================================================
