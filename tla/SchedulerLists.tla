--------------------------- MODULE SchedulerLists ---------------------------
(***************************************************************************)
(* The data of Threads/TMScheduler.c and the calls that change it, as      *)
(* operators on one scheduler record:                                      *)
(*                                                                         *)
(*   running   the thread that owns the processor (scheduler.running),     *)
(*             NULL when the scan of the ready lists found nothing         *)
(*   status    schedInfo.status of every thread, ABSENT when the thread is *)
(*             in none of the scheduler's lists                            *)
(*   ready     the ready list of every priority level, in list order       *)
(*   blocked   the blocked list of every level; nothing reads its order,   *)
(*             so it is a set                                              *)
(*                                                                         *)
(* A list operation that follows a hint (Topsy/List.c) is the operation on *)
(* the sequence.  Handlers compose several of these calls in one step,     *)
(* which is why they are operators and not actions.                        *)
(***************************************************************************)
EXTENDS Naturals, SequencesExt

CONSTANTS
    Thread,             \* thread descriptors
    NbPriorityLevels,   \* NBPRIORITYLEVELS; 0 is the most urgent level
    PriorityOf,         \* schedInfo.priority, fixed when a thread is built
    NULL                \* no thread

Priority == 0 .. NbPriorityLevels - 1

ASSUME SchedulerAssumption ==
    /\ NbPriorityLevels \in Nat \ {0}
    /\ PriorityOf \in [Thread -> Priority]
    /\ NULL \notin Thread

SchedStatus == {"RUNNING", "READY", "BLOCKED", "ABSENT"}

Scheduler == [ running : Thread \cup {NULL},
               status  : [Thread -> SchedStatus],
               ready   : [Priority -> Seq(Thread)],
               blocked : [Priority -> SUBSET Thread] ]

-----------------------------------------------------------------------------
\* listMoveToEnd
MoveToEnd(list, t) == Append(RemoveFirst(list, t), t)

schedulerInsert(s, t) ==
    [s EXCEPT !.status[t] = "BLOCKED",
              !.blocked[PriorityOf[t]] = @ \cup {t}]

\* The removal of a RUNNING thread is a PANIC: nobody has the processor any more.
schedulerRemove(s, t) ==
    IF s.status[t] = "RUNNING" THEN [s EXCEPT !.running = NULL]
    ELSE [s EXCEPT !.status[t] = "ABSENT",
                   !.ready[PriorityOf[t]] = RemoveFirst(@, t),
                   !.blocked[PriorityOf[t]] = @ \ {t}]

\* The part of schedulerSetReady under the lock: listSwap puts the element in front
\* of the list it joins, whatever the status is by then.
SwapToReady(s, t) ==
    [s EXCEPT !.status[t] = "READY",
              !.blocked[PriorityOf[t]] = @ \ {t},
              !.ready[PriorityOf[t]] = Cons(t, @)]

schedulerSetReady(s, t) ==
    IF s.status[t] \in {"READY", "RUNNING"} THEN s ELSE SwapToReady(s, t)

schedulerSetBlocked(s, t) ==
    IF s.status[t] = "BLOCKED" THEN s
    ELSE [s EXCEPT !.status[t] = "BLOCKED",
                   !.ready[PriorityOf[t]] = RemoveFirst(@, t),
                   !.blocked[PriorityOf[t]] = @ \cup {t}]

(* Wrong forms of the parts of schedule(), for the runs to reject.          *)

\* without the test for BLOCKED
RequeueAlways(s) ==
    [s EXCEPT !.status[s.running] = "READY",
              !.ready[PriorityOf[s.running]] = MoveToEnd(@, s.running)]

\* without listMoveToEnd
RequeueInPlace(s) ==
    IF s.status[s.running] = "BLOCKED" THEN s
    ELSE [s EXCEPT !.status[s.running] = "READY"]

\* one level too few in the scan
IsTopLevelButLast(s, p) ==
    /\ s.ready[p] # << >>
    /\ p + 1 < NbPriorityLevels
    /\ \A q \in Priority : q < p => s.ready[q] = << >>

\* The old running thread goes to the end of its level, unless it sleeps.
Requeue(s) ==
    IF s.status[s.running] = "BLOCKED" THEN s
    ELSE [s EXCEPT !.status[s.running] = "READY",
                   !.ready[PriorityOf[s.running]] = MoveToEnd(@, s.running)]

IsTopLevel(s, p) ==
    /\ s.ready[p] # << >>
    /\ \A q \in Priority : q < p => s.ready[q] = << >>

\* The first thread of the most urgent ready list that is not empty.
PickFirst(s) ==
    IF \E p \in Priority : IsTopLevel(s, p)
    THEN LET top == CHOOSE p \in Priority : IsTopLevel(s, p)
             new == Head(s.ready[top])
         IN  [s EXCEPT !.running = new, !.status[new] = "RUNNING"]
    ELSE [s EXCEPT !.running = NULL]

\* schedule(), once it has seen that neither lock is held.
schedule(s) == PickFirst(Requeue(s))

-----------------------------------------------------------------------------
(* What a scheduler record satisfies *)

Active(s, t) == s.status[t] \in {"READY", "RUNNING"}

\* A level's lists hold the threads whose status says so, each once.
LevelAgrees(s, p) ==
    /\ IsInjective(s.ready[p])
    /\ Range(s.ready[p]) = {t \in Thread : Active(s, t) /\ PriorityOf[t] = p}
    /\ s.blocked[p] =
        {t \in Thread : s.status[t] = "BLOCKED" /\ PriorityOf[t] = p}

ListsAgree(s) == \A p \in Priority : LevelAgrees(s, p)
=============================================================================
