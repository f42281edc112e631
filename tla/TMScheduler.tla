----------------------------- MODULE TMScheduler -----------------------------
(***************************************************************************)
(* The scheduler of Threads/TMScheduler.c with everybody who calls it:     *)
(*                                                                         *)
(*   - the clock interrupt, between any two instructions of a thread;      *)
(*   - system calls of the running thread, which execute in an exception   *)
(*     handler with interrupts off and are therefore one step each;        *)
(*   - the thread manager's thread TM, which starts and destroys threads   *)
(*     in thread context with interrupts on: each of its steps below can   *)
(*     be followed by a clock interrupt.                                   *)
(*                                                                         *)
(* Two spin locks keep them apart.  TM holds threadLock while it changes   *)
(* the global thread tables and schedLock while it changes the lists.  A   *)
(* handler that finds schedLock taken in lock() would spin with interrupts *)
(* off, for ever; schedule() avoids that by giving up when it finds a lock *)
(* taken (lockTry), so that the holder keeps the processor.                *)
(***************************************************************************)
EXTENDS SchedulerLists

CONSTANTS
    TM,         \* the thread manager's thread
    Idle,       \* the idle thread: it never makes a system call
    Permanent,  \* threads that TM never destroys (the system's own threads)
    ANY,        \* what a receive from anybody asks for
    BootOrder   \* the ready lists when tmMain enters its loop

ASSUME ThreadsAssumption ==
    /\ TM \in Permanent
    /\ Idle \in Permanent
    /\ TM # Idle
    /\ Permanent \subseteq Thread
    /\ ANY \notin Thread \cup {NULL}
    /\ PriorityOf[TM] = 0
    /\ BootOrder \in [Priority -> Seq(Permanent)]
    /\ \A p \in Priority : IsInjective(BootOrder[p])
    /\ \A p \in Priority : Range(BootOrder[p]) =
            {t \in Permanent : PriorityOf[t] = p}

VARIABLES
    sched,       \* the scheduler record
    waitsFor,    \* threadIdPending of the threads that wait for a message: a thread,
                 \* ANY, or NULL for a thread that does not wait
    threadLock,  \* TRUE when taken
    schedLock,   \* TRUE when taken
    tm           \* what TM is doing: [op, pc, target, dead], where dead is the
                 \* thread that it has removed and whose end it has yet to tell

vars == <<sched, waitsFor, threadLock, schedLock, tm>>

TmPc == {"serve", "tables", "insert", "inserting", "setready", "readying",
         "remove", "removing", "call", "free"}

\* Every variable has its type, and some thread always owns the processor
\* ("the idle thread(s) guarantee that we always find a ready thread").
TypeOK ==
    /\ sched \in Scheduler
    /\ sched.running \in Thread
    /\ waitsFor \in [Thread -> Thread \cup {ANY, NULL}]
    /\ threadLock \in BOOLEAN
    /\ schedLock \in BOOLEAN
    /\ tm \in [op : {"none", "start", "destroy"}, pc : TmPc,
               target : Thread \cup {NULL}, dead : Thread \cup {NULL}]

-----------------------------------------------------------------------------
(* Exception context *)

\* Wrong: schedule() that does not look at the locks.
ScheduleAnyway(s) == schedule(s)

\* schedule(): it gives up when one of the locks is taken.
TrySchedule(s) == IF schedLock \/ threadLock THEN s ELSE schedule(s)

\* tmClockHandler
ClockInterrupt ==
    /\ sched' = TrySchedule(sched)
    /\ UNCHANGED <<waitsFor, threadLock, schedLock, tm>>

\* The running thread is at a point of its program where it makes a system
\* call: the idle thread never, TM between two operations, before and after it
\* changes the lists, and for vmMove before it inserts a new thread.
MakesSyscall(t) ==
    /\ sched.running = t
    /\ t # Idle
    /\ t = TM => tm.pc \in {"serve", "call", "insert"}

AfterSyscall(t) ==
    IF t = TM /\ tm.pc = "call"
    THEN [tm EXCEPT !.pc = IF tm.dead = NULL THEN "serve" ELSE "free"]
    ELSE tm

\* u is found in threadHashList.
Known(u) ==
    \/ sched.status[u] # "ABSENT" /\ ~(tm.pc \in {"remove", "removing"} /\ u = tm.target)
    \/ tm.pc \in {"insert", "inserting"} /\ u = tm.target

\* kSend by t finds u asleep in a receive that t's message ends.
Expects(u, t) ==
    /\ Known(u)
    /\ sched.status[u] = "BLOCKED"
    /\ waitsFor[u] \in {ANY, t}

\* Wrong: kSend without its call of schedule().
WakesWithoutSchedule(t, u) ==
    /\ MakesSyscall(t)
    /\ ~schedLock
    /\ Expects(u, t)
    /\ sched' = schedulerSetReady(sched, u)
    /\ waitsFor' = [waitsFor EXCEPT ![u] = NULL]
    /\ tm' = AfterSyscall(t)
    /\ UNCHANGED <<threadLock, schedLock>>

\* Wrong: kSend wakes any sleeping thread, whether and for whom it waits or not.
WakesAnySleeper(t, u) ==
    /\ MakesSyscall(t)
    /\ ~schedLock
    /\ Known(u) /\ sched.status[u] = "BLOCKED"
    /\ sched' = TrySchedule(schedulerSetReady(sched, u))
    /\ waitsFor' = [waitsFor EXCEPT ![u] = NULL]
    /\ tm' = AfterSyscall(t)
    /\ UNCHANGED <<threadLock, schedLock>>

\* A send that hands its message to u, which was waiting for it.
SyscallWakes(t, u) ==
    /\ MakesSyscall(t)
    /\ ~schedLock
    /\ Expects(u, t)
    /\ sched' = TrySchedule(schedulerSetReady(sched, u))
    /\ waitsFor' = [waitsFor EXCEPT ![u] = NULL]
    /\ tm' = AfterSyscall(t)
    /\ UNCHANGED <<threadLock, schedLock>>

\* A send that wakes nobody, or tmYield.
SyscallSchedules(t) ==
    /\ MakesSyscall(t)
    /\ sched' = TrySchedule(sched)
    /\ tm' = AfterSyscall(t)
    /\ UNCHANGED <<waitsFor, threadLock, schedLock>>

\* A receive that finds no message; it fails if it names a thread that is unknown.
SyscallBlocks(t) ==
    /\ MakesSyscall(t)
    /\ ~schedLock
    /\ t = TM => tm.pc # "call"      \* where it has something to send
    /\ \E from \in {u \in Thread : Known(u)} \cup {ANY} :
          waitsFor' = [waitsFor EXCEPT ![t] = from]
    /\ sched' = TrySchedule(schedulerSetBlocked(sched, t))
    /\ UNCHANGED <<threadLock, schedLock, tm>>

-----------------------------------------------------------------------------
(* TM in thread context *)

At(pc) == sched.running = TM /\ tm.pc = pc

Doing(op, pc, t, d) == [op |-> op, pc |-> pc, target |-> t, dead |-> d]

\* TM starts an absent thread, or destroys one it may destroy.
TmBegin ==
    /\ At("serve")
    /\ \E t \in Thread \ Permanent :
          tm' = Doing(IF sched.status[t] = "ABSENT" THEN "start" ELSE "destroy",
                      "tables", t, NULL)
    /\ threadLock' = TRUE
    /\ UNCHANGED <<sched, waitsFor, schedLock>>

\* The tables are updated: unlock(threadLock).
TmTables ==
    /\ At("tables")
    /\ threadLock' = FALSE
    /\ tm' = [tm EXCEPT !.pc = IF tm.op = "start" THEN "insert" ELSE "remove"]
    /\ UNCHANGED <<sched, waitsFor, schedLock>>

\* What follows schedulerSetReady: the answer, or the rest of the walk.
AfterReady ==
    IF tm.dead = NULL THEN Doing("none", "call", NULL, NULL)
                      ELSE Doing("none", "free", NULL, tm.dead)

\* lock(schedLock), from the named call to the named critical section.
\* schedulerSetReady looks at the status before it takes the lock; that it finds the
\* thread awake is against TargetUnchanged.
TmLock ==
    /\ sched.running = TM
    /\ ~schedLock
    /\ \/ tm.pc = "insert"   /\ tm' = [tm EXCEPT !.pc = "inserting"]
       \/ /\ tm.pc = "setready" /\ ~Active(sched, tm.target)
          /\ tm' = [tm EXCEPT !.pc = "readying"]
       \/ tm.pc = "remove"   /\ tm' = [tm EXCEPT !.pc = "removing"]
    /\ schedLock' = TRUE
    /\ UNCHANGED <<sched, waitsFor, threadLock>>

\* initMsgQueue has made the thread one that does not wait.
TmInsert ==
    /\ At("inserting")
    /\ sched' = schedulerInsert(sched, tm.target)
    /\ waitsFor' = [waitsFor EXCEPT ![tm.target] = NULL]
    /\ schedLock' = FALSE
    /\ tm' = [tm EXCEPT !.pc = "setready"]
    /\ UNCHANGED threadLock

\* Under the lock the status is not looked at again.
TmSetReady ==
    /\ At("readying")
    /\ sched' = SwapToReady(sched, tm.target)
    /\ waitsFor' = [waitsFor EXCEPT ![tm.target] = NULL]
    /\ schedLock' = FALSE
    /\ tm' = AfterReady
    /\ UNCHANGED threadLock

\* The descriptor goes with all that is in it.
TmRemove ==
    /\ At("removing")
    /\ sched' = schedulerRemove(sched, tm.target)
    /\ waitsFor' = [waitsFor EXCEPT ![tm.target] = NULL]
    /\ schedLock' = FALSE
    /\ tm' = Doing("none", "call", NULL, tm.target)
    /\ UNCHANGED threadLock

\* ipcFreeBlockedThreads, once the stack is freed: the next thread in threadList
\* that waits for the dead one is set ready, until there is none.
TmFree ==
    /\ At("free")
    /\ LET waiting == {u \in Thread : /\ sched.status[u] = "BLOCKED"
                                      /\ waitsFor[u] = tm.dead}
       IN  \/ waiting = {} /\ tm' = Doing("none", "serve", NULL, NULL)
           \/ \E u \in waiting : tm' = Doing("none", "setready", u, tm.dead)
    /\ UNCHANGED <<sched, waitsFor, threadLock, schedLock>>

-----------------------------------------------------------------------------
\* tmMain has started the permanent threads and enters its loop.
Init ==
    /\ sched = [ running |-> TM,
                 status  |-> [t \in Thread |-> IF t = TM THEN "RUNNING"
                                              ELSE IF t \in Permanent THEN "READY"
                                              ELSE "ABSENT"],
                 ready   |-> BootOrder,
                 blocked |-> [p \in Priority |-> {}] ]
    /\ waitsFor = [t \in Thread |-> NULL]
    /\ threadLock = FALSE
    /\ schedLock = FALSE
    /\ tm = Doing("none", "serve", NULL, NULL)

TmStep == TmTables \/ TmLock \/ TmInsert \/ TmSetReady \/ TmRemove \/ TmFree

Syscall(t) ==
    \/ \E u \in Thread : SyscallWakes(t, u)
    \/ SyscallSchedules(t)
    \/ SyscallBlocks(t)

Next ==
    \/ ClockInterrupt
    \/ \E t \in Thread : Syscall(t)
    \/ TmBegin
    \/ TmStep

Spec == Init /\ [][Next]_vars

\* The clock keeps ticking, and TM, when it has the processor, executes its
\* program up to its next system call.  A tick that gives up changes nothing;
\* neither do ticks when there is nobody else to run.
Fairness ==
    /\ WF_vars(ClockInterrupt)
    /\ WF_vars(TmStep)
    /\ WF_vars(tm.pc = "call" /\ SyscallSchedules(TM))

FairSpec == Spec /\ Fairness

-----------------------------------------------------------------------------
(* Properties *)

\* A thread is READY or RUNNING exactly when it is in the ready list of its
\* level, once and in no other list; it is BLOCKED exactly when it is in the
\* blocked list (the list swaps of schedulerSetReady and schedulerSetBlocked,
\* interleaved with TM's insertions and removals).
ListsMatchStatus == ListsAgree(sched)

\* scheduler.running is the only RUNNING thread: outside an exception handler
\* it never points to a thread that went to sleep.
RunningIsRunning ==
    \A t \in Thread : sched.status[t] = "RUNNING" <=> t = sched.running

\* No thread is READY at a more urgent level than the running thread: every
\* path that wakes a thread also reschedules, or belongs to a kernel thread.
MostUrgentRuns ==
    \A t \in Thread : sched.status[t] = "READY" =>
        PriorityOf[sched.running] <= PriorityOf[t]

\* While a lock is taken TM keeps the processor.  So lock() in a handler never
\* spins with interrupts off, and no thread makes a system call while the
\* thread tables are being updated.
LockHolderRuns == schedLock \/ threadLock => sched.running = TM

\* What TM is about to put into the ready list, or to take out of the lists, is still
\* what it saw before it took the lock: nobody else wakes a thread that TM is to wake,
\* since a new one waits for nobody and the others wait for a thread that is dead.
TargetUnchanged ==
    /\ tm.pc \in {"insert", "inserting"} => sched.status[tm.target] = "ABSENT"
    /\ tm.pc \in {"setready", "readying"} => sched.status[tm.target] = "BLOCKED"
    /\ tm.pc = "removing" => sched.status[tm.target] \in {"READY", "BLOCKED"}

\* The idle thread can always run, so schedule() always finds a thread.
IdleCanRun == Active(sched, Idle)

\* Only sleeping threads wait for a message.
WaitersSleep == \A t \in Thread : waitsFor[t] # NULL => sched.status[t] = "BLOCKED"

\* Where TM is in its program tells which lock it holds and what it knows about
\* its target and the dead thread.
TmKnowsTarget ==
    /\ schedLock <=> tm.pc \in {"inserting", "readying", "removing"}
    /\ threadLock <=> tm.pc = "tables"
    /\ tm.pc \in {"tables", "insert", "inserting", "remove", "removing"} =>
        tm.target \in Thread \ Permanent /\ tm.dead = NULL
    /\ tm.pc \in {"setready", "readying"} =>
        tm.target \in Thread /\ waitsFor[tm.target] = tm.dead
    /\ tm.pc \in {"serve", "call", "free"} => tm.target = NULL
    /\ tm.pc = "serve" => tm.dead = NULL
    /\ tm.dead # NULL => sched.status[tm.dead] = "ABSENT"
    /\ tm.pc = "tables" =>
        IF tm.op = "start" THEN sched.status[tm.target] = "ABSENT"
                           ELSE sched.status[tm.target] # "ABSENT"
    /\ tm.pc \in {"remove", "removing"} => sched.status[tm.target] # "ABSENT"

\* The invariant that every step preserves on its own.
IndInv ==
    /\ TypeOK
    /\ ListsMatchStatus
    /\ RunningIsRunning
    /\ MostUrgentRuns
    /\ LockHolderRuns
    /\ TargetUnchanged
    /\ IdleCanRun
    /\ WaitersSleep
    /\ TmKnowsTarget

\* "which results in a fine priority round-robin scheduling": a READY thread
\* gets the processor, or stops being READY, or a more urgent level runs.
RoundRobin ==
    \A t \in Thread :
        sched.status[t] = "READY" ~>
            \/ sched.status[t] # "READY"
            \/ PriorityOf[sched.running] < PriorityOf[t]
=============================================================================
