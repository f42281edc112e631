----------------------------- MODULE KernelLocks -----------------------------
(***************************************************************************)
(* The three spin locks of the kernel and the threads that take them:      *)
(*                                                                         *)
(*   hmLock      the kernel heap (Memory/MMHeapMemory.c).  Every insertion *)
(*               into or removal from a list or hash list takes it too,    *)
(*               because cells come from the heap.                         *)
(*   threadLock  the global thread tables, taken by TM                     *)
(*   schedLock   the scheduler's lists, taken by TM and, with interrupts   *)
(*               off, by system calls                                      *)
(*                                                                         *)
(* todo[t] is the rest of t's program: locks taken and released, changes   *)
(* of the scheduler's lists, requests and answers.  A clock interrupt may  *)
(* come between any two instructions.  The module starts where tmInit      *)
(* restores the first context, so the boot of the I/O thread, with TM      *)
(* still starting threads, is part of it.                                  *)
(*                                                                         *)
(* What is done under a lock to the heap, the tables and the regions is    *)
(* left out, and so is everything of a message but its request.            *)
(***************************************************************************)
EXTENDS SchedulerLists

CONSTANTS
    TM, MM, IO, Driver, Idle,   \* the kernel's threads
    Shell,                      \* the user thread that tmMain starts
    Users,                      \* user threads, Shell among them
    UserOps                     \* the operations users ask for

Servers == {TM, MM, IO, Driver}
LockName == {"hmLock", "threadLock", "schedLock"}

ASSUME LocksAssumption ==
    /\ IsInjective(<<TM, MM, IO, Driver, Idle>>)
    /\ Shell \in Users
    /\ Thread = Servers \cup {Idle} \cup Users
    /\ Users \cap (Servers \cup {Idle}) = {}
    /\ \A t \in Thread : PriorityOf[t] = CASE t = Idle    -> 2
                                           [] t \in Users -> 1
                                           [] OTHER       -> 0

VARIABLES
    sched,      \* the scheduler record
    owner,      \* who holds each lock, NULL when it is free
    todo,       \* the instructions that each thread has yet to execute
    mail,       \* the requests waiting for each server
    answered    \* the threads whose answer has arrived

vars == <<sched, owner, todo, mail, answered>>

-----------------------------------------------------------------------------
(* Programs *)

Request(op, from, arg) == [op |-> op, from |-> from, arg |-> arg]
NoRequest == Request("none", NULL, NULL)
Instr(do, on, req) == [do |-> do, on |-> on, req |-> req]

Lock(l)      == Instr("lock", l, NoRequest)
Unlock(l)    == Instr("unlock", l, NoRequest)
Change(do, t) == Instr(do, t, NoRequest)    \* of the scheduler's lists
Send(s, req) == Instr("send", s, req)
Reply(t)     == Instr("reply", t, NoRequest)
Await        == Instr("await", NULL, NoRequest)

Under(l, body) == <<Lock(l)>> \o body \o <<Unlock(l)>>

\* genericSyscall
Call(s, req) == <<Send(s, req), Await>>

\* hmAlloc or hmFree
Hm == Under("hmLock", << >>)

\* schedulerInsert, listAddInFront included
schedulerInsertBy(c) == Under("schedLock", Hm \o <<Change("insert", c)>>)
schedulerSetReadyBy(c) == Under("schedLock", <<Change("setready", c)>>)
schedulerRemoveBy(c) == Under("schedLock", <<Change("remove", c)>> \o Hm)

\* The idle thread is lightweight and has no stack; a user's stack is moved
\* to user space once the thread is in the tables.
threadStart(c) ==
    Hm
    \o (IF c = Idle THEN << >> ELSE Call(MM, Request("VM_ALLOC", TM, NULL)))
    \o Under("threadLock", Hm \o Hm)
    \o (IF c \in Users THEN Call(MM, Request("VM_MOVE", TM, NULL)) ELSE << >>)
    \o schedulerInsertBy(c)
    \o schedulerSetReadyBy(c)

\* ipcFreeBlockedThreads, which follows, takes schedLock only for a thread
\* that waits for c; nobody waits for a user thread here.  A thread that is
\* not in the tables, since another one was faster, is left alone.
threadDestroy(c) ==
    IF sched.status[c] = "ABSENT" THEN << >>
    ELSE Under("threadLock", Hm \o Hm)
         \o schedulerRemoveBy(c)
         \o Call(MM, Request("VM_FREE", TM, NULL))
         \o Hm
         \o <<Send(MM, Request("VM_CLEANUP", TM, NULL))>>

\* A thread that a user starts gets any free descriptor; the only thread that a
\* kernel thread starts is the driver's.  There may be none left for it.
StartedBy(t) ==
    LET free == {u \in Users : sched.status[u] = "ABSENT"}
    IN  IF t = IO THEN {threadStart(Driver)}
        ELSE IF free = {} THEN {Hm}
        ELSE {threadStart(u) : u \in free}

\* Wrong: the idle thread is not started.
TmBootWithoutIdle == threadStart(IO) \o threadStart(Shell)

\* tmMain, before its loop
TmBoot == threadStart(IO) \o threadStart(Shell) \o threadStart(Idle)

\* The driver's thread is started and entered into the table of devices.
ioLoadDriver == Call(TM, Request("TM_START", IO, NULL)) \o Hm

\* ioMain before its loop: hashListNew, the driver's init, ioLoadDriver
IoBoot == Hm \o Hm \o Hm \o ioLoadDriver

\* The switch of tmMain's loop.
TmServe(r) ==
    CASE r.op = "TM_START" -> {p \o <<Reply(r.from)>> : p \in StartedBy(r.from)}
      [] r.op = "TM_KILL"  -> {threadDestroy(r.arg) \o <<Reply(r.from)>>}
      [] r.op = "TM_EXIT"  -> {threadDestroy(r.from)}

\* Wrong: the answer goes out before the work is done.
MmServeAnswersFirst(r) ==
    CASE r.op \in {"VM_ALLOC", "VM_FREE"} -> {<<Reply(r.from)>> \o Hm \o Hm}
      [] r.op = "VM_MOVE"    -> {<<Reply(r.from)>> \o Hm \o Hm \o Hm \o Hm}
      [] r.op = "VM_CLEANUP" -> {<< >>, Hm \o Hm}

\* The switch of mmMain's loop.  To allocate or free a region is to move its
\* descriptor from one list to another; to move one is to allocate and to
\* free; the cleanup frees the region that the thread still owns, if any.
MmServe(r) ==
    CASE r.op \in {"VM_ALLOC", "VM_FREE"} -> {Hm \o Hm \o <<Reply(r.from)>>}
      [] r.op = "VM_MOVE"    -> {Hm \o Hm \o Hm \o Hm \o <<Reply(r.from)>>}
      [] r.op = "VM_CLEANUP" -> {<< >>, Hm \o Hm}

\* Wrong: a close is answered by nobody.
IoServeDropsClose(r) == IF r.op = "IO_CLOSE" THEN << >> ELSE <<Reply(r.from)>>

\* ioMain forwards a close to the driver, which answers the client.
IoServe(r) ==
    IF r.op = "IO_CLOSE"
    THEN <<Send(Driver, Request("IO_DRIVERCLOSE", r.from, NULL))>>
    ELSE <<Reply(r.from)>>

\* A driver gets or returns its buffer and its descriptor in IO_INIT and in
\* IO_DRIVERCLOSE; reading and writing need no heap.
DriverServe(r) ==
    (IF r.op = "IO_READ" THEN << >> ELSE Hm \o Hm) \o <<Reply(r.from)>>

\* The programs a server may execute for request r.
Serve(s, r) ==
    CASE s = TM -> TmServe(r)
      [] s = MM -> MmServe(r)
      [] s = IO -> {IoServe(r)}
      [] s = Driver -> {DriverServe(r)}

\* What user t may ask for next.
UserPrograms(t) ==
    LET others == {Call(TM, Request("TM_KILL", t, u)) :
                      u \in {v \in Users : sched.status[v] # "ABSENT"}}
        own == {Call(TM, Request("TM_START", t, NULL)),
                Call(TM, Request("TM_EXIT", t, NULL)),
                Call(MM, Request("VM_ALLOC", t, NULL)),
                Call(IO, Request("IO_OPEN", t, NULL))}
        device == IF sched.status[Driver] = "ABSENT" THEN {}
                  ELSE {Call(IO, Request("IO_CLOSE", t, NULL)),
                        Call(Driver, Request("IO_INIT", t, NULL)),
                        Call(Driver, Request("IO_READ", t, NULL))}
    IN  {p \in others \cup own \cup device : p[1].req.op \in UserOps}

\* What a thread executes first.
FirstProgram(t) == IF t = IO THEN IoBoot ELSE << >>

-----------------------------------------------------------------------------
(* Exception context *)

\* Wrong: schedule() that looks at schedLock only.
TryScheduleOneLock(s) == IF owner["schedLock"] # NULL THEN s ELSE schedule(s)

\* schedule() knows of two of the three locks.
TrySchedule(s) ==
    IF owner["schedLock"] # NULL \/ owner["threadLock"] # NULL THEN s
    ELSE schedule(s)

ClockInterrupt ==
    /\ sched' = TrySchedule(sched)
    /\ UNCHANGED <<owner, todo, mail, answered>>

\* A handler that spun on schedLock would spin with interrupts off.
HandlerCanLock == owner["schedLock"] = NULL

\* t has the processor and executes such an instruction next.
IsAt(t, do) ==
    /\ sched.running = t
    /\ todo[t] # << >>
    /\ Head(todo[t]).do = do

\* Wrong: kSend without its call of schedule().
SendStepQuietly(t) ==
    LET i == Head(todo[t])
        idle == sched.status[i.on] = "BLOCKED" /\ todo[i.on] = << >>
    IN  /\ IsAt(t, "send")
        /\ HandlerCanLock
        /\ mail' = [mail EXCEPT ![i.on] = Append(@, i.req)]
        /\ sched' = IF idle THEN schedulerSetReady(sched, i.on) ELSE sched
        /\ todo' = [todo EXCEPT ![t] = Tail(@)]
        /\ UNCHANGED <<owner, answered>>

\* kSend to a server, which is woken if it waits in its main loop.
SendStep(t) ==
    LET i == Head(todo[t])
        idle == sched.status[i.on] = "BLOCKED" /\ todo[i.on] = << >>
    IN  /\ IsAt(t, "send")
        /\ HandlerCanLock
        /\ mail' = [mail EXCEPT ![i.on] = Append(@, i.req)]
        /\ sched' = TrySchedule(IF idle THEN schedulerSetReady(sched, i.on)
                                        ELSE sched)
        /\ todo' = [todo EXCEPT ![t] = Tail(@)]
        /\ UNCHANGED <<owner, answered>>

\* kSend of an answer: it fails if the thread is gone.
ReplyStep(t) ==
    LET u == Head(todo[t]).on
        waits == sched.status[u] = "BLOCKED" /\ todo[u] # << >>
    IN  /\ IsAt(t, "reply")
        /\ HandlerCanLock
        /\ IF sched.status[u] = "ABSENT" THEN UNCHANGED <<sched, answered>>
           ELSE /\ answered' = answered \cup {u}
                /\ sched' = TrySchedule(IF waits THEN schedulerSetReady(sched, u)
                                                 ELSE sched)
        /\ todo' = [todo EXCEPT ![t] = Tail(@)]
        /\ UNCHANGED <<owner, mail>>

\* The receive of a reply.
AwaitStep(t) ==
    /\ IsAt(t, "await")
    /\ HandlerCanLock
    /\ IF t \in answered
       THEN /\ answered' = answered \ {t}
            /\ todo' = [todo EXCEPT ![t] = Tail(@)]
            /\ UNCHANGED sched
       ELSE /\ sched' = TrySchedule(schedulerSetBlocked(sched, t))
            /\ UNCHANGED <<todo, answered>>
    /\ UNCHANGED <<owner, mail>>

\* The receive in a server's main loop.
ReceiveStep(s) ==
    /\ s \in Servers
    /\ sched.running = s
    /\ todo[s] = << >>
    /\ HandlerCanLock
    /\ IF mail[s] # << >>
       THEN /\ \E p \in Serve(s, Head(mail[s])) : todo' = [todo EXCEPT ![s] = p]
            /\ mail' = [mail EXCEPT ![s] = Tail(@)]
            /\ UNCHANGED sched
       ELSE /\ sched' = TrySchedule(schedulerSetBlocked(sched, s))
            /\ UNCHANGED <<todo, mail>>
    /\ UNCHANGED <<owner, answered>>

-----------------------------------------------------------------------------
(* Thread context *)

\* lock(): while the lock is taken the thread spins, which changes nothing.
LockStep(t) ==
    LET l == Head(todo[t]).on
    IN  /\ IsAt(t, "lock")
        /\ owner[l] = NULL
        /\ owner' = [owner EXCEPT ![l] = t]
        /\ todo' = [todo EXCEPT ![t] = Tail(@)]
        /\ UNCHANGED <<sched, mail, answered>>

UnlockStep(t) ==
    LET l == Head(todo[t]).on
    IN  /\ IsAt(t, "unlock")
        /\ owner' = [owner EXCEPT ![l] = NULL]
        /\ todo' = [todo EXCEPT ![t] = Tail(@)]
        /\ UNCHANGED <<sched, mail, answered>>

\* The parts of threadStart and threadDestroy that change the lists.  With its
\* context a thread loses what it was doing.
ChangeStep(t) ==
    LET c == Head(todo[t]).on
    IN  /\ \/ /\ IsAt(t, "insert")
              /\ sched' = schedulerInsert(sched, c)
              /\ todo' = [todo EXCEPT ![t] = Tail(@), ![c] = FirstProgram(c)]
              /\ UNCHANGED answered
           \/ /\ IsAt(t, "setready")
              /\ sched' = schedulerSetReady(sched, c)
              /\ todo' = [todo EXCEPT ![t] = Tail(@)]
              /\ UNCHANGED answered
           \/ /\ IsAt(t, "remove")
              /\ sched' = schedulerRemove(sched, c)
              /\ todo' = [todo EXCEPT ![t] = Tail(@), ![c] = << >>]
              /\ answered' = answered \ {c}
        /\ UNCHANGED <<owner, mail>>

\* A user thread decides what to do next.
UserStep(t) ==
    /\ t \in Users
    /\ sched.running = t
    /\ todo[t] = << >>
    /\ \E p \in UserPrograms(t) : todo' = [todo EXCEPT ![t] = p]
    /\ UNCHANGED <<sched, owner, mail, answered>>

-----------------------------------------------------------------------------
NoLists == [ running |-> TM,
             status  |-> [t \in Thread |-> "ABSENT"],
             ready   |-> [p \in Priority |-> << >>],
             blocked |-> [p \in Priority |-> {}] ]

\* tmInit: TM and MM are built and set ready, the first thread is picked.
Init ==
    /\ LET built == schedulerInsert(schedulerInsert(NoLists, MM), TM)
       IN  sched = schedule(schedulerSetReady(schedulerSetReady(built, MM), TM))
    /\ owner = [l \in LockName |-> NULL]
    /\ todo = [t \in Thread |-> IF t = TM THEN TmBoot ELSE << >>]
    /\ mail = [s \in Servers |-> << >>]
    /\ answered = {}

Step(t) ==
    \/ SendStep(t) \/ ReplyStep(t) \/ AwaitStep(t) \/ ReceiveStep(t)
    \/ LockStep(t) \/ UnlockStep(t) \/ ChangeStep(t)

Next ==
    \/ ClockInterrupt
    \/ \E t \in Thread : Step(t) \/ UserStep(t)

Spec == Init /\ [][Next]_vars

\* The clock keeps ticking, and a thread that gets the processor again and
\* again executes its program: a time slice is longer than an instruction.
\* Nothing makes a user thread ask for anything.
Fairness == WF_vars(ClockInterrupt) /\ \A t \in Thread : SF_vars(Step(t))

FairSpec == Spec /\ Fairness

-----------------------------------------------------------------------------
(* Properties *)

\* Every variable has its type, and the processor always has a thread to run,
\* also while the idle thread is not yet started ("the idle thread(s) guarantee
\* that we always find a ready thread").
TypeOK ==
    /\ sched \in Scheduler
    /\ sched.running \in Thread
    /\ owner \in [LockName -> Servers \cup {NULL}]
    /\ DOMAIN todo = Thread
    /\ DOMAIN mail = Servers
    /\ answered \subseteq Thread

\* Whoever holds threadLock or schedLock is the running thread, and it makes no
\* system call before it has released both: otherwise a handler spins on
\* schedLock, or TM is preempted in the middle of its tables.
LockHolderRuns ==
    \A l \in {"threadLock", "schedLock"} :
        owner[l] # NULL =>
            /\ sched.running = owner[l]
            /\ Head(todo[owner[l]]).do \notin {"send", "reply", "await"}

AtRest(s) == todo[s] = << >> /\ mail[s] = << >> /\ sched.status[s] # "READY"

\* A user thread runs only when every server waits for a request, with no
\* request left and no lock taken, during the boot as well: what the servers
\* do for one request is over before the next one is made.
KernelAtRest ==
    sched.running \in Users =>
        /\ \A s \in Servers : AtRest(s)
        /\ \A l \in LockName : owner[l] = NULL

\* When the first driver is there, TM has left tmMain's boot, and from then on it
\* never spins on the heap while it holds one of the locks that keep the others
\* from running: nobody is inside hmAlloc or hmFree then, but TM itself.
HeapLockFree ==
    sched.status[Driver] # "ABSENT" =>
        \A l \in {"threadLock", "schedLock"} :
            owner[l] # NULL => owner["hmLock"] \in {NULL, owner[l]}

\* A user thread has made a request, and its answer has not come yet.
Unanswered(t) ==
    todo[t] # << >> /\ Head(todo[t]) = Await /\ t \notin answered

\* Every request of a user thread is answered, or the thread is removed, whether it
\* sleeps meanwhile or is kept from running: no server forgets a request, and none
\* spins or sleeps for ever while it serves one.
RequestsAnswered == \A t \in Users : Unanswered(t) ~> ~Unanswered(t)

\* The comment in schedule(): "if it's locked we just give up because we must
\* give the thread manager a chance to release this lock".
SchedLockReleased == owner["schedLock"] # NULL ~> owner["schedLock"] = NULL
=============================================================================
