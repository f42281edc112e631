-------------------------------- MODULE TMIPC --------------------------------
(***************************************************************************)
(* Message passing (Threads/TMIPC.c) with the threads that live on it: the *)
(* thread manager TM (TMMain.c, TMThread.c), the memory manager MM, device *)
(* drivers, user threads and the idle thread.                              *)
(*                                                                         *)
(* A system call runs in an exception handler with interrupts off, so each *)
(* one is one step of its caller.  Between two of its steps a thread can   *)
(* be preempted by the clock.  todo[t] is the rest of the program that t   *)
(* is executing, as a sequence of instructions: system calls for all       *)
(* threads, and for TM its own changes of the tables and lists.  Those     *)
(* that TM makes with a lock held are one step too, because nobody else    *)
(* runs meanwhile (LockHolderRuns of TMScheduler).                         *)
(*                                                                         *)
(* What a server does between two system calls is left out, and so are the *)
(* data in messages except the victim of a kill.                           *)
(***************************************************************************)
EXTENDS SchedulerLists

CONSTANTS
    TM, MM, Idle,       \* threads of the kernel
    Drivers,            \* device threads (kernel)
    UserIds,            \* the user threads, in the order of their ids
    UserOps,            \* the kinds of instruction that user threads execute
    MAXNBMSGINQUEUE,
    ANY                 \* "from any thread" in a receive

Users   == Range(UserIds)
Servers == {MM} \cup Drivers
Known   == {TM, MM, Idle} \cup Drivers   \* started before the first user

ASSUME IPCAssumption ==
    /\ Thread = Known \cup Users
    /\ Cardinality({TM, MM, Idle}) = 3
    /\ UserIds \in Seq(Thread) /\ IsInjective(UserIds) /\ UserIds # << >>
    /\ IsFiniteSet(Drivers)
    /\ Drivers \cap (Users \cup {TM, MM, Idle}) = {}
    /\ Users \cap {TM, MM, Idle} = {}
    /\ \A t \in Thread : PriorityOf[t] = CASE t = Idle     -> 2
                                           [] t \in Users  -> 1
                                           [] OTHER        -> 0
    /\ MAXNBMSGINQUEUE \in Nat \ {0}
    /\ ANY \notin Thread \cup {NULL}

VARIABLES
    k,           \* what the handlers keep, in KernelState
    threadList,  \* threadList and, having the same members, threadHashList
    nextId,      \* nextUserThreadId: UserIds[nextId] is the next one
    todo         \* todo[t]: the instructions that t has yet to execute

vars == <<k, threadList, nextId, todo>>

ReplyTo == [TM_START |-> "TM_STARTREPLY", TM_KILL |-> "TM_KILLREPLY",
            VM_CALL |-> "VM_REPLY", IO_CALL |-> "IO_REPLY"]
MessageId == {"ANYMSGTYPE", "TM_START", "TM_EXIT", "TM_KILL", "VM_CALL",
              "VM_CLEANUP", "IO_CALL", "TM_STARTREPLY", "TM_KILLREPLY",
              "VM_REPLY", "IO_REPLY", "UNKNOWN_SYSCALL", "DATA"}

Message == [from : Thread, id : MessageId, arg : Thread \cup {NULL}]
Empty   == [from |-> NULL, id |-> "ANYMSGTYPE", arg |-> NULL]

NotWaiting == [status |-> "NOT_WAITING", from |-> NULL, id |-> "ANYMSGTYPE"]

KernelState ==
    [ sched : Scheduler,
      queue : [Thread -> Seq(Message)],
      pend  : [Thread -> [status : {"NOT_WAITING", "WAITING", "FILLED"},
                          from : Thread \cup {ANY, NULL}, id : MessageId]],
      inbox : [Thread -> Message \cup {Empty}],   \* *msgPtr of a receive
      ret   : [Thread -> {"OK", "FAILED"}] ]      \* what the receive returned

running == k.sched.running
Status(t) == k.sched.status[t]
Exists(t) == t \in Range(threadList)

-----------------------------------------------------------------------------
(* Exception context *)

\* schedule() and its call of ipcResetPendingFlag
Reschedule(s) ==
    LET new == schedule(s.sched)
    IN  [s EXCEPT !.sched = new, !.pend[new.running] = NotWaiting]

Matches(m, from, id) ==
    /\ from \in {ANY, m.from}
    /\ id \in {"ANYMSGTYPE", m.id}

\* Wrong: a waiting thread gets whatever arrives.
ExpectedAnything(s, to, m) ==
    /\ s.sched.status[to] = "BLOCKED"
    /\ s.pend[to].status = "WAITING"

\* kSend compares the expected sender with the running thread, not with the
\* sender that the message names.
Expected(s, to, m) ==
    /\ s.sched.status[to] = "BLOCKED"
    /\ s.pend[to].status = "WAITING"
    /\ s.pend[to].from \in {ANY, s.sched.running}
    /\ s.pend[to].id \in {"ANYMSGTYPE", m.id}

\* Wrong: the receiver gets its message but is not woken.
PutWithoutWakeup(s, to, m) ==
    IF Expected(s, to, m)
    THEN [s EXCEPT !.pend[to].status = "FILLED", !.inbox[to] = m]
    ELSE [s EXCEPT !.queue[to] = Append(@, m)]

\* The message goes to the waiting receiver, or else into its queue.
Put(s, to, m) ==
    IF Expected(s, to, m)
    THEN [s EXCEPT !.pend[to].status = "FILLED",
                   !.inbox[to] = m,
                   !.sched = schedulerSetReady(@, to)]
    ELSE [s EXCEPT !.queue[to] = Append(@, m)]

Accepts(s, to, m) == Expected(s, to, m) \/ Len(s.queue[to]) < MAXNBMSGINQUEUE

\* addMessageInQueue on a full queue: a user thread is killed, others are left
\* alone; the message is lost.
Overflow(s, to) ==
    LET kill == [from |-> TM, id |-> "TM_KILL", arg |-> to]
    IN  IF to \in Users /\ Accepts(s, TM, kill)
        THEN Reschedule(Put(s, TM, kill))
        ELSE s

\* Wrong: without the call of schedule() at the end.
kSendWithoutSchedule(s, to, m) ==
    IF ~Exists(to) THEN s
    ELSE IF Accepts(s, to, m) THEN Put(s, to, m)
    ELSE Overflow(s, to)

kSend(s, to, m) ==
    IF ~Exists(to) THEN s
    ELSE IF Accepts(s, to, m) THEN Reschedule(Put(s, to, m))
    ELSE Overflow(s, to)

\* TM_OK
Sent(s, to, m) == Exists(to) /\ Accepts(s, to, m)

FirstMatch(q, from, id) == SelectInSeq(q, LAMBDA m : Matches(m, from, id))

\* Wrong: a receive that does not look into the queue.
kRecvWaitsAlways(s, t, from, id) ==
    IF from # ANY /\ ~Exists(from)
    THEN [s EXCEPT !.ret[t] = "FAILED", !.inbox[t] = Empty]
    ELSE Reschedule(
         [s EXCEPT !.ret[t] = "OK",
                   !.inbox[t] = Empty,
                   !.pend[t] = [status |-> "WAITING", from |-> from, id |-> id],
                   !.sched = schedulerSetBlocked(@, t)])

\* The receive of msgDispatcher, with kRecv and getMessageFromQueue.
kRecv(s, t, from, id) ==
    LET i == FirstMatch(s.queue[t], from, id)
    IN  IF from # ANY /\ ~Exists(from)
        THEN [s EXCEPT !.ret[t] = "FAILED", !.inbox[t] = Empty]
        ELSE IF i # 0
        THEN [s EXCEPT !.ret[t] = "OK",
                       !.inbox[t] = s.queue[t][i],
                       !.queue[t] = RemoveAt(@, i)]
        ELSE Reschedule(
             [s EXCEPT !.ret[t] = "OK",
                       !.inbox[t] = Empty,
                       !.pend[t] = [status |-> "WAITING", from |-> from, id |-> id],
                       !.sched = schedulerSetBlocked(@, t)])

-----------------------------------------------------------------------------
(* Programs *)

Instr(do, to, id, arg) == [do |-> do, to |-> to, id |-> id, arg |-> arg]
Send(to, id, arg) == Instr("send", to, id, arg)
Call(to, id, arg) == Instr("call", to, id, arg)     \* genericSyscall
Recv(from, id)    == Instr("recv", from, id, NULL)
Own(do, t)        == Instr(do, t, "ANYMSGTYPE", NULL)

\* The loop of every server: receive a message, then switch on it.
MainLoop == <<Recv(ANY, "ANYMSGTYPE"), Own("serve", NULL)>>

\* After tmExit a thread has no code to execute.
Beyond == Own("beyond", NULL)

\* What a user thread may do next: messages among users, one that TM does not
\* know, and every system call.
UserInstr ==
    {i \in {Send(u, "DATA", NULL) : u \in Users \cup {TM}}
           \cup {Recv(f, "DATA") : f \in Users \cup {ANY}}
           \cup {Recv(ANY, "ANYMSGTYPE")}
           \cup {Call(TM, "TM_KILL", x) : x \in Users \cup {MM}}
           \cup {Call(TM, "TM_START", NULL), Call(MM, "VM_CALL", NULL)}
           \cup {Call(d, "IO_CALL", NULL) : d \in Drivers}
           \cup {Own("exit", NULL), Own("fault", NULL), Own("yield", NULL)} :
        i.do \in UserOps}

\* Wrong: without ipcFreeBlockedThreads.
DestroyLeavesBlocked(x) ==
    IF ~Exists(x) THEN << >>
    ELSE <<Own("unhash", x), Own("unschedule", x),
           Call(MM, "VM_CALL", NULL), Send(MM, "VM_CLEANUP", NULL)>>

\* hashListGet comes first: it returns without effect if x does not exist.
threadDestroy(x) ==
    IF ~Exists(x) THEN << >>
    ELSE <<Own("unhash", x), Own("unschedule", x),
           Call(MM, "VM_CALL", NULL), Send(MM, "VM_CLEANUP", NULL),
           Own("freeblocked", x)>>

\* A user thread that tries to kill a kernel thread is killed itself.
threadKill(x, killer) ==
    IF killer \in Users /\ x \notin Users THEN threadDestroy(killer)
                                          ELSE threadDestroy(x)

threadStart ==
    IF nextId > Len(UserIds) THEN << >>
    ELSE <<Call(MM, "VM_CALL", NULL), Own("hash", UserIds[nextId]),
           Call(MM, "VM_CALL", NULL), Own("build", UserIds[nextId]),
           Own("ready", UserIds[nextId])>>

\* Wrong: a failing threadStart that is not answered.
TmServeQuietly(m) ==
    CASE m.id = "TM_START" ->
            IF threadStart = << >> THEN << >>
            ELSE threadStart \o <<Send(m.from, "TM_STARTREPLY", NULL)>>
      [] m.id = "TM_EXIT"  -> threadDestroy(m.from)
      [] m.id = "TM_KILL"  ->
            threadKill(m.arg, m.from) \o <<Send(m.from, "TM_KILLREPLY", NULL)>>
      [] m.id = "TM_KILLREPLY" -> << >>
      [] OTHER -> <<Send(m.from, "UNKNOWN_SYSCALL", NULL)>>

\* The switch of tmMain's loop.
TmServe(m) ==
    CASE m.id = "TM_START" ->
            threadStart \o <<Send(m.from, "TM_STARTREPLY", NULL)>>
      [] m.id = "TM_EXIT"  -> threadDestroy(m.from)
      [] m.id = "TM_KILL"  ->
            threadKill(m.arg, m.from) \o <<Send(m.from, "TM_KILLREPLY", NULL)>>
      [] m.id = "TM_KILLREPLY" -> << >>
      [] OTHER -> <<Send(m.from, "UNKNOWN_SYSCALL", NULL)>>

\* Wrong: a server that does not answer its calls.
ServerServeQuietly(m) ==
    IF m.id \in {"VM_CALL", "IO_CALL", "VM_CLEANUP", "TM_KILLREPLY"} THEN << >>
    ELSE <<Send(m.from, "UNKNOWN_SYSCALL", NULL)>>

\* The switch of mmMain's and ioDeviceMain's loops.
ServerServe(m) ==
    CASE m.id \in {"VM_CALL", "IO_CALL"} -> <<Send(m.from, ReplyTo[m.id], NULL)>>
      [] m.id \in {"VM_CLEANUP", "TM_KILLREPLY"} -> << >>
      [] OTHER -> <<Send(m.from, "UNKNOWN_SYSCALL", NULL)>>

-----------------------------------------------------------------------------
(* Steps of the running thread *)

\* A driver may fault at any point of its work on a request: the buffer it was
\* given need not be mapped.
NextInstr(t) ==
    IF todo[t] = << >>
    THEN IF t \in Users THEN UserInstr ELSE {}
    ELSE {Head(todo[t])}
         \cup IF t \in Drivers /\ Head(todo[t]).id = "IO_REPLY"
              THEN {Own("fault", NULL)} ELSE {}

Rest(t) == IF todo[t] = << >> THEN << >> ELSE Tail(todo[t])

\* tmMsgSend, and genericSyscall, which gives up if the send fails.
SendStep(t, i) ==
    LET m == [from |-> t, id |-> i.id, arg |-> i.arg]
    IN  /\ i.do \in {"send", "call"}
        /\ k' = kSend(k, i.to, m)
        /\ todo' = [todo EXCEPT ![t] =
                IF i.do = "call" /\ Sent(k, i.to, m)
                THEN <<Recv(i.to, ReplyTo[i.id])>> \o Rest(t)
                ELSE Rest(t)]
        /\ UNCHANGED <<threadList, nextId>>

RecvStep(t, i) ==
    /\ i.do = "recv"
    /\ k' = kRecv(k, t, i.to, i.id)
    /\ todo' = [todo EXCEPT ![t] = Rest(t)]
    /\ UNCHANGED <<threadList, nextId>>

\* tmExit tries until it succeeds.
ExitStep(t, i) ==
    LET m == [from |-> t, id |-> "TM_EXIT", arg |-> NULL]
    IN  /\ i.do = "exit"
        /\ k' = kSend(k, TM, m)
        /\ todo' = [todo EXCEPT ![t] = IF Sent(k, TM, m) THEN <<Beyond>> ELSE <<i>>]
        /\ UNCHANGED <<threadList, nextId>>

\* tmError and mmError: the handler asks TM to kill the thread, which comes
\* back to the faulting instruction if it ever runs again.
FaultStep(t, i) ==
    /\ i.do = "fault"
    /\ \E from \in {TM, MM} :
          k' = kSend(k, TM, [from |-> from, id |-> "TM_KILL", arg |-> t])
    /\ todo' = [todo EXCEPT ![t] = <<i>>]
    /\ UNCHANGED <<threadList, nextId>>

\* threadYield
YieldStep(t, i) ==
    /\ i.do = "yield"
    /\ k' = Reschedule(k)
    /\ todo' = [todo EXCEPT ![t] = Rest(t)]
    /\ UNCHANGED <<threadList, nextId>>

ServeStep(t, i) ==
    LET m == k.inbox[t]
    IN  /\ i.do = "serve"
        /\ k' = [k EXCEPT !.inbox[t] = Empty]
        /\ todo' = [todo EXCEPT ![t] =
                (IF t = TM THEN TmServe(m) ELSE ServerServe(m)) \o MainLoop]
        /\ UNCHANGED <<threadList, nextId>>

-----------------------------------------------------------------------------
(* TM's own instructions *)

\* getThreadId, and the insertions under threadLock.
Hash(i) ==
    /\ i.do = "hash"
    /\ threadList' = <<i.to>> \o threadList
    /\ nextId' = nextId + 1
    /\ todo' = [todo EXCEPT ![TM] = Rest(TM)]
    /\ UNCHANGED k

\* threadBuild: initMsgQueue and schedulerInsert
Build(i) ==
    /\ i.do = "build"
    /\ k' = [k EXCEPT !.sched = schedulerInsert(@, i.to), !.queue[i.to] = << >>]
    /\ todo' = [todo EXCEPT ![TM] = Rest(TM)]
    /\ UNCHANGED <<threadList, nextId>>

Ready(i) ==
    /\ i.do = "ready"
    /\ k' = [k EXCEPT !.sched = schedulerSetReady(@, i.to)]
    /\ todo' = [todo EXCEPT ![TM] = Rest(TM)]
    /\ UNCHANGED <<threadList, nextId>>

\* The removals under threadLock.
Unhash(i) ==
    /\ i.do = "unhash"
    /\ threadList' = RemoveFirst(threadList, i.to)
    /\ todo' = [todo EXCEPT ![TM] = Rest(TM)]
    /\ UNCHANGED <<k, nextId>>

\* schedulerRemove; what the thread was doing and its messages are gone.
Unschedule(i) ==
    /\ i.do = "unschedule"
    /\ k' = [k EXCEPT !.sched = schedulerRemove(@, i.to),
                      !.queue[i.to] = << >>,
                      !.pend[i.to] = NotWaiting,
                      !.inbox[i.to] = Empty,
                      !.ret[i.to] = "OK"]
    /\ todo' = [todo EXCEPT ![TM] = Rest(TM), ![i.to] = << >>]
    /\ UNCHANGED <<threadList, nextId>>

\* ipcFreeBlockedThreads(x) walks through threadList ...
FreeBlocked(i) ==
    /\ i.do = "freeblocked"
    /\ todo' = [todo EXCEPT ![TM] =
            [n \in DOMAIN threadList |->
                Instr("visit", threadList[n], "ANYMSGTYPE", i.to)] \o Rest(TM)]
    /\ UNCHANGED <<k, threadList, nextId>>

\* ... and looks at each thread: does it wait for a message from x?
Visit(i) ==
    /\ i.do = "visit"
    /\ IF Status(i.to) = "BLOCKED" /\ k.pend[i.to].from = i.arg
       THEN /\ k' = [k EXCEPT !.ret[i.to] = "FAILED"]
            /\ todo' = [todo EXCEPT ![TM] = <<Own("ready", i.to)>> \o Rest(TM)]
       ELSE /\ todo' = [todo EXCEPT ![TM] = Rest(TM)]
            /\ UNCHANGED k
    /\ UNCHANGED <<threadList, nextId>>

-----------------------------------------------------------------------------
ClockInterrupt ==
    /\ k' = Reschedule(k)
    /\ UNCHANGED <<threadList, nextId, todo>>

Step(t) ==
    /\ running = t
    /\ \E i \in NextInstr(t) :
        \/ SendStep(t, i) \/ RecvStep(t, i) \/ ExitStep(t, i)
        \/ FaultStep(t, i) \/ YieldStep(t, i) \/ ServeStep(t, i)

TmStep ==
    /\ running = TM
    /\ \E i \in NextInstr(TM) :
        \/ Hash(i) \/ Build(i) \/ Ready(i) \/ Unhash(i) \/ Unschedule(i)
        \/ FreeBlocked(i) \/ Visit(i)

\* The servers wait for requests and the first user thread runs.
Init ==
    LET waits(t) == t \in {TM, MM} \cup Drivers
        u == UserIds[1]
    IN  /\ k = [ sched |->
                   [ running |-> u,
                     status  |-> [t \in Thread |->
                                    CASE t = u -> "RUNNING"
                                      [] t = Idle -> "READY"
                                      [] waits(t) -> "BLOCKED"
                                      [] OTHER -> "ABSENT"],
                     ready   |-> [p \in Priority |->
                                    CASE p = 1 -> <<u>>
                                      [] p = 2 -> <<Idle>>
                                      [] OTHER -> << >>],
                     blocked |-> [p \in Priority |->
                                    IF p = 0 THEN {t \in Thread : waits(t)} ELSE {}] ],
                 queue |-> [t \in Thread |-> << >>],
                 pend  |-> [t \in Thread |->
                              IF waits(t) THEN [status |-> "WAITING", from |-> ANY,
                                                id |-> "ANYMSGTYPE"]
                                          ELSE NotWaiting],
                 inbox |-> [t \in Thread |-> Empty],
                 ret   |-> [t \in Thread |-> "OK"] ]
        /\ threadList = <<u>> \o SetToSeq(Known)
        /\ nextId = 2
        /\ todo = [t \in Thread |-> IF waits(t) THEN <<Own("serve", NULL)>>
                                                ELSE << >>]

Next ==
    \/ ClockInterrupt
    \/ \E t \in Thread : Step(t)
    \/ TmStep

Spec == Init /\ [][Next]_vars

\* The clock keeps ticking, and a thread that has something to execute and gets
\* the processor again and again does so: a time slice is not empty.
Fairness ==
    /\ WF_vars(ClockInterrupt)
    /\ SF_vars(Step(TM) \/ TmStep)
    /\ \A s \in Servers : SF_vars(Step(s))
    /\ \A u \in Users : SF_vars(todo[u] # << >> /\ Step(u))

FairSpec == Spec /\ Fairness

-----------------------------------------------------------------------------
(* Properties *)

Waits(t) == Status(t) = "BLOCKED" /\ k.pend[t].status = "WAITING"

AtMainLoop(t) ==
    /\ Waits(t)
    /\ todo[t] = <<Own("serve", NULL)>>
    /\ k.queue[t] = << >>

\* A user thread runs only while TM and MM wait in their main loops and have no
\* request left.  So no user sees a thread that is half started or half
\* destroyed, and none runs on after TM was told to end it.
ServersFirst ==
    running \in Users \cup {Idle} => AtMainLoop(TM) /\ AtMainLoop(MM)

\* A thread does not sleep on a message that is in its queue already.
NoLostWakeup ==
    \A t \in Thread : Waits(t) =>
        FirstMatch(k.queue[t], k.pend[t].from, k.pend[t].id) = 0

\* After a successful tmExit a thread never gets the processor again: it has
\* no code left to execute (automaticThreadExit ends with the system call).
RunsNoGarbage == todo[running] # <<Beyond>>

\* A thread that waits for a message from a thread that is gone is still to be
\* visited by ipcFreeBlockedThreads: "no infinite waiting for msg!".
NoWaitForDead ==
    \A t \in Thread : LET x == k.pend[t].from IN
        Waits(t) /\ x # ANY /\ ~Exists(x) =>
            \E i \in Range(todo[TM]) :
                \/ i = Own("freeblocked", x)
                \/ i.do = "visit" /\ i.to = t /\ i.arg = x
                \/ i = Own("ready", t)

\* s has t's request, or the reply is among the things it will do.
Owes(s, t) ==
    \/ \E m \in Range(k.queue[s]) : m.from = t
    \/ k.inbox[s].from = t /\ Own("serve", NULL) = Head(todo[s])
    \/ \E i \in Range(todo[s]) : i.do = "send" /\ i.to = t
    \/ \E i \in Range(todo[s]) : i.do = "fault"

\* Nobody waits for a reply that will not come.
CallsAreServed ==
    \A t \in Thread :
        Waits(t) /\ k.pend[t].id \in Range(ReplyTo) /\ Exists(k.pend[t].from)
            => Owes(k.pend[t].from, t)

\* A waiting thread is woken with a message that it asked for, or with
\* TM_MSGRECVFAILED because the thread it waited for is gone.
WokenForAReason ==
    [][\A t \in Thread :
        Waits(t) /\ Status(t)' \in {"READY", "RUNNING"} =>
            \/ /\ k'.ret[t] = "OK"
               /\ Matches(k'.inbox[t], k.pend[t].from, k.pend[t].id)
            \/ /\ k'.ret[t] = "FAILED"
               /\ k.pend[t].from # ANY /\ ~Exists(k.pend[t].from)]_vars

\* TM always gets back to its main loop, whatever happens to the threads that
\* it deals with.
TmReturns == []<>AtMainLoop(TM)

\* tmExit: "try until we succeed", and then "the sender does no longer exist".
Exits(t) == todo[t] \in {<<Own("exit", NULL)>>, <<Beyond>>}
ExitHappens == \A t \in Users : Exits(t) ~> ~Exits(t)
=============================================================================
