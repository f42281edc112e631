----------------------------- MODULE SystemCalls -----------------------------
(***************************************************************************)
(* What the system calls of Topsy/Syscall.c do to the user threads.        *)
(*                                                                         *)
(* The servers run at higher priorities than every user thread and come to *)
(* rest before one runs again, so that a call is one step for the users:   *)
(* what the scheduler, the message passing and the thread manager do       *)
(* inside of it is the subject of TMScheduler, TMIPC and KernelLocks.      *)
(*                                                                         *)
(* The answer of a server arrives before its caller receives it and takes  *)
(* a place in the caller's message queue: a thread that makes a call while *)
(* its queue is full is killed by the answer.                              *)
(***************************************************************************)
EXTENDS Contexts, FiniteSets, SequencesExt

CONSTANTS
    MaxThreads,         \* bound on the user threads that are ever started
    MAXNBMSGINQUEUE     \* length of a message queue

ASSUME CallsAssumption ==
    /\ MaxThreads \in Nat \ {0}
    /\ MAXNBMSGINQUEUE \in Nat \ {0}
    /\ NULL \notin 0..MaxThreads

UserThread == 1..MaxThreads
Idle == 0
Thread == {Idle} \cup UserThread

Alive(k, t) == k.status[t] \in {"READY", "BLOCKED"}

\* The threads the scheduler may choose: the idle thread if there is no other.
Candidates(k) ==
    LET ready == {t \in UserThread : k.status[t] = "READY"}
    IN  IF ready = {} THEN {Idle} ELSE ready

\* The registers of a thread, wherever they are.
RegistersOf(k, t) == IF t = k.running THEN k.cpu ELSE k.context[t]

-----------------------------------------------------------------------------
(* Effects *)

\* threadDestroy with ipcFreeBlockedThreads: who waits for a message of the
\* thread is woken, with a failed receive.
Destroy(k, t, why) ==
    LET waiting == {u \in UserThread \ {t} : k.status[u] = "BLOCKED" /\ k.from[u] = t}
    IN  IF ~Alive(k, t) THEN k
        ELSE [k EXCEPT
                !.status = [u \in UserThread |-> CASE u = t -> why
                                                   [] u \in waiting -> "READY"
                                                   [] OTHER -> @[u]],
                !.queue[t] = << >>,
                !.context = [u \in Thread |->
                                CASE u = t -> Dead
                                  [] u \in waiting -> [@[u] EXCEPT !.v0 = "FAILED"]
                                  [] OTHER -> @[u]],
                !.from = [u \in UserThread |->
                             IF u \in waiting \cup {t} THEN NULL ELSE @[u]]]

QueueFull(k, t) == Len(k.queue[t]) = MAXNBMSGINQUEUE

\* genericSyscall, for the calling thread t, with the value it returns
Answer(k, t, value) ==
    IF ~Alive(k, t) THEN k
    ELSE IF QueueFull(k, t) THEN Destroy(k, t, "overflowed")
    ELSE tmSetReturnValue(k, t, value)

\* tmStart: only the bound makes it fail.
Starts(k) == k.nextId \in UserThread

tmStart(k, t, function, parameter) ==
    LET new == k.nextId
    IN  IF Starts(k)
        THEN Answer([k EXCEPT !.nextId = new + 1,
                              !.status[new] = "READY",
                              !.parent[new] = t,
                              !.context[new] = NewContext(function, parameter)],
                    t, "OK")
        ELSE Answer(k, t, "FAILED")

\* tmKill.  threadKill does not look at what threadDestroy returns.
tmKill(k, t, victim) == Answer(Destroy(k, victim, "killed"), t, "OK")

\* A message is told apart by its sender only.
addMessageInQueue(k, to, t) == [k EXCEPT !.queue[to] = Append(@, t)]

FirstFrom(k, t, sender) == SelectInSeq(k.queue[t], LAMBDA s : s = sender)

getMessageFromQueue(k, t, sender) ==
    [k EXCEPT !.queue[t] = RemoveAt(@, FirstFrom(k, t, sender))]

\* tmMsgSend.  A full queue costs the receiver its life and the sender its
\* message.
tmMsgSend(k, t, to) ==
    IF ~Alive(k, to) THEN tmSetReturnValue(k, t, "FAILED")
    ELSE IF k.status[to] = "BLOCKED" /\ k.from[to] = t
    THEN tmSetReturnValue([k EXCEPT !.status[to] = "READY", !.from[to] = NULL],
                          t, "OK")
    ELSE IF QueueFull(k, to)
    THEN tmSetReturnValue(Destroy(k, to, "overflowed"), t, "FAILED")
    ELSE tmSetReturnValue(addMessageInQueue(k, to, t), t, "OK")

\* tmMsgRecv, whose timeout the kernel ignores.  The sender must exist, even if
\* a message of it is in the queue.
tmMsgRecv(k, t, sender) ==
    IF ~Alive(k, sender) THEN tmSetReturnValue(k, t, "FAILED")
    ELSE IF FirstFrom(k, t, sender) # 0
    THEN tmSetReturnValue(getMessageFromQueue(k, t, sender), t, "OK")
    ELSE tmSetReturnValue([k EXCEPT !.status[t] = "BLOCKED",
                                    !.from[t] = sender], t, "OK")

tmExit(k, t) == Destroy(k, t, "exited")

\* tmError and mmError
Fault(k, t) == Destroy(k, t, "faulted")
=============================================================================
