----------------------------- MODULE TMIPCProofs -----------------------------
(***************************************************************************)
(* Invariants of message passing for any number of threads and drivers and *)
(* queues of any length.                                                   *)
(*                                                                         *)
(* The thread manager's program is at every moment one of a few forms, and *)
(* each form says how far the thread that TM deals with has got into the   *)
(* tables and lists, or out of them (TmProgram below).  The handlers that  *)
(* other threads call leave that alone, so that it is enough to go through *)
(* TM's own steps.  First comes what the exception handlers do to a kernel *)
(* state that is sound (KernelSound).                                      *)
(*                                                                         *)
(* The second half is about users: TM and the servers have done their work *)
(* before a user thread runs, as long as no driver faults; and what user   *)
(* threads are promised is kept: who has exited does not run again, and    *)
(* who has called is answered.                                             *)
(***************************************************************************)
EXTENDS TMIPC, SchedulerListsProofs, FiniteSetTheorems

-----------------------------------------------------------------------------
(* The threads of the system *)

\* The three threads of the kernel are three, and none is a user or a driver.
LEMMA SystemThreads ==
    /\ TM \in Thread /\ MM \in Thread /\ Idle \in Thread
    /\ Users \subseteq Thread /\ Drivers \subseteq Thread
    /\ TM # MM /\ TM # Idle /\ MM # Idle
    /\ Drivers \cap (Users \cup {TM, MM, Idle}) = {}
    /\ Users \cap {TM, MM, Idle} = {}
    /\ Thread = {TM, MM, Idle} \cup Drivers \cup Users
    /\ ANY \notin Thread /\ NULL \notin Thread /\ ANY # NULL
<1>0. Cardinality({TM, MM, Idle}) = 3
  BY IPCAssumption
<1>1. ASSUME NEW a, NEW b PROVE Cardinality({a, b}) # 3
  <2>1. IsFiniteSet({b}) /\ Cardinality({b}) = 1
    BY FS_Singleton
  <2>2. Cardinality({b} \cup {a}) \in {1, 2}
    BY <2>1, FS_AddElement
  <2>3. {b} \cup {a} = {a, b}
    OBVIOUS
  <2> QED  BY <2>2, <2>3
<1>2. TM # MM
  <2> SUFFICES ASSUME TM = MM PROVE FALSE
    OBVIOUS
  <2>1. {TM, MM, Idle} = {MM, Idle}
    OBVIOUS
  <2> QED  BY <1>0, <1>1, <2>1
<1>3. TM # Idle
  <2> SUFFICES ASSUME TM = Idle PROVE FALSE
    OBVIOUS
  <2>1. {TM, MM, Idle} = {MM, Idle}
    OBVIOUS
  <2> QED  BY <1>0, <1>1, <2>1
<1>4. MM # Idle
  <2> SUFFICES ASSUME MM = Idle PROVE FALSE
    OBVIOUS
  <2>1. {TM, MM, Idle} = {TM, MM}
    OBVIOUS
  <2> QED  BY <1>0, <1>1, <2>1
<1> QED  BY <1>2, <1>3, <1>4, IPCAssumption, SchedulerAssumption DEF Known

\* Servers, users and the idle thread have levels of their own.
LEMMA Levels ==
    /\ \A t \in Thread : PriorityOf[t] \in Nat
    /\ PriorityOf[TM] = 0 /\ PriorityOf[MM] = 0
    /\ \A u \in Users : PriorityOf[u] = 1
    /\ PriorityOf[Idle] = 2
<1>1. \A t \in Thread : PriorityOf[t] \in Nat
  BY SchedulerAssumption DEF Priority
<1> QED  BY <1>1, SystemThreads, IPCAssumption

-----------------------------------------------------------------------------
(* Queues *)

\* FirstMatch finds a message that matches, if there is one.
LEMMA FirstMatchFinds ==
    ASSUME NEW q \in Seq(Message), NEW from, NEW id
    PROVE  LET i == FirstMatch(q, from, id)
           IN  \/ i = 0 /\ \A j \in 1 .. Len(q) : ~Matches(q[j], from, id)
               \/ i \in 1 .. Len(q) /\ Matches(q[i], from, id)
<1> DEFINE I == {j \in 1 .. Len(q) : Matches(q[j], from, id)}
<1>1. FirstMatch(q, from, id) = IF I # {} THEN Min(I) ELSE 0
  BY DEF FirstMatch, SelectInSeq
<1>2. CASE I = {}
  BY <1>1, <1>2
<1>3. CASE I # {}
  <2> DEFINE R == OpToRel(<, Nat)
  <2>0. Len(q) \in Nat
    BY LenProperties
  <2>1. I \subseteq Nat
    BY <2>0
  <2>2. PICK p \in I : \A j \in I : ~ (<<j, p>> \in R)
    <3>1. IsWellFoundedOn(R, Nat)
      BY NatLessThanWellFounded
    <3> HIDE DEF R, I
    <3> QED  BY <1>3, <2>1, <3>1, WFMin
  <2> HIDE DEF I
  <2>3. \A j \in I : p <= j
    <3>1. \A j \in I : ~ (j < p)
      BY <2>1, <2>2 DEF OpToRel
    <3> QED  BY <2>1, <3>1
  <2>4. Min(I) \in I
    BY <2>1, <2>3 DEF Min
  <2> QED  BY <1>1, <1>3, <2>4 DEF I
<1> QED  BY <1>2, <1>3

\* Taking a message out leaves the others.
LEMMA RemoveAtLeaves ==
    ASSUME NEW S, NEW q \in Seq(S), NEW i \in 1 .. Len(q)
    PROVE  /\ RemoveAt(q, i) \in Seq(S)
           /\ Len(RemoveAt(q, i)) = Len(q) - 1
           /\ \A j \in 1 .. Len(q) - 1 :
                 RemoveAt(q, i)[j] = IF j < i THEN q[j] ELSE q[j + 1]
<1> DEFINE a == SubSeq(q, 1, i - 1)
           b == SubSeq(q, i + 1, Len(q))
<1>0. Len(q) \in Nat /\ \A j \in 1 .. Len(q) : q[j] \in S
  BY LenProperties, ElementOfSeq
<1>1. /\ a \in Seq(S)
      /\ Len(a) = i - 1
      /\ \A j \in 1 .. i - 1 : a[j] = q[j]
  BY <1>0, SubSeqProperties
<1>2. /\ b \in Seq(S)
      /\ Len(b) = Len(q) - i
      /\ \A j \in 1 .. Len(q) - i : b[j] = q[i + j]
  <2>1. /\ b \in Seq(S)
        /\ Len(b) = IF i + 1 <= Len(q) THEN Len(q) - (i + 1) + 1 ELSE 0
        /\ \A j \in 1 .. Len(q) - (i + 1) + 1 : b[j] = q[i + 1 + j - 1]
    BY <1>0, SubSeqProperties
  <2> QED  BY <1>0, <2>1
<1>3. RemoveAt(q, i) = a \o b
  BY DEF RemoveAt
<1> HIDE DEF a, b
<1>4. /\ a \o b \in Seq(S)
      /\ Len(a \o b) = Len(a) + Len(b)
      /\ \A j \in 1 .. Len(a) + Len(b) :
            (a \o b)[j] = IF j <= Len(a) THEN a[j] ELSE b[j - Len(a)]
  BY <1>1, <1>2, ConcatProperties
<1>5. ASSUME NEW j \in 1 .. Len(q) - 1
      PROVE  (a \o b)[j] = IF j < i THEN q[j] ELSE q[j + 1]
  <2>1. CASE j < i
    BY <1>0, <1>1, <1>2, <1>4, <2>1
  <2>2. CASE ~(j < i)
    <3>1. (a \o b)[j] = b[j - (i - 1)]
      BY <1>0, <1>1, <1>2, <1>4, <2>2
    <3>2. j - (i - 1) \in 1 .. Len(q) - i /\ i + (j - (i - 1)) = j + 1
      BY <1>0, <2>2
    <3> QED  BY <1>2, <2>2, <3>1, <3>2
  <2> QED  BY <2>1, <2>2
<1> QED  BY <1>0, <1>1, <1>2, <1>3, <1>4, <1>5

-----------------------------------------------------------------------------
(* The scheduler under the handlers *)

\* The lists agree, the processor belongs to a most urgent thread that can
\* run, and the idle thread always can.
SchedSound(s) ==
    /\ s \in Scheduler
    /\ s.running \in Thread
    /\ ListsAgree(s)
    /\ \A t \in Thread : s.status[t] = "RUNNING" <=> t = s.running
    /\ \A t \in Thread :
          s.status[t] = "READY" => PriorityOf[s.running] <= PriorityOf[t]
    /\ Active(s, Idle)

\* From s to r no thread but those of T changes its kind of list.
Changed(r, s, T) ==
    /\ SchedSound(r)
    /\ \A u \in Thread \ T :
          /\ Active(r, u) <=> Active(s, u)
          /\ ~Active(s, u) => r.status[u] = s.status[u]

Ticked(r, s)   == Changed(r, s, {})
Woke(r, s, t)  == Changed(r, s, {t}) /\ Active(r, t)
Slept(r, s, t) == Changed(r, s, {t}) /\ r.status[t] = "BLOCKED"

\* The end of every handler.
LEMMA ScheduleTicks ==
    ASSUME NEW s \in Scheduler, ListsAgree(s), s.running \in Thread,
           s.status[s.running] \in {"RUNNING", "BLOCKED"},
           \A u \in Thread : s.status[u] = "RUNNING" => u = s.running,
           Active(s, Idle)
    PROVE  Ticked(schedule(s), s)
<1> DEFINE r == schedule(s)
<1>1. Scheduled(r, s)
  BY SystemThreads, ScheduleSchedules
<1> HIDE DEF r
<1>2. SchedSound(r)
  BY <1>1, SystemThreads DEF Scheduled, SchedSound
<1> QED  BY <1>1, <1>2 DEF Scheduled, Ticked, Changed, r

\* A handler that only schedules.
LEMMA Tick ==
    ASSUME NEW s, SchedSound(s)
    PROVE  Ticked(schedule(s), s)
BY ScheduleTicks DEF SchedSound

\* A handler that wakes a blocked thread.
LEMMA Wake ==
    ASSUME NEW s, SchedSound(s), NEW t \in Thread, s.status[t] = "BLOCKED"
    PROVE  Woke(schedule(schedulerSetReady(s, t)), s, t)
<1> DEFINE q == schedulerSetReady(s, t)
           r == schedule(q)
<1>1. Updated(q, s, t, "READY")
  BY SetReadyAgrees DEF SchedSound
<1> HIDE DEF q
<1>2. \A u \in Thread : q.status[u] = IF u = t THEN "READY" ELSE s.status[u]
  BY <1>1 DEF SchedSound, Scheduler, Updated
<1>3. Ticked(r, q)
  <2>1. t # s.running
    BY DEF SchedSound
  <2> QED  BY <1>1, <1>2, <2>1, SystemThreads, ScheduleTicks
           DEF SchedSound, Updated, Active
<1> HIDE DEF r
<1> QED  BY <1>2, <1>3 DEF Ticked, Woke, Changed, Active, q, r

\* A handler that puts the running thread to sleep.
LEMMA Sleep ==
    ASSUME NEW s, SchedSound(s), s.running # Idle
    PROVE  Slept(schedule(schedulerSetBlocked(s, s.running)), s, s.running)
<1> DEFINE t == s.running
           q == schedulerSetBlocked(s, t)
           r == schedule(q)
<1>0. t \in Thread /\ s.status[t] = "RUNNING"
  BY DEF SchedSound
<1>1. Updated(q, s, t, "BLOCKED")
  BY <1>0, SetBlockedAgrees DEF SchedSound
<1> HIDE DEF q
<1>2. \A u \in Thread : q.status[u] = IF u = t THEN "BLOCKED" ELSE s.status[u]
  BY <1>1 DEF SchedSound, Scheduler, Updated
<1>3. Ticked(r, q)
  BY <1>0, <1>1, <1>2, SystemThreads, ScheduleTicks
     DEF SchedSound, Updated, Active
<1> HIDE DEF r
<1> QED  BY <1>0, <1>2, <1>3 DEF Ticked, Slept, Changed, Active, q, r

\* TM's calls, which do not schedule.  Nobody is more urgent than TM.
LEMMA ReadyOnly ==
    ASSUME NEW s, SchedSound(s), s.running = TM,
           NEW t \in Thread, s.status[t] # "ABSENT"
    PROVE  /\ Woke(schedulerSetReady(s, t), s, t)
           /\ schedulerSetReady(s, t).running = s.running
<1> DEFINE q == schedulerSetReady(s, t)
<1>1. CASE s.status[t] \in {"READY", "RUNNING"}
  BY <1>1 DEF schedulerSetReady, SwapToReady, Woke, Changed, Active
<1>2. CASE s.status[t] = "BLOCKED"
  <2>1. Updated(q, s, t, "READY")
    BY <1>2, SetReadyAgrees DEF SchedSound
  <2> HIDE DEF q
  <2>2. \A u \in Thread : q.status[u] = IF u = t THEN "READY" ELSE s.status[u]
    BY <2>1 DEF SchedSound, Scheduler, Updated
  <2>3. \A u \in Thread : PriorityOf[q.running] <= PriorityOf[u]
    BY <2>1, Levels DEF Updated
  <2>4. SchedSound(q)
    BY <1>2, <2>1, <2>2, <2>3, SystemThreads DEF SchedSound, Updated, Active
  <2> QED  BY <2>1, <2>2, <2>4 DEF Woke, Changed, Active, Updated, q
<1>3. s.status[t] \in {"READY", "RUNNING", "BLOCKED"}
  BY DEF SchedSound, Scheduler, SchedStatus
<1> QED  BY <1>1, <1>2, <1>3

\* A new thread sleeps in its list, and nobody else is moved.
LEMMA InsertOnly ==
    ASSUME NEW s, SchedSound(s), NEW t \in Thread, s.status[t] = "ABSENT"
    PROVE  /\ Slept(schedulerInsert(s, t), s, t)
           /\ schedulerInsert(s, t).running = s.running
<1> DEFINE q == schedulerInsert(s, t)
<1>1. Updated(q, s, t, "BLOCKED")
  BY InsertAgrees DEF SchedSound
<1> HIDE DEF q
<1>2. \A u \in Thread : q.status[u] = IF u = t THEN "BLOCKED" ELSE s.status[u]
  BY <1>1 DEF SchedSound, Scheduler, Updated
<1>3. SchedSound(q)
  BY <1>1, <1>2, SystemThreads DEF SchedSound, Updated, Active
<1> QED  BY <1>1, <1>2, <1>3 DEF Slept, Changed, Active, Updated, q

\* A removed thread is in no list, and nobody else is moved.
LEMMA RemoveOnly ==
    ASSUME NEW s, SchedSound(s), NEW t \in Thread, t # s.running, t # Idle
    PROVE  /\ Changed(schedulerRemove(s, t), s, {t})
           /\ schedulerRemove(s, t).running = s.running
           /\ schedulerRemove(s, t).status[t] = "ABSENT"
<1> DEFINE q == schedulerRemove(s, t)
<1>1. Updated(q, s, t, "ABSENT")
  <2>1. s.status[t] # "RUNNING"
    BY DEF SchedSound
  <2> QED  BY <2>1, RemoveAgrees DEF SchedSound
<1> HIDE DEF q
<1>2. \A u \in Thread : q.status[u] = IF u = t THEN "ABSENT" ELSE s.status[u]
  BY <1>1 DEF SchedSound, Scheduler, Updated
<1>3. SchedSound(q)
  BY <1>1, <1>2, SystemThreads DEF SchedSound, Updated, Active
<1> QED  BY <1>1, <1>2, <1>3 DEF Changed, Active, Updated, q

-----------------------------------------------------------------------------
(* The kernel state under the handlers *)

WaitsIn(s, t) == s.sched.status[t] = "BLOCKED" /\ s.pend[t].status = "WAITING"

Absent(s, t) == s.sched.status[t] = "ABSENT"

\* No message that a waiting thread asked for is in its queue.
NoneMissed(s) ==
    \A t \in Thread : WaitsIn(s, t) =>
        \A i \in 1 .. Len(s.queue[t]) :
            ~Matches(s.queue[t][i], s.pend[t].from, s.pend[t].id)

KernelSound(s) ==
    /\ s \in KernelState
    /\ SchedSound(s.sched)
    /\ \A t \in Thread :
          ~Active(s.sched, t) => WaitsIn(s, t) \/ s.pend[t] = NotWaiting
    /\ NoneMissed(s)

PendingRecord == [status : {"NOT_WAITING", "WAITING", "FILLED"},
                  from : Thread \cup {ANY, NULL}, id : MessageId]

\* What the fields of a kernel state are.
LEMMA KernelFields ==
    ASSUME NEW s \in KernelState
    PROVE  /\ s.sched \in Scheduler
           /\ s.queue \in [Thread -> Seq(Message)]
           /\ s.pend \in [Thread -> PendingRecord]
           /\ s.inbox \in [Thread -> Message \cup {Empty}]
           /\ s.ret \in [Thread -> {"OK", "FAILED"}]
BY DEF KernelState, PendingRecord

\* The reset pending record is one.
LEMMA NotWaitingType == NotWaiting \in PendingRecord
BY DEF NotWaiting, PendingRecord, MessageId

\* schedule() as it ends a handler: the thread that gets the processor no
\* longer waits, and nothing else changes outside the scheduler.
LEMMA RescheduleFields ==
    ASSUME NEW s \in KernelState, schedule(s.sched) \in Scheduler,
           schedule(s.sched).running \in Thread
    PROVE  /\ Reschedule(s) \in KernelState
           /\ Reschedule(s).sched = schedule(s.sched)
           /\ Reschedule(s).queue = s.queue
           /\ Reschedule(s).inbox = s.inbox
           /\ Reschedule(s).ret = s.ret
           /\ Reschedule(s).pend =
                [s.pend EXCEPT ![schedule(s.sched).running] = NotWaiting]
<1> DEFINE n == schedule(s.sched)
           p == [s.pend EXCEPT ![n.running] = NotWaiting]
<1>1. Reschedule(s) = [s EXCEPT !.sched = n, !.pend = p]
  BY DEF Reschedule, KernelState
<1>2. p \in [Thread -> PendingRecord]
  BY KernelFields, NotWaitingType
<1> HIDE DEF n, p
<1>3. n \in Scheduler
  BY DEF n
<1>4. Reschedule(s) \in KernelState
  BY <1>1, <1>2, <1>3 DEF KernelState, PendingRecord
<1> QED  BY <1>1, <1>4 DEF KernelState, n, p

\* m is handed to the thread to, or put into its queue, and the processor given
\* to a most urgent thread.
Passed(r, s, to, m) ==
    /\ r \in KernelState
    /\ r.ret = s.ret
    /\ Expected(s, to, m) =>
          /\ Woke(r.sched, s.sched, to)
          /\ r.inbox = [s.inbox EXCEPT ![to] = m]
          /\ r.queue = s.queue
    /\ ~Expected(s, to, m) =>
          /\ Ticked(r.sched, s.sched)
          /\ r.inbox = s.inbox
          /\ r.queue = [s.queue EXCEPT ![to] = Append(@, m)]
    /\ \A u \in Thread : ~Active(r.sched, u) => r.pend[u] = s.pend[u]

\* Put and the schedule() after it are what Passed says.
LEMMA PutPasses ==
    ASSUME NEW s \in KernelState, SchedSound(s.sched),
           NEW to \in Thread, NEW m \in Message
    PROVE  Passed(Reschedule(Put(s, to, m)), s, to, m)
<1> DEFINE q == Put(s, to, m)
           r == Reschedule(q)
<1>0. /\ s.sched \in Scheduler
      /\ s.queue \in [Thread -> Seq(Message)]
      /\ s.pend \in [Thread -> PendingRecord]
      /\ s.inbox \in [Thread -> Message \cup {Empty}]
      /\ s.ret \in [Thread -> {"OK", "FAILED"}]
  BY KernelFields
<1>1. CASE Expected(s, to, m)
  <2> DEFINE w == schedulerSetReady(s.sched, to)
             p == [s.pend EXCEPT ![to].status = "FILLED"]
             i == [s.inbox EXCEPT ![to] = m]
  <2>1. q = [s EXCEPT !.pend = p, !.inbox = i, !.sched = w]
    BY <1>1 DEF Put, KernelState
  <2>2. s.sched.status[to] = "BLOCKED"
    BY <1>1 DEF Expected
  <2>3. Woke(schedule(w), s.sched, to)
    BY <2>2, Wake
  <2>4. w \in Scheduler
    BY <2>2, SetReadyAgrees DEF SchedSound, Updated
  <2>5. p \in [Thread -> PendingRecord]
    BY <1>0 DEF PendingRecord
  <2>6. i \in [Thread -> Message \cup {Empty}]
    BY <1>0
  <2>7. \A u \in Thread : u # to => p[u] = s.pend[u]
    BY <1>0
  <2> HIDE DEF w, p, i
  <2>8. /\ q \in KernelState
        /\ q.sched = w /\ q.pend = p /\ q.inbox = i
        /\ q.queue = s.queue /\ q.ret = s.ret
    <3>1. q \in KernelState
      BY <2>1, <2>4, <2>5, <2>6 DEF KernelState, PendingRecord
    <3> QED  BY <2>1, <3>1 DEF KernelState
  <2> HIDE DEF q
  <2>9. schedule(w) \in Scheduler /\ schedule(w).running \in Thread
    BY <2>3 DEF Woke, Changed, SchedSound
  <2>10. /\ r \in KernelState
         /\ r.sched = schedule(w) /\ r.queue = s.queue /\ r.inbox = i
         /\ r.ret = s.ret
         /\ r.pend = [p EXCEPT ![schedule(w).running] = NotWaiting]
    BY <2>8, <2>9, RescheduleFields
  <2> HIDE DEF r
  <2>11. ASSUME NEW u \in Thread, ~Active(r.sched, u)
         PROVE  r.pend[u] = s.pend[u]
    <3>1. u # to /\ u # schedule(w).running
      BY <2>3, <2>10, <2>11 DEF Woke, Changed, SchedSound, Active
    <3> QED  BY <2>5, <2>7, <2>10, <3>1
  <2> QED  BY <1>1, <2>3, <2>10, <2>11 DEF Passed, r, q, i
<1>2. CASE ~Expected(s, to, m)
  <2> DEFINE x == [s.queue EXCEPT ![to] = Append(@, m)]
  <2>1. q = [s EXCEPT !.queue = x]
    BY <1>2 DEF Put, KernelState
  <2>2. x \in [Thread -> Seq(Message)]
    BY <1>0, AppendProperties
  <2> HIDE DEF x
  <2>3. /\ q \in KernelState
        /\ q.sched = s.sched /\ q.pend = s.pend /\ q.inbox = s.inbox
        /\ q.queue = x /\ q.ret = s.ret
    <3>1. q \in KernelState
      BY <2>1, <2>2 DEF KernelState
    <3> QED  BY <2>1, <3>1 DEF KernelState
  <2> HIDE DEF q
  <2>4. Ticked(schedule(s.sched), s.sched)
    BY Tick
  <2>5. schedule(s.sched) \in Scheduler /\ schedule(s.sched).running \in Thread
    BY <2>4 DEF Ticked, Changed, SchedSound
  <2>6. /\ r \in KernelState
        /\ r.sched = schedule(s.sched) /\ r.queue = x /\ r.inbox = s.inbox
        /\ r.ret = s.ret
        /\ r.pend = [s.pend EXCEPT ![schedule(s.sched).running] = NotWaiting]
    BY <2>3, <2>5, RescheduleFields
  <2> HIDE DEF r
  <2>7. ASSUME NEW u \in Thread, ~Active(r.sched, u)
        PROVE  r.pend[u] = s.pend[u]
    <3>1. u # schedule(s.sched).running
      BY <2>4, <2>6, <2>7 DEF Ticked, Changed, SchedSound, Active
    <3> QED  BY <1>0, <2>6, <3>1
  <2> QED  BY <1>2, <2>4, <2>6, <2>7 DEF Passed, r, q, x
<1> QED  BY <1>1, <1>2

Kill(t) == [from |-> TM, id |-> "TM_KILL", arg |-> t]

\* What a send does: nothing, or it passes its message on, or a kill of the
\* user whose queue is full.
LEMMA SendOutcome ==
    ASSUME NEW s \in KernelState, SchedSound(s.sched), NEW to, NEW m \in Message,
           Range(threadList) \subseteq Thread
    PROVE  /\ Sent(s, to, m) => Passed(kSend(s, to, m), s, to, m)
           /\ ~Sent(s, to, m) =>
                \/ kSend(s, to, m) = s
                \/ /\ to \in Users /\ Exists(to)
                   /\ ~Expected(s, to, m)
                   /\ Accepts(s, TM, Kill(to))
                   /\ Passed(kSend(s, to, m), s, TM, Kill(to))
<1>1. CASE ~Exists(to)
  BY <1>1 DEF kSend, Sent
<1>2. CASE Exists(to) /\ Accepts(s, to, m)
  <2>1. to \in Thread
    BY <1>2 DEF Exists
  <2>2. kSend(s, to, m) = Reschedule(Put(s, to, m))
    BY <1>2 DEF kSend
  <2> QED  BY <1>2, <2>1, <2>2, PutPasses DEF Sent
<1>3. CASE Exists(to) /\ ~Accepts(s, to, m)
  <2>1. kSend(s, to, m) = Overflow(s, to)
    BY <1>3 DEF kSend
  <2>2. CASE ~(to \in Users /\ Accepts(s, TM, Kill(to)))
    BY <1>3, <2>1, <2>2 DEF Overflow, Kill, Sent
  <2>3. CASE to \in Users /\ Accepts(s, TM, Kill(to))
    <3>1. kSend(s, to, m) = Reschedule(Put(s, TM, Kill(to)))
      BY <2>1, <2>3 DEF Overflow, Kill
    <3>2. Kill(to) \in Message
      BY <2>3, SystemThreads DEF Kill, Message, MessageId
    <3>3. Passed(kSend(s, to, m), s, TM, Kill(to))
      BY <3>1, <3>2, PutPasses, SystemThreads
    <3> QED  BY <1>3, <2>3, <3>3 DEF Sent, Accepts
  <2> QED  BY <2>2, <2>3
<1> QED  BY <1>1, <1>2, <1>3

\* The three ends of a receive by the thread t: its sender does not exist, a
\* message of its queue matches, or it sleeps.
RecvFails(r, s, t, from) ==
    /\ from # ANY /\ ~Exists(from)
    /\ r.sched = s.sched /\ r.queue = s.queue /\ r.pend = s.pend
    /\ r.inbox = [s.inbox EXCEPT ![t] = Empty]
    /\ r.ret = [s.ret EXCEPT ![t] = "FAILED"]

RecvGets(r, s, t, from, id, i) ==
    /\ from = ANY \/ Exists(from)
    /\ Matches(s.queue[t][i], from, id)
    /\ r.sched = s.sched /\ r.pend = s.pend
    /\ r.queue = [s.queue EXCEPT ![t] = RemoveAt(s.queue[t], i)]
    /\ r.inbox = [s.inbox EXCEPT ![t] = s.queue[t][i]]
    /\ r.ret = [s.ret EXCEPT ![t] = "OK"]

RecvSleeps(r, s, t, from, id) ==
    /\ from = ANY \/ Exists(from)
    /\ \A i \in 1 .. Len(s.queue[t]) : ~Matches(s.queue[t][i], from, id)
    /\ Slept(r.sched, s.sched, t)
    /\ r.queue = s.queue
    /\ r.inbox = [s.inbox EXCEPT ![t] = Empty]
    /\ r.ret = [s.ret EXCEPT ![t] = "OK"]
    /\ r.pend[t] = [status |-> "WAITING", from |-> from, id |-> id]
    /\ \A u \in Thread \ {t} : ~Active(r.sched, u) => r.pend[u] = s.pend[u]

\* A receive fails, takes a message from the queue, or puts its caller to sleep.
LEMMA RecvOutcome ==
    ASSUME NEW s \in KernelState, SchedSound(s.sched), s.sched.running # Idle,
           NEW from \in Thread \cup {ANY}, NEW id \in MessageId
    PROVE  LET t == s.sched.running
               r == kRecv(s, t, from, id)
           IN  /\ r \in KernelState
               /\ \/ RecvFails(r, s, t, from)
                  \/ \E i \in 1 .. Len(s.queue[t]) : RecvGets(r, s, t, from, id, i)
                  \/ RecvSleeps(r, s, t, from, id)
<1> DEFINE t == s.sched.running
           r == kRecv(s, t, from, id)
           i == FirstMatch(s.queue[t], from, id)
<1>0. /\ s.sched \in Scheduler
      /\ s.queue \in [Thread -> Seq(Message)]
      /\ s.pend \in [Thread -> PendingRecord]
      /\ s.inbox \in [Thread -> Message \cup {Empty}]
      /\ s.ret \in [Thread -> {"OK", "FAILED"}]
  BY KernelFields
<1>1. t \in Thread
  BY DEF SchedSound
<1>2. CASE from # ANY /\ ~Exists(from)
  <2> DEFINE x == [s.inbox EXCEPT ![t] = Empty]
             o == [s.ret EXCEPT ![t] = "FAILED"]
  <2>1. r = [s EXCEPT !.ret = o, !.inbox = x]
    BY <1>2 DEF kRecv, KernelState
  <2>2. x \in [Thread -> Message \cup {Empty}] /\ o \in [Thread -> {"OK", "FAILED"}]
    BY <1>0
  <2> HIDE DEF x, o
  <2>3. r \in KernelState
    BY <2>1, <2>2 DEF KernelState
  <2>4. /\ r.sched = s.sched /\ r.queue = s.queue /\ r.pend = s.pend
        /\ r.inbox = x /\ r.ret = o
    BY <2>1, <2>3 DEF KernelState
  <2> QED  BY <1>2, <2>3, <2>4 DEF RecvFails, x, o
<1>3. CASE (from = ANY \/ Exists(from)) /\ i # 0
  <2> DEFINE x == [s.inbox EXCEPT ![t] = s.queue[t][i]]
             o == [s.ret EXCEPT ![t] = "OK"]
             q == [s.queue EXCEPT ![t] = RemoveAt(s.queue[t], i)]
  <2>0. s.queue[t] \in Seq(Message)
    BY <1>0, <1>1
  <2>1. i \in 1 .. Len(s.queue[t]) /\ Matches(s.queue[t][i], from, id)
    BY <1>3, <2>0, FirstMatchFinds
  <2> HIDE DEF i
  <2>2. r = [s EXCEPT !.ret = o, !.inbox = x, !.queue = q]
    <3>1. r = [s EXCEPT !.ret[t] = "OK",
                        !.inbox[t] = s.queue[t][i],
                        !.queue[t] = RemoveAt(@, i)]
      BY <1>3 DEF kRecv, i
    <3> QED  BY <3>1 DEF KernelState
  <2>3. s.queue[t][i] \in Message
    BY <2>0, <2>1, ElementOfSeq
  <2>4. RemoveAt(s.queue[t], i) \in Seq(Message)
    BY <2>0, <2>1, RemoveAtLeaves
  <2>5. /\ x \in [Thread -> Message \cup {Empty}]
        /\ o \in [Thread -> {"OK", "FAILED"}]
        /\ q \in [Thread -> Seq(Message)]
    BY <1>0, <2>3, <2>4
  <2> HIDE DEF x, o, q
  <2>6. r \in KernelState
    BY <2>2, <2>5 DEF KernelState
  <2>7. /\ r.sched = s.sched /\ r.queue = q /\ r.pend = s.pend
        /\ r.inbox = x /\ r.ret = o
    BY <2>2, <2>6 DEF KernelState
  <2>8. RecvGets(r, s, t, from, id, i)
    BY <1>3, <2>1, <2>7 DEF RecvGets, x, o, q
  <2> QED  BY <2>1, <2>6, <2>8
<1>4. CASE (from = ANY \/ Exists(from)) /\ i = 0
  <2> DEFINE x == [s.inbox EXCEPT ![t] = Empty]
             o == [s.ret EXCEPT ![t] = "OK"]
             w == [status |-> "WAITING", from |-> from, id |-> id]
             p == [s.pend EXCEPT ![t] = w]
             b == schedulerSetBlocked(s.sched, t)
             q == [s EXCEPT !.ret = o, !.inbox = x, !.pend = p, !.sched = b]
  <2>0. s.queue[t] \in Seq(Message)
    BY <1>0, <1>1
  <2>1. \A j \in 1 .. Len(s.queue[t]) : ~Matches(s.queue[t][j], from, id)
    BY <1>4, <2>0, FirstMatchFinds
  <2>2. r = Reschedule(q)
    <3>1. r = Reschedule([s EXCEPT !.ret[t] = "OK",
                       !.inbox[t] = Empty,
                       !.pend[t] = w,
                       !.sched = b])
      BY <1>4 DEF kRecv
    <3> QED  BY <3>1 DEF KernelState
  <2>3. /\ x \in [Thread -> Message \cup {Empty}]
        /\ o \in [Thread -> {"OK", "FAILED"}]
        /\ p \in [Thread -> PendingRecord]
    BY <1>0 DEF PendingRecord
  <2>4. Slept(schedule(b), s.sched, t)
    BY Sleep
  <2>5. b \in Scheduler
    <3>1. s.sched.status[t] # "BLOCKED"
      BY DEF SchedSound
    <3> QED  BY <1>1, <3>1, SetBlockedAgrees DEF SchedSound, Updated
  <2>6. p[t] = w /\ \A u \in Thread \ {t} : p[u] = s.pend[u]
    BY <1>0, <1>1
  <2> HIDE DEF x, o, p, b
  <2>7. /\ q \in KernelState
        /\ q.sched = b /\ q.pend = p /\ q.inbox = x
        /\ q.queue = s.queue /\ q.ret = o
    <3>1. q \in KernelState
      BY <2>3, <2>5 DEF KernelState, PendingRecord
    <3> QED  BY <3>1 DEF KernelState
  <2> HIDE DEF q, r
  <2>8. schedule(b) \in Scheduler /\ schedule(b).running \in Thread
    BY <2>4 DEF Slept, Changed, SchedSound
  <2>9. /\ r \in KernelState
        /\ r.sched = schedule(b) /\ r.queue = s.queue /\ r.inbox = x
        /\ r.ret = o
        /\ r.pend = [p EXCEPT ![schedule(b).running] = NotWaiting]
    BY <2>2, <2>7, <2>8, RescheduleFields
  <2>10. schedule(b).running # t
    BY <1>1, <2>4 DEF Slept, Changed, SchedSound
  <2>11. r.pend[t] = w
    BY <1>1, <2>3, <2>6, <2>9, <2>10
  <2>12. ASSUME NEW u \in Thread \ {t}, ~Active(r.sched, u)
         PROVE  r.pend[u] = s.pend[u]
    <3>1. u # schedule(b).running
      BY <2>4, <2>9, <2>12 DEF Slept, Changed, SchedSound, Active
    <3> QED  BY <2>3, <2>6, <2>9, <3>1
  <2> HIDE DEF w
  <2>13. RecvSleeps(r, s, t, from, id)
    BY <1>4, <2>1, <2>4, <2>9, <2>11, <2>12 DEF RecvSleeps, x, o, w
  <2> QED  BY <2>9, <2>13 DEF r
<1> QED  BY <1>2, <1>3, <1>4

-----------------------------------------------------------------------------
(* What the handlers keep *)

\* The thread to, if it waits, is given m exactly when m is what it asked for.
Honest(s, to, m) ==
    WaitsIn(s, to) =>
        (Expected(s, to, m) <=> Matches(m, s.pend[to].from, s.pend[to].id))

\* Who slept on without a message, who was woken and why, and how the caller
\* of the handler may come to wait itself.
Moves(r, s) ==
    /\ KernelSound(r)
    /\ \A u \in Thread : Absent(r, u) <=> Absent(s, u)
    /\ \A u \in Thread \ {s.sched.running} :
          /\ r.sched.status[u] = "BLOCKED" => s.sched.status[u] = "BLOCKED"
          /\ WaitsIn(r, u) =>
                WaitsIn(s, u) /\ r.pend[u] = s.pend[u] /\ r.ret[u] = s.ret[u]
          /\ s.sched.status[u] = "BLOCKED" /\ ~WaitsIn(s, u) =>
                r.sched.status[u] = "BLOCKED" /\ ~WaitsIn(r, u)
    /\ LET t == s.sched.running
       IN  WaitsIn(r, t) => /\ r.ret[t] = "OK"
                            /\ r.pend[t].from = ANY \/ Exists(r.pend[t].from)
    /\ \A u \in Thread : WaitsIn(s, u) /\ ~WaitsIn(r, u) =>
          /\ r.ret[u] = s.ret[u]
          /\ s.pend[u].from \in {ANY, s.sched.running}
          /\ Matches(r.inbox[u], s.pend[u].from, s.pend[u].id)

\* The messages that TM has been given and those in its queue.
Mail(s) == Range(s.queue[TM]) \cup {s.inbox[TM]}

\* Passing on a message that its receiver is given only if it asked for it.
LEMMA PassedMoves ==
    ASSUME NEW s, KernelSound(s), NEW to \in Thread, NEW m \in Message,
           Honest(s, to, m), NEW r, Passed(r, s, to, m)
    PROVE  /\ Moves(r, s)
           /\ ~WaitsIn(r, s.sched.running)
           /\ Mail(r) \subseteq Mail(s) \cup (IF to = TM THEN {m} ELSE {})
<1> DEFINE W == Expected(s, to, m)
<1>1. /\ s \in KernelState /\ SchedSound(s.sched)
      /\ s.queue \in [Thread -> Seq(Message)]
      /\ s.pend \in [Thread -> PendingRecord]
      /\ s.inbox \in [Thread -> Message \cup {Empty}]
      /\ s.sched.status \in [Thread -> SchedStatus]
  BY KernelFields DEF KernelSound, Scheduler
<1>2. /\ r \in KernelState /\ r.ret = s.ret
      /\ \A u \in Thread : ~Active(r.sched, u) => r.pend[u] = s.pend[u]
  BY DEF Passed
<1>3. /\ SchedSound(r.sched)
      /\ \A u \in Thread : u # to \/ ~W =>
            /\ Active(r.sched, u) <=> Active(s.sched, u)
            /\ ~Active(s.sched, u) => r.sched.status[u] = s.sched.status[u]
      /\ W => Active(r.sched, to)
  BY DEF Passed, Woke, Ticked, Changed
<1>4. W => WaitsIn(s, to)
  BY DEF Expected, WaitsIn
<1>5. \A u \in Thread : WaitsIn(r, u) <=> WaitsIn(s, u) /\ ~(u = to /\ W)
  BY <1>2, <1>3, <1>4 DEF WaitsIn, Active
<1>6. \A u \in Thread : WaitsIn(r, u) => r.pend[u] = s.pend[u]
  BY <1>2 DEF WaitsIn, Active
<1>7. \A u \in Thread : Absent(r, u) <=> Absent(s, u)
  BY <1>3, <1>4 DEF Absent, Active, WaitsIn
<1>8. NoneMissed(r)
  <2> SUFFICES ASSUME NEW t \in Thread, WaitsIn(r, t),
                      NEW i \in 1 .. Len(r.queue[t])
               PROVE  ~Matches(r.queue[t][i], r.pend[t].from, r.pend[t].id)
    BY DEF NoneMissed
  <2>1. WaitsIn(s, t) /\ r.pend[t] = s.pend[t] /\ ~(t = to /\ W)
    BY <1>5, <1>6
  <2>2. CASE r.queue[t] = s.queue[t]
    BY <2>1, <2>2 DEF KernelSound, NoneMissed
  <2>3. CASE ~W /\ t = to
    <3>1. r.queue[t] = Append(s.queue[t], m)
      BY <1>1, <2>3 DEF Passed
    <3>2. ~Matches(m, s.pend[t].from, s.pend[t].id)
      BY <2>1, <2>3 DEF Honest
    <3>3. s.queue[t] \in Seq(Message) /\ Len(s.queue[t]) \in Nat
      BY <1>1, LenProperties
    <3>4. i \in 1 .. Len(s.queue[t]) \/ i = Len(s.queue[t]) + 1
      BY <3>1, <3>3, AppendProperties
    <3>5. CASE i \in 1 .. Len(s.queue[t])
      <4>1. r.queue[t][i] = s.queue[t][i]
        BY <3>1, <3>3, <3>5, AppendProperties
      <4> QED  BY <2>1, <3>5, <4>1 DEF KernelSound, NoneMissed
    <3>6. CASE i = Len(s.queue[t]) + 1
      <4>1. r.queue[t][i] = m
        BY <3>1, <3>3, <3>6, AppendProperties
      <4> QED  BY <2>1, <3>2, <4>1
    <3> QED  BY <3>4, <3>5, <3>6
  <2>4. r.queue[t] = s.queue[t] \/ (~W /\ t = to)
    BY <1>1, <2>1 DEF Passed
  <2> QED  BY <2>2, <2>3, <2>4
<1>9. KernelSound(r)
  <2>1. ASSUME NEW t \in Thread, ~Active(r.sched, t)
        PROVE  WaitsIn(r, t) \/ r.pend[t] = NotWaiting
    <3>1. ~Active(s.sched, t) /\ ~(t = to /\ W)
      BY <1>3, <2>1
    <3>2. WaitsIn(s, t) \/ s.pend[t] = NotWaiting
      BY <3>1 DEF KernelSound
    <3> QED  BY <1>2, <1>5, <2>1, <3>1, <3>2
  <2> QED  BY <1>2, <1>3, <1>8, <2>1 DEF KernelSound
<1>10. ASSUME NEW u \in Thread
       PROVE  /\ r.sched.status[u] = "BLOCKED" => s.sched.status[u] = "BLOCKED"
              /\ s.sched.status[u] = "BLOCKED" /\ ~WaitsIn(s, u) =>
                   r.sched.status[u] = "BLOCKED" /\ ~WaitsIn(r, u)
  BY <1>3, <1>4, <1>5 DEF Active, WaitsIn
<1>11. ASSUME NEW u \in Thread, WaitsIn(s, u), ~WaitsIn(r, u)
       PROVE  /\ s.pend[u].from \in {ANY, s.sched.running}
              /\ Matches(r.inbox[u], s.pend[u].from, s.pend[u].id)
  <2>1. u = to /\ W
    BY <1>5, <1>11
  <2>2. r.inbox[u] = m
    BY <1>1, <2>1 DEF Passed
  <2>3. Matches(m, s.pend[u].from, s.pend[u].id)
    BY <1>11, <2>1 DEF Honest
  <2> QED  BY <2>1, <2>2, <2>3 DEF Expected
<1>12. ~WaitsIn(r, s.sched.running)
  BY <1>1, <1>5 DEF WaitsIn, SchedSound
<1>13. Mail(r) \subseteq Mail(s) \cup (IF to = TM THEN {m} ELSE {})
  <2>1. CASE W
    <3>1. /\ r.queue = s.queue
          /\ r.inbox[TM] = IF to = TM THEN m ELSE s.inbox[TM]
      BY <1>1, <2>1, SystemThreads DEF Passed
    <3> QED  BY <3>1 DEF Mail
  <2>2. CASE ~W /\ to = TM
    <3>1. r.inbox = s.inbox /\ r.queue[TM] = Append(s.queue[TM], m)
      BY <1>1, <2>2, SystemThreads DEF Passed
    <3>2. s.queue[TM] \in Seq(Message)
      BY <1>1, SystemThreads
    <3>3. Range(r.queue[TM]) \subseteq Range(s.queue[TM]) \cup {m}
      BY <3>1, <3>2, AppendProperties, LenProperties DEF Range
    <3> QED  BY <2>2, <3>1, <3>3 DEF Mail
  <2>3. CASE ~W /\ to # TM
    <3>1. r.inbox = s.inbox /\ r.queue[TM] = s.queue[TM]
      BY <1>1, <2>3, SystemThreads DEF Passed
    <3> QED  BY <3>1 DEF Mail
  <2> QED  BY <2>1, <2>2, <2>3
<1> QED  BY <1>2, <1>5, <1>6, <1>7, <1>9, <1>10, <1>11, <1>12, <1>13 DEF Moves

\* A receive by the running thread.
LEMMA RecvMoves ==
    ASSUME NEW s, KernelSound(s), s.sched.running # Idle,
           NEW from \in Thread \cup {ANY}, NEW id \in MessageId
    PROVE  /\ Moves(kRecv(s, s.sched.running, from, id), s)
           /\ Mail(kRecv(s, s.sched.running, from, id)) \subseteq Mail(s) \cup {Empty}
           /\ WaitsIn(kRecv(s, s.sched.running, from, id), s.sched.running) =>
                 kRecv(s, s.sched.running, from, id).pend[s.sched.running] =
                    [status |-> "WAITING", from |-> from, id |-> id]
<1> DEFINE t == s.sched.running
           r == kRecv(s, t, from, id)
<1>1. /\ s \in KernelState /\ SchedSound(s.sched)
      /\ s.queue \in [Thread -> Seq(Message)]
      /\ s.pend \in [Thread -> PendingRecord]
      /\ s.inbox \in [Thread -> Message \cup {Empty}]
      /\ s.ret \in [Thread -> {"OK", "FAILED"}]
      /\ s.sched.status \in [Thread -> SchedStatus]
  BY KernelFields DEF KernelSound, Scheduler
<1>2. t \in Thread /\ s.sched.status[t] = "RUNNING"
  BY <1>1 DEF SchedSound
<1>3. /\ r \in KernelState
      /\ \/ RecvFails(r, s, t, from)
         \/ \E i \in 1 .. Len(s.queue[t]) : RecvGets(r, s, t, from, id, i)
         \/ RecvSleeps(r, s, t, from, id)
  BY <1>1, RecvOutcome
<1>t. t = s.sched.running
  OBVIOUS
<1> HIDE DEF t, r
<1>4. ASSUME r.sched = s.sched, r.pend = s.pend,
             \A u \in Thread \ {t} : /\ r.queue[u] = s.queue[u]
                                     /\ r.inbox[u] = s.inbox[u]
                                     /\ r.ret[u] = s.ret[u]
      PROVE  Moves(r, s)
  <2>1. \A u \in Thread : WaitsIn(r, u) <=> WaitsIn(s, u)
    BY <1>4 DEF WaitsIn
  <2>2. ~WaitsIn(s, t)
    BY <1>2 DEF WaitsIn
  <2>3. NoneMissed(r)
    <3> SUFFICES ASSUME NEW u \in Thread, WaitsIn(r, u),
                        NEW i \in 1 .. Len(r.queue[u])
                 PROVE  ~Matches(r.queue[u][i], r.pend[u].from, r.pend[u].id)
      BY DEF NoneMissed
    <3>1. u # t /\ WaitsIn(s, u)
      BY <2>1, <2>2
    <3> QED  BY <1>4, <3>1 DEF KernelSound, NoneMissed
  <2>4. KernelSound(r)
    BY <1>3, <1>4, <2>1, <2>3 DEF KernelSound
  <2> QED  BY <1>2, <1>4, <1>t, <2>1, <2>2, <2>4 DEF Moves, Absent
<1>5. CASE RecvFails(r, s, t, from)
  <2>1. Moves(r, s)
    BY <1>1, <1>2, <1>4, <1>5 DEF RecvFails
  <2>2. Mail(r) \subseteq Mail(s) \cup {Empty}
    <3>1. r.queue = s.queue /\ r.inbox[TM] \in {s.inbox[TM], Empty}
      BY <1>1, <1>5, SystemThreads DEF RecvFails
    <3> QED  BY <3>1 DEF Mail
  <2>3. ~WaitsIn(r, t)
    BY <1>2, <1>5 DEF RecvFails, WaitsIn
  <2> QED  BY <2>1, <2>2, <2>3 DEF r, t
<1>6. ASSUME NEW i \in 1 .. Len(s.queue[t]), RecvGets(r, s, t, from, id, i)
      PROVE  Moves(r, s) /\ Mail(r) \subseteq Mail(s) \cup {Empty} /\ ~WaitsIn(r, t)
  <2>0. ~WaitsIn(r, t)
    BY <1>2, <1>6 DEF RecvGets, WaitsIn
  <2>1. Moves(r, s)
    BY <1>1, <1>2, <1>4, <1>6 DEF RecvGets
  <2>2. CASE t # TM
    <3>1. r.queue[TM] = s.queue[TM] /\ r.inbox[TM] = s.inbox[TM]
      BY <1>1, <1>2, <1>6, <2>2, SystemThreads DEF RecvGets
    <3> QED  BY <2>0, <2>1, <3>1 DEF Mail
  <2>3. CASE t = TM
    <3>0. s.queue[TM] \in Seq(Message)
      BY <1>1, SystemThreads
    <3>1. /\ r.queue[TM] = RemoveAt(s.queue[TM], i)
          /\ r.inbox[TM] = s.queue[TM][i]
      BY <1>1, <1>2, <1>6, <2>3, SystemThreads DEF RecvGets
    <3>2. Range(RemoveAt(s.queue[TM], i)) \subseteq Range(s.queue[TM])
      <4> DEFINE q == s.queue[TM]
                 l == RemoveAt(q, i)
      <4>0. i \in 1 .. Len(q)
        BY <1>6, <2>3
      <4>1. /\ l \in Seq(Message)
            /\ Len(l) = Len(q) - 1
            /\ \A j \in 1 .. Len(q) - 1 : l[j] = IF j < i THEN q[j] ELSE q[j + 1]
        BY <3>0, <4>0, RemoveAtLeaves
      <4>2. DOMAIN l = 1 .. Len(q) - 1 /\ DOMAIN q = 1 .. Len(q) /\ Len(q) \in Nat
        BY <3>0, <4>1, LenProperties
      <4> HIDE DEF l, q
      <4>3. ASSUME NEW j \in DOMAIN l PROVE l[j] \in Range(q)
        <5>1. j \in DOMAIN q /\ j + 1 \in DOMAIN q
          BY <4>2
        <5> QED  BY <4>1, <4>2, <5>1 DEF Range
      <4> QED  BY <4>3 DEF Range, l, q
    <3>3. s.queue[TM][i] \in Range(s.queue[TM])
      BY <1>6, <2>3, <3>0, LenProperties DEF Range
    <3> QED  BY <2>0, <2>1, <3>1, <3>2, <3>3 DEF Mail
  <2> QED  BY <2>2, <2>3
<1>7. CASE RecvSleeps(r, s, t, from, id)
  <2>0. /\ SchedSound(r.sched)
        /\ r.sched.status[t] = "BLOCKED"
        /\ \A u \in Thread \ {t} :
              /\ Active(r.sched, u) <=> Active(s.sched, u)
              /\ ~Active(s.sched, u) => r.sched.status[u] = s.sched.status[u]
              /\ ~Active(r.sched, u) => r.pend[u] = s.pend[u]
    BY <1>7 DEF RecvSleeps, Slept, Changed
  <2>1. r.pend[t] = [status |-> "WAITING", from |-> from, id |-> id]
    BY <1>7 DEF RecvSleeps
  <2>2. /\ r.queue = s.queue
        /\ r.ret[t] = "OK"
        /\ \A u \in Thread \ {t} : r.ret[u] = s.ret[u]
        /\ r.inbox[TM] \in {s.inbox[TM], Empty}
    BY <1>1, <1>2, <1>7, SystemThreads DEF RecvSleeps
  <2>3. \A u \in Thread \ {t} : /\ WaitsIn(r, u) <=> WaitsIn(s, u)
                                /\ WaitsIn(r, u) => r.pend[u] = s.pend[u]
    BY <2>0 DEF WaitsIn, Active
  <2>4. NoneMissed(r)
    <3> SUFFICES ASSUME NEW u \in Thread, WaitsIn(r, u),
                        NEW i \in 1 .. Len(r.queue[u])
                 PROVE  ~Matches(r.queue[u][i], r.pend[u].from, r.pend[u].id)
      BY DEF NoneMissed
    <3>1. CASE u = t
      <4>1. r.pend[u].from = from /\ r.pend[u].id = id
        BY <2>1, <3>1
      <4>2. \A j \in 1 .. Len(s.queue[t]) : ~Matches(s.queue[t][j], from, id)
        BY <1>7 DEF RecvSleeps
      <4> QED  BY <2>2, <3>1, <4>1, <4>2
    <3>2. CASE u # t
      BY <2>2, <2>3, <3>2 DEF KernelSound, NoneMissed
    <3> QED  BY <3>1, <3>2
  <2>5. ASSUME NEW u \in Thread
        PROVE  /\ Absent(r, u) <=> Absent(s, u)
               /\ ~Active(r.sched, u) => WaitsIn(r, u) \/ r.pend[u] = NotWaiting
    <3>1. CASE u = t
      BY <1>2, <2>0, <2>1, <3>1 DEF Absent, WaitsIn
    <3>2. CASE u # t
      BY <2>0, <2>3, <3>2 DEF Absent, Active, KernelSound
    <3> QED  BY <3>1, <3>2
  <2>6. KernelSound(r)
    BY <1>3, <2>0, <2>4, <2>5 DEF KernelSound
  <2>7. r.pend[t].from = ANY \/ Exists(r.pend[t].from)
    BY <1>7, <2>1 DEF RecvSleeps
  <2>8. \A u \in Thread \ {t} :
          r.sched.status[u] = "BLOCKED" <=> s.sched.status[u] = "BLOCKED"
    BY <2>0 DEF Active
  <2>9. ~WaitsIn(s, t)
    BY <1>2 DEF WaitsIn
  <2>10. Moves(r, s)
    BY <2>2, <2>3, <2>5, <2>6, <2>7, <2>8, <2>9 DEF Moves, t
  <2>11. Mail(r) \subseteq Mail(s) \cup {Empty}
    BY <2>2 DEF Mail
  <2> QED  BY <2>1, <2>10, <2>11 DEF r, t
<1> QED  BY <1>3, <1>5, <1>6, <1>7 DEF r, t

\* The clock, and threadYield.
LEMMA TickMoves ==
    ASSUME NEW s, KernelSound(s)
    PROVE  LET r == Reschedule(s)
           IN  /\ Moves(r, s)
               /\ Ticked(r.sched, s.sched)
               /\ r.queue = s.queue /\ r.inbox = s.inbox /\ r.ret = s.ret
               /\ \A u \in Thread : ~Active(r.sched, u) => r.pend[u] = s.pend[u]
<1> DEFINE n == schedule(s.sched)
           r == Reschedule(s)
<1>1. s \in KernelState /\ SchedSound(s.sched) /\ s.pend \in [Thread -> PendingRecord]
  BY KernelFields DEF KernelSound
<1>2. Ticked(n, s.sched)
  BY <1>1, Tick
<1>3. n \in Scheduler /\ n.running \in Thread
  BY <1>2 DEF Ticked, Changed, SchedSound
<1>4. /\ r \in KernelState /\ r.sched = n /\ r.queue = s.queue
      /\ r.inbox = s.inbox /\ r.ret = s.ret
      /\ r.pend = [s.pend EXCEPT ![n.running] = NotWaiting]
  BY <1>1, <1>3, RescheduleFields
<1> HIDE DEF n, r
<1>5. \A u \in Thread : u # n.running => r.pend[u] = s.pend[u]
  BY <1>1, <1>4
<1>6. \A u \in Thread : ~Active(n, u) => u # n.running
  BY <1>2 DEF Ticked, Changed, SchedSound, Active
<1>7. \A u \in Thread : ~Active(r.sched, u) => r.pend[u] = s.pend[u]
  BY <1>4, <1>5, <1>6
<1>8. \A u \in Thread : /\ Active(r.sched, u) <=> Active(s.sched, u)
                        /\ ~Active(s.sched, u) =>
                              r.sched.status[u] = s.sched.status[u]
  BY <1>2, <1>4 DEF Ticked, Changed
<1>9. \A u \in Thread : /\ WaitsIn(r, u) <=> WaitsIn(s, u)
                        /\ WaitsIn(r, u) => r.pend[u] = s.pend[u]
  BY <1>7, <1>8 DEF WaitsIn, Active
<1>10. NoneMissed(r)
  BY <1>4, <1>9 DEF KernelSound, NoneMissed
<1>11. \A u \in Thread : /\ Absent(r, u) <=> Absent(s, u)
                         /\ ~Active(r.sched, u) =>
                               WaitsIn(r, u) \/ r.pend[u] = NotWaiting
  BY <1>7, <1>8, <1>9 DEF KernelSound, Absent, Active
<1>12. KernelSound(r)
  BY <1>2, <1>4, <1>10, <1>11 DEF KernelSound, Ticked, Changed
<1>13. ~WaitsIn(s, s.sched.running)
  BY <1>1 DEF SchedSound, WaitsIn
<1>14. \A u \in Thread :
         r.sched.status[u] = "BLOCKED" <=> s.sched.status[u] = "BLOCKED"
  BY <1>8 DEF Active
<1>15. s.sched.running \in Thread
  BY <1>1 DEF SchedSound
<1>16. Moves(r, s)
  BY <1>4, <1>9, <1>11, <1>12, <1>13, <1>14, <1>15 DEF Moves
<1> QED  BY <1>2, <1>4, <1>7, <1>16 DEF r, n

\* A server takes the message out of its inbox.
LEMMA ServeMoves ==
    ASSUME NEW s, KernelSound(s)
    PROVE  LET t == s.sched.running
               r == [s EXCEPT !.inbox[t] = Empty]
           IN  /\ Moves(r, s)
               /\ Mail(r) \subseteq Mail(s) \cup {Empty}
               /\ r.sched = s.sched /\ r.queue = s.queue /\ r.pend = s.pend
               /\ r.ret = s.ret /\ r.inbox = [s.inbox EXCEPT ![t] = Empty]
<1> DEFINE t == s.sched.running
           x == [s.inbox EXCEPT ![t] = Empty]
           r == [s EXCEPT !.inbox[t] = Empty]
<1>1. /\ s \in KernelState /\ SchedSound(s.sched)
      /\ s.inbox \in [Thread -> Message \cup {Empty}]
  BY KernelFields DEF KernelSound
<1>2. t \in Thread /\ s.sched.status[t] = "RUNNING"
  BY <1>1 DEF SchedSound
<1>3. x \in [Thread -> Message \cup {Empty}]
  BY <1>1
<1>4. \A u \in Thread \ {t} : x[u] = s.inbox[u]
  BY <1>1
<1>5. x[TM] \in {s.inbox[TM], Empty}
  BY <1>1, SystemThreads
<1>6. r = [s EXCEPT !.inbox = x]
  BY <1>1 DEF KernelState
<1>t. t = s.sched.running
  OBVIOUS
<1> HIDE DEF x, r, t
<1>7. /\ r \in KernelState
      /\ r.sched = s.sched /\ r.queue = s.queue /\ r.pend = s.pend
      /\ r.ret = s.ret /\ r.inbox = x
  <2>1. r \in KernelState
    BY <1>1, <1>3, <1>6 DEF KernelState
  <2> QED  BY <1>6, <2>1 DEF KernelState
<1>8. \A u \in Thread : WaitsIn(r, u) <=> WaitsIn(s, u)
  BY <1>7 DEF WaitsIn
<1>9. NoneMissed(r)
  BY <1>7, <1>8 DEF KernelSound, NoneMissed
<1>10. KernelSound(r)
  BY <1>7, <1>8, <1>9 DEF KernelSound
<1>11. ~WaitsIn(s, t)
  BY <1>2 DEF WaitsIn
<1>12. Moves(r, s)
  BY <1>2, <1>7, <1>8, <1>10, <1>11, <1>t DEF Moves, Absent
<1>13. Mail(r) \subseteq Mail(s) \cup {Empty}
  BY <1>5, <1>7 DEF Mail
<1> QED  BY <1>7, <1>12, <1>13 DEF r, x, t

\* Nothing happens.
LEMMA NothingMoves ==
    ASSUME NEW s, KernelSound(s)
    PROVE  Moves(s, s) /\ ~WaitsIn(s, s.sched.running)
<1>1. SchedSound(s.sched)
  BY DEF KernelSound
<1>2. ~WaitsIn(s, s.sched.running)
  BY <1>1 DEF WaitsIn, SchedSound
<1> QED  BY <1>2 DEF Moves

-----------------------------------------------------------------------------
(* What TM itself does to the kernel's state *)

\* threadBuild gives a thread an empty queue and a place among the blocked.
LEMMA BuildEffect ==
    ASSUME NEW s, KernelSound(s), NEW u \in Thread, Absent(s, u)
    PROVE  LET r == [s EXCEPT !.sched = schedulerInsert(@, u), !.queue[u] = << >>]
           IN  /\ KernelSound(r) /\ r.sched.running = s.sched.running
               /\ r.sched.status[u] = "BLOCKED"
               /\ \A t \in Thread : WaitsIn(r, t) <=> WaitsIn(s, t)
               /\ \A t \in Thread \ {u} : Absent(r, t) <=> Absent(s, t)
               /\ r.queue = [s.queue EXCEPT ![u] = << >>]
               /\ r.pend = s.pend /\ r.inbox = s.inbox /\ r.ret = s.ret
<1> DEFINE b == schedulerInsert(s.sched, u)
           q == [s.queue EXCEPT ![u] = << >>]
           r == [s EXCEPT !.sched = schedulerInsert(@, u), !.queue[u] = << >>]
<1>1. /\ s \in KernelState /\ SchedSound(s.sched) /\ s.sched.status[u] = "ABSENT"
      /\ s.queue \in [Thread -> Seq(Message)]
  BY KernelFields DEF KernelSound, Absent
<1>2. Slept(b, s.sched, u) /\ b.running = s.sched.running
  BY <1>1, InsertOnly
<1>3. q \in [Thread -> Seq(Message)] /\ q[u] = << >>
      /\ \A t \in Thread \ {u} : q[t] = s.queue[t]
  BY <1>1
<1>4. r = [s EXCEPT !.sched = b, !.queue = q]
  BY DEF KernelState
<1> HIDE DEF b, q, r
<1>5. /\ SchedSound(b) /\ b \in Scheduler /\ b.status[u] = "BLOCKED"
      /\ \A t \in Thread \ {u} :
            /\ Active(b, t) <=> Active(s.sched, t)
            /\ ~Active(s.sched, t) => b.status[t] = s.sched.status[t]
  BY <1>2 DEF Slept, Changed, SchedSound
<1>6. /\ r \in KernelState /\ r.sched = b /\ r.queue = q
      /\ r.pend = s.pend /\ r.inbox = s.inbox /\ r.ret = s.ret
  <2>1. r \in KernelState
    BY <1>1, <1>3, <1>4, <1>5 DEF KernelState
  <2> QED  BY <1>4, <2>1 DEF KernelState
<1>7. s.pend[u] = NotWaiting
  BY <1>1 DEF KernelSound, Active, WaitsIn
<1>8. ~WaitsIn(r, u) /\ ~WaitsIn(s, u)
  BY <1>6, <1>7 DEF WaitsIn, NotWaiting
<1>9. \A t \in Thread : WaitsIn(r, t) <=> WaitsIn(s, t)
  BY <1>5, <1>6, <1>8 DEF WaitsIn, Active
<1>10. NoneMissed(r)
  BY <1>3, <1>6, <1>8, <1>9 DEF KernelSound, NoneMissed
<1>11. \A t \in Thread :
          ~Active(r.sched, t) => WaitsIn(r, t) \/ r.pend[t] = NotWaiting
  BY <1>5, <1>6, <1>7, <1>9 DEF KernelSound
<1>12. KernelSound(r)
  BY <1>5, <1>6, <1>10, <1>11 DEF KernelSound
<1>13. \A t \in Thread \ {u} : Absent(r, t) <=> Absent(s, t)
  BY <1>5, <1>6 DEF Absent, Active
<1> QED  BY <1>2, <1>5, <1>6, <1>9, <1>12, <1>13 DEF r, q

\* schedulerSetReady lets one thread run and leaves the others.
LEMMA ReadyEffect ==
    ASSUME NEW s, KernelSound(s), s.sched.running = TM,
           NEW t \in Thread, ~Absent(s, t)
    PROVE  LET r == [s EXCEPT !.sched = schedulerSetReady(@, t)]
           IN  /\ KernelSound(r) /\ r.sched.running = TM
               /\ Active(r.sched, t)
               /\ \A u \in Thread \ {t} :
                     /\ WaitsIn(r, u) <=> WaitsIn(s, u)
                     /\ Active(r.sched, u) <=> Active(s.sched, u)
               /\ \A u \in Thread : Absent(r, u) <=> Absent(s, u)
               /\ r.queue = s.queue
               /\ r.pend = s.pend /\ r.inbox = s.inbox /\ r.ret = s.ret
<1> DEFINE b == schedulerSetReady(s.sched, t)
           r == [s EXCEPT !.sched = schedulerSetReady(@, t)]
<1>1. s \in KernelState /\ SchedSound(s.sched) /\ s.sched.status[t] # "ABSENT"
  BY DEF KernelSound, Absent
<1>2. Woke(b, s.sched, t) /\ b.running = s.sched.running
  BY <1>1, ReadyOnly
<1>3. r = [s EXCEPT !.sched = b]
  BY DEF KernelState
<1> HIDE DEF b, r
<1>4. /\ SchedSound(b) /\ b \in Scheduler /\ Active(b, t)
      /\ \A u \in Thread \ {t} :
            /\ Active(b, u) <=> Active(s.sched, u)
            /\ ~Active(s.sched, u) => b.status[u] = s.sched.status[u]
  BY <1>2 DEF Woke, Changed, SchedSound
<1>5. /\ r \in KernelState /\ r.sched = b /\ r.queue = s.queue
      /\ r.pend = s.pend /\ r.inbox = s.inbox /\ r.ret = s.ret
  <2>1. r \in KernelState
    BY <1>1, <1>3, <1>4 DEF KernelState
  <2> QED  BY <1>3, <2>1 DEF KernelState
<1>6. \A u \in Thread \ {t} : WaitsIn(r, u) <=> WaitsIn(s, u)
  BY <1>4, <1>5 DEF WaitsIn, Active
<1>7. ~WaitsIn(r, t)
  BY <1>4, <1>5 DEF WaitsIn, Active
<1>8. NoneMissed(r)
  BY <1>5, <1>6, <1>7 DEF KernelSound, NoneMissed
<1>9. \A u \in Thread :
         ~Active(r.sched, u) => WaitsIn(r, u) \/ r.pend[u] = NotWaiting
  BY <1>4, <1>5, <1>6 DEF KernelSound
<1>10. KernelSound(r)
  BY <1>4, <1>5, <1>8, <1>9 DEF KernelSound
<1>11. \A u \in Thread : Absent(r, u) <=> Absent(s, u)
  BY <1>1, <1>4, <1>5 DEF Absent, Active
<1> QED  BY <1>2, <1>4, <1>5, <1>6, <1>10, <1>11 DEF r

Unscheduled(s, x) == [s EXCEPT !.sched = schedulerRemove(@, x),
                               !.queue[x] = << >>,
                               !.pend[x] = NotWaiting,
                               !.inbox[x] = Empty,
                               !.ret[x] = "OK"]

\* schedulerRemove takes a thread out of all lists and leaves the others.
LEMMA UnscheduleEffect ==
    ASSUME NEW s, KernelSound(s), s.sched.running = TM,
           NEW x \in Thread \ {TM, Idle}
    PROVE  LET r == Unscheduled(s, x)
           IN  /\ KernelSound(r) /\ r.sched.running = TM
               /\ Absent(r, x) /\ ~WaitsIn(r, x)
               /\ \A u \in Thread \ {x} :
                     /\ WaitsIn(r, u) <=> WaitsIn(s, u)
                     /\ Absent(r, u) <=> Absent(s, u)
                     /\ Active(r.sched, u) <=> Active(s.sched, u)
                     /\ r.queue[u] = s.queue[u] /\ r.inbox[u] = s.inbox[u]
                     /\ r.pend[u] = s.pend[u] /\ r.ret[u] = s.ret[u]
               /\ r.queue[x] = << >> /\ r.inbox[x] = Empty
<1> DEFINE b == schedulerRemove(s.sched, x)
           q == [s.queue EXCEPT ![x] = << >>]
           p == [s.pend EXCEPT ![x] = NotWaiting]
           i == [s.inbox EXCEPT ![x] = Empty]
           o == [s.ret EXCEPT ![x] = "OK"]
           r == Unscheduled(s, x)
<1>1. /\ s \in KernelState /\ SchedSound(s.sched)
      /\ s.queue \in [Thread -> Seq(Message)]
      /\ s.pend \in [Thread -> PendingRecord]
      /\ s.inbox \in [Thread -> Message \cup {Empty}]
      /\ s.ret \in [Thread -> {"OK", "FAILED"}]
  BY KernelFields DEF KernelSound
<1>2. /\ Changed(b, s.sched, {x}) /\ b.running = s.sched.running
      /\ b.status[x] = "ABSENT"
  BY <1>1, RemoveOnly
<1>3. /\ q \in [Thread -> Seq(Message)] /\ q[x] = << >>
      /\ \A t \in Thread \ {x} : q[t] = s.queue[t]
      /\ i \in [Thread -> Message \cup {Empty}] /\ i[x] = Empty
      /\ \A t \in Thread \ {x} : i[t] = s.inbox[t]
      /\ o \in [Thread -> {"OK", "FAILED"}]
      /\ \A t \in Thread \ {x} : o[t] = s.ret[t]
  BY <1>1
<1>4. /\ p \in [Thread -> PendingRecord] /\ p[x] = NotWaiting
      /\ \A t \in Thread \ {x} : p[t] = s.pend[t]
  BY <1>1, NotWaitingType
<1>5. r = [s EXCEPT !.sched = b, !.queue = q, !.pend = p, !.inbox = i, !.ret = o]
  BY DEF KernelState, Unscheduled
<1> HIDE DEF b, q, p, i, o, r
<1>6. /\ SchedSound(b) /\ b \in Scheduler
      /\ \A t \in Thread \ {x} :
            /\ Active(b, t) <=> Active(s.sched, t)
            /\ ~Active(s.sched, t) => b.status[t] = s.sched.status[t]
  BY <1>2 DEF Changed, SchedSound
<1>7. /\ r \in KernelState /\ r.sched = b /\ r.queue = q
      /\ r.pend = p /\ r.inbox = i /\ r.ret = o
  <2>1. r \in KernelState
    BY <1>1, <1>3, <1>4, <1>5, <1>6 DEF KernelState, PendingRecord
  <2> QED  BY <1>5, <2>1 DEF KernelState
<1>8. \A u \in Thread \ {x} : WaitsIn(r, u) <=> WaitsIn(s, u)
  BY <1>4, <1>6, <1>7 DEF WaitsIn, Active
<1>9. ~WaitsIn(r, x) /\ Absent(r, x)
  BY <1>2, <1>7 DEF WaitsIn, Absent
<1>10. NoneMissed(r)
  <2> SUFFICES ASSUME NEW t \in Thread, WaitsIn(r, t)
               PROVE  \A j \in 1 .. Len(r.queue[t]) :
                        ~Matches(r.queue[t][j], r.pend[t].from, r.pend[t].id)
    BY DEF NoneMissed
  <2>1. t # x
    BY <1>9
  <2>2. WaitsIn(s, t) /\ r.queue[t] = s.queue[t] /\ r.pend[t] = s.pend[t]
    BY <1>3, <1>4, <1>7, <1>8, <2>1
  <2> QED  BY <2>2 DEF KernelSound, NoneMissed
<1>11. ASSUME NEW t \in Thread, ~Active(r.sched, t)
       PROVE  WaitsIn(r, t) \/ r.pend[t] = NotWaiting
  <2>1. CASE t = x
    BY <1>4, <1>7, <2>1
  <2>2. CASE t # x
    <3>1. ~Active(s.sched, t)
      BY <1>6, <1>7, <1>11, <2>2
    <3>2. WaitsIn(s, t) \/ s.pend[t] = NotWaiting
      BY <3>1 DEF KernelSound
    <3> QED  BY <1>4, <1>7, <1>8, <2>2, <3>2
  <2> QED  BY <2>1, <2>2
<1>12. KernelSound(r)
  BY <1>6, <1>7, <1>10, <1>11 DEF KernelSound
<1>13. \A u \in Thread \ {x} : Absent(r, u) <=> Absent(s, u)
  BY <1>6, <1>7 DEF Absent, Active
<1> QED  BY <1>2, <1>3, <1>4, <1>6, <1>7, <1>8, <1>9, <1>12, <1>13 DEF r

\* ipcFreeBlockedThreads tells a thread that its receive has failed.
LEMMA TellEffect ==
    ASSUME NEW s, KernelSound(s), NEW t \in Thread
    PROVE  LET r == [s EXCEPT !.ret[t] = "FAILED"]
           IN  /\ KernelSound(r)
               /\ r.sched = s.sched /\ r.queue = s.queue
               /\ r.pend = s.pend /\ r.inbox = s.inbox
               /\ r.ret = [s.ret EXCEPT ![t] = "FAILED"]
<1> DEFINE o == [s.ret EXCEPT ![t] = "FAILED"]
           r == [s EXCEPT !.ret[t] = "FAILED"]
<1>1. s \in KernelState /\ SchedSound(s.sched) /\ o \in [Thread -> {"OK", "FAILED"}]
  BY KernelFields DEF KernelSound
<1>2. r = [s EXCEPT !.ret = o]
  BY DEF KernelState
<1> HIDE DEF o, r
<1>3. /\ r \in KernelState /\ r.sched = s.sched /\ r.queue = s.queue
      /\ r.pend = s.pend /\ r.inbox = s.inbox /\ r.ret = o
  <2>1. r \in KernelState
    BY <1>1, <1>2 DEF KernelState
  <2> QED  BY <1>2, <2>1 DEF KernelState
<1>4. KernelSound(r)
  BY <1>3 DEF KernelSound, NoneMissed, WaitsIn
<1> QED  BY <1>3, <1>4 DEF r, o


-----------------------------------------------------------------------------
(* Programs *)

Instruction ==
    { i \in [ do  : {"send", "call", "recv", "serve", "exit", "fault", "yield",
                     "beyond", "hash", "build", "ready", "unhash", "unschedule",
                     "freeblocked", "visit"},
              to  : Thread \cup {NULL, ANY},
              id  : MessageId,
              arg : Thread \cup {NULL} ] :
        /\ i.do = "recv" => i.to # NULL
        /\ i.do = "call" => i.id \in {"TM_START", "TM_KILL", "VM_CALL", "IO_CALL"} }

Then(i, p) == <<i>> \o p

\* Then puts one instruction in front of a program.
LEMMA ThenProperties ==
    ASSUME NEW S, NEW i \in S, NEW p \in Seq(S)
    PROVE  /\ Then(i, p) \in Seq(S) /\ Then(i, p) # << >>
           /\ Head(Then(i, p)) = i /\ Tail(Then(i, p)) = p
           /\ Range(Then(i, p)) = {i} \cup Range(p)
<1> DEFINE l == Then(i, p)
<1>1. <<i>> \in Seq(S) /\ Len(<<i>>) = 1 /\ <<i>>[1] = i
  OBVIOUS
<1>2. Len(p) \in Nat
  BY LenProperties
<1>3. /\ l \in Seq(S)
      /\ Len(l) = 1 + Len(p)
      /\ \A j \in 1 .. 1 + Len(p) : l[j] = IF j <= 1 THEN <<i>>[j] ELSE p[j - 1]
  BY <1>1, ConcatProperties DEF Then
<1>4. l[1] = i
  BY <1>1, <1>2, <1>3
<1>5. ASSUME NEW j \in 1 .. Len(p) PROVE l[j + 1] = p[j]
  <2>1. j + 1 \in 1 .. 1 + Len(p) /\ ~(j + 1 <= 1) /\ (j + 1) - 1 = j
    BY <1>2
  <2> QED  BY <1>3, <2>1
<1> HIDE DEF l
<1>6. l # << >>
  <2>1. Len(l) # 0
    BY <1>2, <1>3
  <2> QED  BY <2>1, EmptySeq
<1>7. Head(l) = i
  BY <1>3, <1>4, <1>6
<1>8. Tail(l) = p
  <2>1. /\ Tail(l) \in Seq(S)
        /\ Len(Tail(l)) = Len(l) - 1
        /\ \A j \in 1 .. Len(Tail(l)) : Tail(l)[j] = l[j + 1]
    BY <1>3, <1>6, HeadTailProperties
  <2>2. Len(Tail(l)) = Len(p)
    BY <1>2, <1>3, <2>1
  <2>3. \A j \in 1 .. Len(Tail(l)) : Tail(l)[j] = p[j]
    BY <1>5, <2>1, <2>2
  <2> QED  BY <2>1, <2>2, <2>3, SeqEqual
<1>9. Range(l) = {i} \cup Range(p)
  <2>1. Range(<<i>>) = {i}
    BY <1>1 DEF Range
  <2>2. Range(<<i>> \o p) = Range(<<i>>) \cup Range(p)
    BY <1>1, RangeConcatenation
  <2> QED  BY <2>1, <2>2 DEF l, Then
<1> QED  BY <1>3, <1>6, <1>7, <1>8, <1>9 DEF l

\* A program of five instructions before another one.
LEMMA FiveThen ==
    ASSUME NEW S, NEW a, NEW b, NEW c, NEW d, NEW e, NEW p \in Seq(S),
           <<a, b, c, d, e>> \in Seq(S)
    PROVE  <<a, b, c, d, e>> \o p = Then(a, Then(b, Then(c, Then(d, Then(e, p)))))
<1>0. a \in S /\ b \in S /\ c \in S /\ d \in S /\ e \in S
  <2> DEFINE l == <<a, b, c, d, e>>
  <2>1. Len(l) = 5 /\ l[1] = a /\ l[2] = b /\ l[3] = c /\ l[4] = d /\ l[5] = e
    OBVIOUS
  <2>2. \A i \in 1 .. Len(l) : l[i] \in S
    BY ElementOfSeq
  <2> QED  BY <2>1, <2>2
<1>1. /\ <<a>> \in Seq(S) /\ <<b>> \in Seq(S) /\ <<c>> \in Seq(S)
      /\ <<d>> \in Seq(S) /\ <<e>> \in Seq(S)
      /\ <<d, e>> \in Seq(S) /\ <<c, d, e>> \in Seq(S) /\ <<b, c, d, e>> \in Seq(S)
      /\ <<a, b, c, d, e>> \in Seq(S)
  BY <1>0
<1>2. /\ <<a, b, c, d, e>> = <<a>> \o <<b, c, d, e>>
      /\ <<b, c, d, e>> = <<b>> \o <<c, d, e>>
      /\ <<c, d, e>> = <<c>> \o <<d, e>>
      /\ <<d, e>> = <<d>> \o <<e>>
  <2>1. <<d, e>> = <<d>> \o <<e>>
    <3> DEFINE l == <<d>> \o <<e>>
    <3>1. /\ l \in Seq(S) /\ Len(l) = 1 + Len(<<e>>)
          /\ \A i \in 1 .. 1 + Len(<<e>>) :
                l[i] = IF i <= 1 THEN <<d>>[i] ELSE <<e>>[i - 1]
      BY <1>1, ConcatProperties
    <3>2. Len(l) = 2 /\ l[1] = d /\ l[2] = e
      BY <3>1
    <3> HIDE DEF l
    <3>3. \A i \in 1 .. 2 : l[i] = <<d, e>>[i]
      BY <3>2
    <3> QED  BY <1>1, <3>1, <3>2, <3>3, SeqEqual DEF l
  <2>2. <<c, d, e>> = <<c>> \o <<d, e>>
    <3> DEFINE l == <<c>> \o <<d, e>>
    <3>1. /\ l \in Seq(S) /\ Len(l) = 1 + Len(<<d, e>>)
          /\ \A i \in 1 .. 1 + Len(<<d, e>>) :
                l[i] = IF i <= 1 THEN <<c>>[i] ELSE <<d, e>>[i - 1]
      BY <1>1, ConcatProperties
    <3>2. Len(l) = 3 /\ l[1] = c /\ l[2] = d /\ l[3] = e
      BY <3>1
    <3> HIDE DEF l
    <3>3. \A i \in 1 .. 3 : l[i] = <<c, d, e>>[i]
      BY <3>2
    <3> QED  BY <1>1, <3>1, <3>2, <3>3, SeqEqual DEF l
  <2>3. <<b, c, d, e>> = <<b>> \o <<c, d, e>>
    <3> DEFINE l == <<b>> \o <<c, d, e>>
    <3>1. /\ l \in Seq(S) /\ Len(l) = 1 + Len(<<c, d, e>>)
          /\ \A i \in 1 .. 1 + Len(<<c, d, e>>) :
                l[i] = IF i <= 1 THEN <<b>>[i] ELSE <<c, d, e>>[i - 1]
      BY <1>1, ConcatProperties
    <3>2. Len(l) = 4 /\ l[1] = b /\ l[2] = c /\ l[3] = d /\ l[4] = e
      BY <3>1
    <3> HIDE DEF l
    <3>3. \A i \in 1 .. 4 : l[i] = <<b, c, d, e>>[i]
      BY <3>2
    <3> QED  BY <1>1, <3>1, <3>2, <3>3, SeqEqual DEF l
  <2>4. <<a, b, c, d, e>> = <<a>> \o <<b, c, d, e>>
    <3> DEFINE l == <<a>> \o <<b, c, d, e>>
    <3>1. /\ l \in Seq(S) /\ Len(l) = 1 + Len(<<b, c, d, e>>)
          /\ \A i \in 1 .. 1 + Len(<<b, c, d, e>>) :
                l[i] = IF i <= 1 THEN <<a>>[i] ELSE <<b, c, d, e>>[i - 1]
      BY <1>1, ConcatProperties
    <3>2. Len(l) = 5 /\ l[1] = a /\ l[2] = b /\ l[3] = c /\ l[4] = d /\ l[5] = e
      BY <3>1
    <3> HIDE DEF l
    <3>3. \A i \in 1 .. 5 : l[i] = <<a, b, c, d, e>>[i]
      BY <3>2
    <3> QED  BY <1>1, <3>1, <3>2, <3>3, SeqEqual DEF l
  <2> QED  BY <2>1, <2>2, <2>3, <2>4
<1>3. /\ (<<d>> \o <<e>>) \o p = <<d>> \o (<<e>> \o p)
      /\ (<<c>> \o <<d, e>>) \o p = <<c>> \o (<<d, e>> \o p)
      /\ (<<b>> \o <<c, d, e>>) \o p = <<b>> \o (<<c, d, e>> \o p)
      /\ (<<a>> \o <<b, c, d, e>>) \o p = <<a>> \o (<<b, c, d, e>> \o p)
  BY <1>1, ConcatAssociative
<1>4. <<d, e>> \o p = Then(d, Then(e, p))
  BY <1>2, <1>3 DEF Then
<1>5. <<c, d, e>> \o p = Then(c, <<d, e>> \o p)
  BY <1>2, <1>3 DEF Then
<1>6. <<b, c, d, e>> \o p = Then(b, <<c, d, e>> \o p)
  BY <1>2, <1>3 DEF Then
<1>7. <<a, b, c, d, e>> \o p = Then(a, <<b, c, d, e>> \o p)
  BY <1>2, <1>3 DEF Then
<1> QED  BY <1>4, <1>5, <1>6, <1>7

\* Concatenation is associative.
LEMMA Reassociate ==
    ASSUME NEW a \in Seq(Instruction), NEW b \in Seq(Instruction),
           NEW c \in Seq(Instruction)
    PROVE  (a \o b) \o c = a \o (b \o c)
<1> DEFINE l == (a \o b) \o c
           r == a \o (b \o c)
<1>1. PICK x, y, z \in Nat : x = Len(a) /\ y = Len(b) /\ z = Len(c)
  OBVIOUS
<1>2. a \o b \in Seq(Instruction) /\ Len(a \o b) = x + y
  BY <1>1
<1>3. b \o c \in Seq(Instruction) /\ Len(b \o c) = y + z
  BY <1>1
<1>4. l \in Seq(Instruction) /\ Len(l) = x + y + z
  BY <1>1, <1>2
<1>5. r \in Seq(Instruction) /\ Len(r) = x + y + z
  BY <1>1, <1>3
<1>6. ASSUME NEW i \in 1 .. x + y + z
      PROVE  l[i] = r[i]
  <2>1. CASE i <= x
    <3>1. (a \o b)[i] = a[i]
      BY <1>1, <2>1
    <3>2. l[i] = (a \o b)[i]
      BY <1>1, <1>2, <2>1
    <3>3. r[i] = a[i]
      BY <1>1, <1>3, <2>1
    <3> QED  BY <3>1, <3>2, <3>3
  <2>2. CASE x < i /\ i <= x + y
    <3>1. PICK j \in 1 .. y : i = x + j
      <4>1. i - x \in 1 .. y /\ i = x + (i - x)
        BY <1>1, <2>2
      <4> QED  BY <4>1
    <3>2. (a \o b)[i] = b[j]
      BY <1>1, <3>1
    <3>3. l[i] = (a \o b)[i]
      BY <1>1, <1>2, <2>2
    <3>4. r[i] = (b \o c)[j]
      BY <1>1, <1>3, <3>1
    <3>5. (b \o c)[j] = b[j]
      BY <1>1, <3>1
    <3> QED  BY <3>2, <3>3, <3>4, <3>5
  <2>3. CASE x + y < i
    <3>1. PICK j \in 1 .. z : i = x + y + j
      <4>1. i - (x + y) \in 1 .. z /\ i = x + y + (i - (x + y))
        BY <1>1, <2>3
      <4> QED  BY <4>1
    <3>2. l[i] = c[j]
      BY <1>1, <1>2, <3>1
    <3>3. r[i] = (b \o c)[y + j]
      <4>1. y + j \in 1 .. y + z /\ i = x + (y + j)
        BY <1>1, <3>1
      <4> QED  BY <4>1, <1>1, <1>3
    <3>4. (b \o c)[y + j] = c[j]
      BY <1>1, <3>1
    <3> QED  BY <3>2, <3>3, <3>4
  <2> QED  BY <2>1, <2>2, <2>3, <1>1
<1> HIDE DEF l, r
<1>7. l = r
  BY <1>1, <1>4, <1>5, <1>6, SeqEqual
<1> QED  BY <1>7 DEF l, r

\* A non-empty program of the form v \o p with v not empty starts as v does.
LEMMA HeadTailConcat ==
    ASSUME NEW S, NEW v \in Seq(S), NEW p \in Seq(S), v # << >>
    PROVE  /\ v \o p # << >>
           /\ Head(v \o p) = Head(v)
           /\ Tail(v \o p) = Tail(v) \o p
           /\ v \o p = Then(Head(v), Tail(v) \o p)
<1>1. Head(v) \in S /\ Tail(v) \in Seq(S)
  BY HeadTailProperties
<1>2. v = Then(Head(v), Tail(v))
  <2> DEFINE l == Then(Head(v), Tail(v))
  <2>1. l \in Seq(S) /\ l # << >> /\ Head(l) = Head(v) /\ Tail(l) = Tail(v)
    BY <1>1, ThenProperties
  <2> HIDE DEF l
  <2>2. /\ Len(v) \in Nat /\ Len(l) \in Nat /\ Len(v) # 0 /\ Len(l) # 0
        /\ Len(Tail(v)) = Len(v) - 1 /\ Len(Tail(l)) = Len(l) - 1
    <3>1. /\ Len(v) \in Nat \ {0}
          /\ Len(Tail(v)) = Len(v) - 1
      BY EmptySeq, HeadTailProperties
    <3>2. /\ Len(l) \in Nat \ {0}
          /\ Len(Tail(l)) = Len(l) - 1
      BY <2>1, EmptySeq, HeadTailProperties
    <3> QED  BY <3>1, <3>2
  <2>3. Len(l) = Len(v)
    <3> DEFINE a == Len(l)
               b == Len(v)
    <3>1. Len(Tail(l)) = Len(Tail(v))
      BY <2>1, Zenon
    <3>2. a \in Nat /\ b \in Nat /\ a - 1 = b - 1
      BY <2>2, <3>1
    <3> HIDE DEF a, b
    <3>3. a = b
      BY <3>2
    <3> QED  BY <3>3 DEF a, b
  <2>4. ASSUME NEW i \in 1 .. Len(v) PROVE l[i] = v[i]
    <3>1. CASE i = 1
      BY <2>1, <3>1
    <3>2. CASE i # 1
      <4>1. i - 1 \in 1 .. Len(Tail(v)) /\ (i - 1) + 1 = i
        BY <2>2, <3>2
      <4>2. Tail(v)[i - 1] = v[i] /\ Tail(l)[i - 1] = l[i]
        <5>1. /\ \A j \in 1 .. Len(Tail(v)) : Tail(v)[j] = v[j + 1]
              /\ \A j \in 1 .. Len(Tail(l)) : Tail(l)[j] = l[j + 1]
          BY <2>1, HeadTailProperties
        <5> QED  BY <2>1, <4>1, <5>1
      <4> QED  BY <2>1, <4>2
    <3> QED  BY <3>1, <3>2
  <2>5. l = v
    BY <2>1, <2>3, <2>4, SeqEqual
  <2> QED  BY <2>5 DEF l
<1>3. Tail(v) \o p \in Seq(S)
  BY <1>1, ConcatProperties
<1>4. Then(Head(v), Tail(v)) \o p = Then(Head(v), Tail(v) \o p)
  BY <1>1, ConcatAssociative DEF Then
<1>5. v \o p = Then(Head(v), Tail(v) \o p)
  BY <1>2, <1>4
<1> DEFINE h == Head(v)
           q == Tail(v) \o p
<1>6. h \in S /\ q \in Seq(S)
  BY <1>1, <1>3
<1> HIDE DEF h, q
<1>7. /\ Then(h, q) # << >> /\ Head(Then(h, q)) = h
      /\ Tail(Then(h, q)) = q
  BY <1>6, ThenProperties
<1> QED  BY <1>5, <1>7 DEF h, q

Serve  == Own("serve", NULL)
Listen == Recv(ANY, "ANYMSGTYPE")
CallMM == Call(MM, "VM_CALL", NULL)
RecvMM == Recv(MM, "VM_REPLY")

\* What TM has left to do: an answer, starting u on behalf of r, and ending x
\* before p.
Answer(r, id)       == Then(Send(r, id, NULL), MainLoop)
ReadyThen(u, r)     == Then(Own("ready", u), Answer(r, "TM_STARTREPLY"))
BuildThen(u, r)     == Then(Own("build", u), ReadyThen(u, r))
HashThen(u, r)      == Then(Own("hash", u), Then(CallMM, BuildThen(u, r)))
FreeThen(x, p)      == Then(Own("freeblocked", x), p)
CleanThen(x, p)     == Then(Send(MM, "VM_CLEANUP", NULL), FreeThen(x, p))
UnschedThen(x, p)   == Then(Own("unschedule", x), Then(CallMM, CleanThen(x, p)))
UnhashThen(x, p)    == Then(Own("unhash", x), UnschedThen(x, p))

AnswerId == {"TM_STARTREPLY", "TM_KILLREPLY", "UNKNOWN_SYSCALL"}

\* What follows the end of a thread.
Post == {MainLoop} \cup {Answer(r, "TM_KILLREPLY") : r \in Thread}

Visits(x) == {Instr("visit", t, "ANYMSGTYPE", x) : t \in Thread}

\* The programs of MM and of the drivers, of which only the latter fault.
ServerInstruction ==
    {Listen, Serve}
        \cup {Send(r, id, NULL) : r \in Thread \cup {NULL},
                                  id \in {"VM_REPLY", "IO_REPLY", "UNKNOWN_SYSCALL"}}
DriverInstruction == ServerInstruction \cup {Own("fault", NULL)}

\* Everything that a thread of the kernel executes is an instruction.
LEMMA Instructions ==
    /\ Serve \in Instruction /\ Listen \in Instruction
    /\ CallMM \in Instruction /\ RecvMM \in Instruction
    /\ Send(MM, "VM_CLEANUP", NULL) \in Instruction
    /\ Beyond \in Instruction
    /\ \A r \in Thread \cup {NULL}, id \in MessageId : Send(r, id, NULL) \in Instruction
    /\ \A f \in Thread \cup {ANY}, id \in MessageId : Recv(f, id) \in Instruction
    /\ \A t \in Thread \cup {NULL} :
          /\ Own("ready", t) \in Instruction /\ Own("build", t) \in Instruction
          /\ Own("hash", t) \in Instruction /\ Own("freeblocked", t) \in Instruction
          /\ Own("unschedule", t) \in Instruction /\ Own("unhash", t) \in Instruction
          /\ Own("fault", t) \in Instruction
          /\ Visits(t) \subseteq Instruction
    /\ DriverInstruction \subseteq Instruction
<1> USE DEF Instruction, Instr, Own, Send, Recv, Call
<1>1. MM \in Thread /\ NULL \notin Thread \cup {ANY}
  BY SystemThreads
<1>2. /\ Serve \in Instruction /\ Listen \in Instruction
      /\ CallMM \in Instruction /\ RecvMM \in Instruction
      /\ Send(MM, "VM_CLEANUP", NULL) \in Instruction
      /\ Beyond \in Instruction
  BY <1>1 DEF Serve, Listen, CallMM, RecvMM, Beyond, MessageId
<1>3. \A r \in Thread \cup {NULL}, id \in MessageId : Send(r, id, NULL) \in Instruction
  OBVIOUS
<1>4. \A f \in Thread \cup {ANY}, id \in MessageId : Recv(f, id) \in Instruction
  BY <1>1
<1>5. ASSUME NEW t \in Thread \cup {NULL}
      PROVE /\ Own("ready", t) \in Instruction /\ Own("build", t) \in Instruction
            /\ Own("hash", t) \in Instruction /\ Own("freeblocked", t) \in Instruction
            /\ Own("unschedule", t) \in Instruction /\ Own("unhash", t) \in Instruction
            /\ Own("fault", t) \in Instruction
            /\ Visits(t) \subseteq Instruction
  BY DEF MessageId, Visits
<1>6. DriverInstruction \subseteq Instruction
  <2>1. \A id \in {"VM_REPLY", "IO_REPLY", "UNKNOWN_SYSCALL"} : id \in MessageId
    BY DEF MessageId
  <2>2. Own("fault", NULL) \in Instruction
    BY <1>5
  <2> QED  BY <1>2, <1>3, <2>1, <2>2 DEF ServerInstruction, DriverInstruction
<1> QED  BY <1>2, <1>3, <1>4, <1>5, <1>6

\* So is everything that a user thread may start with.
LEMMA UserInstructions == UserInstr \subseteq Instruction
<1>1. \A d \in Drivers : Call(d, "IO_CALL", NULL) \in Instruction
  BY SystemThreads DEF Instruction, Call, Instr, MessageId
<1>2. \A u \in Users \cup {TM} : Send(u, "DATA", NULL) \in Instruction
  BY SystemThreads DEF Instruction, Send, Instr, MessageId
<1>3. /\ \A f \in Users \cup {ANY} : Recv(f, "DATA") \in Instruction
      /\ Recv(ANY, "ANYMSGTYPE") \in Instruction
  BY SystemThreads DEF Instruction, Recv, Instr, MessageId
<1>4. /\ \A x \in Users \cup {MM} : Call(TM, "TM_KILL", x) \in Instruction
      /\ Call(TM, "TM_START", NULL) \in Instruction
      /\ Call(MM, "VM_CALL", NULL) \in Instruction
  BY SystemThreads DEF Instruction, Call, Instr, MessageId
<1>5. /\ Own("exit", NULL) \in Instruction /\ Own("fault", NULL) \in Instruction
      /\ Own("yield", NULL) \in Instruction
  BY DEF Instruction, Own, Instr, MessageId
<1> QED  BY <1>1, <1>2, <1>3, <1>4, <1>5 DEF UserInstr

\* The main loop receives and then serves.
LEMMA MainLoopIs ==
    /\ MainLoop = Then(Listen, <<Serve>>)
    /\ <<Serve>> = Then(Serve, << >>)
    /\ MainLoop \in Seq(Instruction) /\ MainLoop \in Seq(ServerInstruction)
    /\ <<Serve>> \in Seq(Instruction) /\ <<Serve>> \in Seq(ServerInstruction)
    /\ MainLoop \in Seq(DriverInstruction)
    /\ MainLoop # << >> /\ Head(MainLoop) = Listen /\ Tail(MainLoop) = <<Serve>>
    /\ <<Serve>> # << >> /\ Head(<<Serve>>) = Serve /\ Tail(<<Serve>>) = << >>
<1>1. /\ Listen \in ServerInstruction /\ Serve \in ServerInstruction
      /\ Listen \in DriverInstruction /\ Serve \in DriverInstruction
  BY DEF ServerInstruction, DriverInstruction
<1>2. Listen \in Instruction /\ Serve \in Instruction
  BY Instructions
<1>3. MainLoop = <<Listen, Serve>>
  BY DEF MainLoop, Listen, Serve
<1>4. MainLoop = Then(Listen, <<Serve>>)
  BY <1>3 DEF Then
<1>5. <<Serve>> = Then(Serve, << >>)
  BY DEF Then
<1> QED  BY <1>1, <1>2, <1>3, <1>4, <1>5

\* Every form is a program.
LEMMA Forms ==
    /\ \A r \in Thread \cup {NULL}, id \in AnswerId : Answer(r, id) \in Seq(Instruction)
    /\ Post \subseteq Seq(Instruction)
    /\ \A u \in Thread, r \in Thread :
          /\ ReadyThen(u, r) \in Seq(Instruction)
          /\ BuildThen(u, r) \in Seq(Instruction)
          /\ Then(CallMM, BuildThen(u, r)) \in Seq(Instruction)
          /\ Then(RecvMM, BuildThen(u, r)) \in Seq(Instruction)
          /\ HashThen(u, r) \in Seq(Instruction)
          /\ Then(CallMM, HashThen(u, r)) \in Seq(Instruction)
          /\ Then(RecvMM, HashThen(u, r)) \in Seq(Instruction)
    /\ \A x \in Thread, p \in Seq(Instruction) :
          /\ FreeThen(x, p) \in Seq(Instruction)
          /\ CleanThen(x, p) \in Seq(Instruction)
          /\ Then(CallMM, CleanThen(x, p)) \in Seq(Instruction)
          /\ Then(RecvMM, CleanThen(x, p)) \in Seq(Instruction)
          /\ UnschedThen(x, p) \in Seq(Instruction)
          /\ UnhashThen(x, p) \in Seq(Instruction)
<1>0. /\ CallMM \in Instruction /\ RecvMM \in Instruction
      /\ Send(MM, "VM_CLEANUP", NULL) \in Instruction
      /\ \A t \in Thread :
          /\ Own("ready", t) \in Instruction /\ Own("build", t) \in Instruction
          /\ Own("hash", t) \in Instruction /\ Own("freeblocked", t) \in Instruction
          /\ Own("unschedule", t) \in Instruction /\ Own("unhash", t) \in Instruction
  BY Instructions
<1>1. ASSUME NEW r \in Thread \cup {NULL}, NEW id \in AnswerId
      PROVE  Answer(r, id) \in Seq(Instruction)
  <2>1. Send(r, id, NULL) \in Instruction
    <3>1. id \in MessageId
      BY DEF AnswerId, MessageId
    <3> QED  BY <3>1, Instructions
  <2> QED  BY <2>1, MainLoopIs, ThenProperties DEF Answer
<1>2. Post \subseteq Seq(Instruction)
  BY <1>1, MainLoopIs DEF Post, AnswerId
<1>3. ASSUME NEW u \in Thread, NEW r \in Thread
      PROVE /\ ReadyThen(u, r) \in Seq(Instruction)
            /\ BuildThen(u, r) \in Seq(Instruction)
            /\ Then(CallMM, BuildThen(u, r)) \in Seq(Instruction)
            /\ Then(RecvMM, BuildThen(u, r)) \in Seq(Instruction)
            /\ HashThen(u, r) \in Seq(Instruction)
            /\ Then(CallMM, HashThen(u, r)) \in Seq(Instruction)
            /\ Then(RecvMM, HashThen(u, r)) \in Seq(Instruction)
  <2>1. Answer(r, "TM_STARTREPLY") \in Seq(Instruction)
    BY <1>1 DEF AnswerId
  <2>2. ReadyThen(u, r) \in Seq(Instruction)
    BY <1>0, <2>1, ThenProperties DEF ReadyThen
  <2>3. BuildThen(u, r) \in Seq(Instruction)
    BY <1>0, <2>2, ThenProperties DEF BuildThen
  <2>4. Then(CallMM, BuildThen(u, r)) \in Seq(Instruction)
    BY <1>0, <2>3, ThenProperties
  <2>5. HashThen(u, r) \in Seq(Instruction)
    BY <1>0, <2>4, ThenProperties DEF HashThen
  <2> QED  BY <1>0, <2>2, <2>3, <2>4, <2>5, ThenProperties
<1>4. ASSUME NEW x \in Thread, NEW p \in Seq(Instruction)
      PROVE /\ FreeThen(x, p) \in Seq(Instruction)
            /\ CleanThen(x, p) \in Seq(Instruction)
            /\ Then(CallMM, CleanThen(x, p)) \in Seq(Instruction)
            /\ Then(RecvMM, CleanThen(x, p)) \in Seq(Instruction)
            /\ UnschedThen(x, p) \in Seq(Instruction)
            /\ UnhashThen(x, p) \in Seq(Instruction)
  <2>1. FreeThen(x, p) \in Seq(Instruction)
    BY <1>0, ThenProperties DEF FreeThen
  <2>2. CleanThen(x, p) \in Seq(Instruction)
    BY <1>0, <2>1, ThenProperties DEF CleanThen
  <2>3. Then(CallMM, CleanThen(x, p)) \in Seq(Instruction)
    BY <1>0, <2>2, ThenProperties
  <2>4. UnschedThen(x, p) \in Seq(Instruction)
    BY <1>0, <2>3, ThenProperties DEF UnschedThen
  <2> QED  BY <1>0, <2>1, <2>2, <2>3, <2>4, ThenProperties DEF UnhashThen
<1> QED  BY <1>1, <1>2, <1>3, <1>4
-----------------------------------------------------------------------------
(* The invariant *)

Mortal == Users \cup Drivers

\* u is a user thread that was never started.
Fresh(u) == \E j \in nextId .. Len(UserIds) : u = UserIds[j]

Gone(x) == ~Exists(x) /\ ~Fresh(x) /\ Absent(k, x)

\* TM asks MM and waits for its answer before it goes on with p.
Around(p) == todo[TM] \in {Then(CallMM, p), Then(RecvMM, p), p}

\* TM starts u, which r asked for.
Starting(u, r) ==
    \/ Around(HashThen(u, r)) /\ nextId <= Len(UserIds) /\ u = UserIds[nextId]
    \/ Around(BuildThen(u, r)) /\ Exists(u) /\ Absent(k, u)
    \/ /\ todo[TM] = ReadyThen(u, r)
       /\ k.sched.status[u] = "BLOCKED" /\ ~WaitsIn(k, u)

\* TM visits the threads that may wait for x, one of which it found.
Visiting(x, p) ==
    \/ \E v \in Seq(Visits(x)) : todo[TM] = v \o p
    \/ \E v \in Seq(Visits(x)), t \in Thread :
          /\ todo[TM] = Then(Own("ready", t), v \o p)
          /\ WaitsIn(k, t) /\ k.ret[t] = "FAILED" /\ k.pend[t].from = x

\* TM ends x before it goes on with p.
Ending(x, p) ==
    \/ todo[TM] = UnhashThen(x, p) /\ Exists(x)
    \/ todo[TM] = UnschedThen(x, p) /\ ~Exists(x) /\ ~Fresh(x)
    \/ Gone(x) /\ (Around(CleanThen(x, p)) \/ todo[TM] = FreeThen(x, p) \/ Visiting(x, p))

TmProgram ==
    \/ todo[TM] = <<Serve>> \/ todo[TM] = MainLoop
    \/ \E r \in Thread \cup {NULL}, id \in AnswerId : todo[TM] = Answer(r, id)
    \/ \E u \in Users, r \in Thread : Starting(u, r)
    \/ \E x \in Mortal, p \in Post : Ending(x, p)

\* TM sleeps in its main loop or until MM answers.
TmWaits ==
    WaitsIn(k, TM) => \/ k.pend[TM].from = ANY /\ k.pend[TM].id = "ANYMSGTYPE"
                      \/ k.pend[TM].from = MM /\ k.pend[TM].id = "VM_REPLY"

\* Whom TM will be told to end: never a thread of the kernel.
MailNames(m) ==
    /\ m.id = "TM_KILL" => m.from \in Users \/ m.arg \in Mortal
    /\ m.id = "TM_EXIT" => m.from \in Users

Typed ==
    /\ KernelSound(k)
    /\ threadList \in Seq(Thread) /\ IsInjective(threadList)
    /\ nextId \in Nat \ {0}
    /\ todo \in [Thread -> Seq(Instruction)]

Programs ==
    /\ todo[Idle] = << >>
    /\ todo[MM] \in Seq(ServerInstruction)
    /\ \A d \in Drivers : todo[d] \in Seq(DriverInstruction)

KernelLives == \A t \in {TM, MM, Idle} : Exists(t) /\ ~Absent(k, t)

FreshUnseen == \A u \in Users : Fresh(u) => ~Exists(u) /\ Absent(k, u)

\* The lists agree but while TM is between two removals.
Listed ==
    \A t \in Thread :
        ~Absent(k, t) => Exists(t) \/ \E p \in Post : todo[TM] = UnschedThen(t, p)

\* A thread that is told of a failure while it waits is woken next, and the
\* thread it waited for is gone.
FailedReady ==
    \A t \in Thread : WaitsIn(k, t) /\ k.ret[t] = "FAILED" =>
        /\ Head(todo[TM]) = Own("ready", t)
        /\ k.pend[t].from \in Mortal
        /\ ~Exists(k.pend[t].from) /\ Absent(k, k.pend[t].from)

IInv ==
    /\ Typed /\ Programs /\ KernelLives /\ FreshUnseen /\ Listed
    /\ TmProgram /\ TmWaits /\ FailedReady /\ NoWaitForDead
    /\ \A m \in Mail(k) : MailNames(m)

\* The threads that can end are the others than TM, MM and Idle.
LEMMA MortalThreads ==
    /\ Mortal \subseteq Thread /\ Mortal \cap {TM, MM, Idle, ANY, NULL} = {}
    /\ Thread = Mortal \cup {TM, MM, Idle}
BY SystemThreads DEF Mortal

\* Handlers leave TM where it is in its work: they wake nobody that TM has
\* found, because the thread that it waits for never runs again.
LEMMA ProgramHolds ==
    ASSUME Typed, TmProgram, Moves(k', k), UNCHANGED <<threadList, nextId>>,
           todo'[TM] = todo[TM]
    PROVE  TmProgram'
<1>0. k.sched.running \in Thread /\ k.sched.status[k.sched.running] = "RUNNING"
  BY DEF Typed, KernelSound, SchedSound
<1>1. /\ \A u \in Thread : Absent(k', u) <=> Absent(k, u)
      /\ \A u : Fresh(u)' <=> Fresh(u)
      /\ \A u : Exists(u)' <=> Exists(u)
  BY DEF Moves, Fresh, Exists
<1>2. /\ \A u \in Thread : Gone(u)' <=> Gone(u)
      /\ \A p : Around(p)' <=> Around(p)
  BY <1>1 DEF Gone, Around
<1>3. CASE \/ todo[TM] = <<Serve>> \/ todo[TM] = MainLoop
           \/ \E r \in Thread \cup {NULL}, id \in AnswerId : todo[TM] = Answer(r, id)
  BY <1>3 DEF TmProgram
<1>4. ASSUME NEW u \in Users, NEW r \in Thread, Starting(u, r)
      PROVE  Starting(u, r)'
  <2>1. u \in Thread
    BY SystemThreads
  <2>2. CASE Around(HashThen(u, r)) /\ nextId <= Len(UserIds) /\ u = UserIds[nextId]
    BY <1>2, <2>2 DEF Starting
  <2>3. CASE Around(BuildThen(u, r)) /\ Exists(u) /\ Absent(k, u)
    BY <1>1, <1>2, <2>1, <2>3 DEF Starting
  <2>4. CASE /\ todo[TM] = ReadyThen(u, r)
             /\ k.sched.status[u] = "BLOCKED" /\ ~WaitsIn(k, u)
    <3>1. u # k.sched.running
      BY <1>0, <2>4
    <3>2. k'.sched.status[u] = "BLOCKED" /\ ~WaitsIn(k', u)
      BY <2>1, <2>4, <3>1 DEF Moves
    <3> QED  BY <2>4, <3>2 DEF Starting
  <2> QED  BY <1>4, <2>2, <2>3, <2>4 DEF Starting
<1>5. ASSUME NEW x \in Mortal, NEW p \in Post, Ending(x, p)
      PROVE  Ending(x, p)'
  <2>1. x \in Thread /\ x # ANY
    BY MortalThreads
  <2>2. CASE todo[TM] = UnhashThen(x, p) /\ Exists(x)
    BY <1>1, <2>2 DEF Ending
  <2>3. CASE todo[TM] = UnschedThen(x, p) /\ ~Exists(x) /\ ~Fresh(x)
    BY <1>1, <2>3 DEF Ending
  <2>4. CASE Gone(x) /\ (Around(CleanThen(x, p)) \/ todo[TM] = FreeThen(x, p))
    BY <1>2, <2>1, <2>4 DEF Ending
  <2>5. CASE Gone(x) /\ \E v \in Seq(Visits(x)) : todo[TM] = v \o p
    BY <1>2, <2>1, <2>5 DEF Ending, Visiting
  <2>6. ASSUME Gone(x), NEW v \in Seq(Visits(x)), NEW t \in Thread,
               todo[TM] = Then(Own("ready", t), v \o p),
               WaitsIn(k, t), k.ret[t] = "FAILED", k.pend[t].from = x
        PROVE  Ending(x, p)'
    <3>1. t # k.sched.running /\ x # k.sched.running
      BY <1>0, <2>6 DEF WaitsIn, Gone, Absent
    <3>2. WaitsIn(k', t)
      BY <2>1, <2>6, <3>1 DEF Moves
    <3>3. k'.ret[t] = "FAILED" /\ k'.pend[t].from = x
      BY <2>6, <3>1, <3>2 DEF Moves
    <3>4. Visiting(x, p)'
      BY <2>6, <3>2, <3>3 DEF Visiting
    <3> QED  BY <1>2, <2>1, <2>6, <3>4 DEF Ending
  <2> QED  BY <1>5, <2>2, <2>3, <2>4, <2>5, <2>6 DEF Ending, Visiting
<1> QED  BY <1>3, <1>4, <1>5 DEF TmProgram

\* What a program that goes on to unschedule x starts with.
LEMMA UnschedHead ==
    ASSUME NEW x \in Thread, NEW p \in Post
    PROVE  Head(UnschedThen(x, p)) = Own("unschedule", x)
<1>1. Own("unschedule", x) \in Instruction /\ CallMM \in Instruction
  BY Instructions
<1>2. CleanThen(x, p) \in Seq(Instruction)
  BY Forms
<1>3. Then(CallMM, CleanThen(x, p)) \in Seq(Instruction)
  BY <1>1, <1>2, ThenProperties
<1> QED  BY <1>1, <1>3, ThenProperties DEF UnschedThen

\* What a handler has to leave alone, and TM to tell, for the invariant to hold
\* after it.
LEMMA Carry ==
    ASSUME IInv, Moves(k', k), UNCHANGED <<threadList, nextId>>,
           todo' \in [Thread -> Seq(Instruction)], Programs', TmProgram',
           k.sched.running = TM => TmWaits',
           \A m \in Mail(k') : MailNames(m),
           \/ todo'[TM] = todo[TM]
           \/ /\ Head(todo[TM]).do \in {"send", "call", "recv", "serve"}
              /\ Range(todo[TM]) \subseteq Range(todo'[TM]) \cup {Head(todo[TM])}
    PROVE  IInv'
<1> DEFINE t == k.sched.running
<1>1. /\ t \in Thread /\ k.sched.status[t] = "RUNNING"
      /\ \A u \in Thread : Absent(k', u) <=> Absent(k, u)
      /\ \A u : Fresh(u)' <=> Fresh(u)
      /\ \A u : Exists(u)' <=> Exists(u)
  BY DEF Moves, Fresh, Exists, IInv, Typed, KernelSound, SchedSound
<1>2. \A u \in Thread \ {t} : WaitsIn(k', u) =>
          WaitsIn(k, u) /\ k'.pend[u] = k.pend[u] /\ k'.ret[u] = k.ret[u]
  BY DEF Moves
<1>3. WaitsIn(k', t) => /\ k'.ret[t] = "OK"
                        /\ k'.pend[t].from = ANY \/ Exists(k'.pend[t].from)
  BY DEF Moves
<1>t. t = k.sched.running
  OBVIOUS
<1> HIDE DEF t
<1>4. Typed'
  BY DEF Typed, IInv, Moves
<1>5. KernelLives' /\ FreshUnseen'
  <2>1. KernelLives'
    BY <1>1, SystemThreads DEF KernelLives, IInv
  <2>2. FreshUnseen'
    BY <1>1, SystemThreads DEF FreshUnseen, IInv
  <2> QED  BY <2>1, <2>2
<1>6. Listed'
  <2> SUFFICES ASSUME NEW u \in Thread, ~Absent(k', u), ~Exists(u)
               PROVE  \E p \in Post : todo'[TM] = UnschedThen(u, p)
    BY <1>1 DEF Listed
  <2>1. PICK p \in Post : todo[TM] = UnschedThen(u, p)
    BY <1>1 DEF Listed, IInv
  <2>2. Head(todo[TM]).do = "unschedule"
    BY <2>1, UnschedHead DEF Own, Instr
  <2> QED  BY <2>1, <2>2
<1>7. TmWaits'
  <2>1. CASE t = TM
    BY <1>t, <2>1
  <2>2. CASE t # TM
    <3>1. WaitsIn(k', TM) => WaitsIn(k, TM) /\ k'.pend[TM] = k.pend[TM]
      BY <1>2, <2>2, SystemThreads
    <3> QED  BY <3>1 DEF TmWaits, IInv
  <2> QED  BY <2>1, <2>2
<1>8. FailedReady'
  <2> SUFFICES ASSUME NEW u \in Thread, WaitsIn(k', u), k'.ret[u] = "FAILED"
               PROVE  /\ Head(todo'[TM]) = Own("ready", u)
                      /\ k'.pend[u].from \in Mortal
                      /\ ~Exists(k'.pend[u].from)
                      /\ Absent(k', k'.pend[u].from)
    BY <1>1 DEF FailedReady
  <2>1. u # t
    BY <1>3
  <2>2. WaitsIn(k, u) /\ k.ret[u] = "FAILED" /\ k'.pend[u] = k.pend[u]
    BY <1>2, <2>1
  <2>3. /\ Head(todo[TM]) = Own("ready", u)
        /\ k.pend[u].from \in Mortal
        /\ ~Exists(k.pend[u].from) /\ Absent(k, k.pend[u].from)
    BY <2>2 DEF FailedReady, IInv
  <2>4. Head(todo[TM]).do = "ready"
    BY <2>3 DEF Own, Instr
  <2>5. k.pend[u].from \in Thread
    BY <2>3, MortalThreads
  <2> QED  BY <1>1, <2>2, <2>3, <2>4, <2>5
<1>9. NoWaitForDead'
  <2> SUFFICES ASSUME NEW u \in Thread, WaitsIn(k', u), k'.pend[u].from # ANY,
                      ~Exists(k'.pend[u].from)
               PROVE  \E i \in Range(todo'[TM]) :
                          \/ i = Own("freeblocked", k'.pend[u].from)
                          \/ i.do = "visit" /\ i.to = u /\ i.arg = k'.pend[u].from
                          \/ i = Own("ready", u)
    BY <1>1 DEF NoWaitForDead, Waits, WaitsIn, Status
  <2>1. u # t
    BY <1>3
  <2>2. WaitsIn(k, u) /\ k'.pend[u] = k.pend[u]
    BY <1>2, <2>1
  <2>3. PICK i \in Range(todo[TM]) :
                          \/ i = Own("freeblocked", k.pend[u].from)
                          \/ i.do = "visit" /\ i.to = u /\ i.arg = k.pend[u].from
                          \/ i = Own("ready", u)
    BY <2>2 DEF NoWaitForDead, IInv, Waits, WaitsIn, Status
  <2>4. i.do \in {"freeblocked", "visit", "ready"}
    BY <2>3 DEF Own, Instr
  <2>5. i \in Range(todo'[TM])
    BY <2>4
  <2> QED  BY <2>2, <2>3, <2>5
<1> QED  BY <1>4, <1>5, <1>6, <1>7, <1>8, <1>9 DEF IInv

-----------------------------------------------------------------------------
(* The steps of the other threads *)

\* A kill that is sent to TM in the name of TM or of MM wakes it from its main
\* loop and not while it waits for MM.
LEMMA KillHonest ==
    ASSUME IInv, NEW m \in Message, m.id = "TM_KILL"
    PROVE  Honest(k, TM, m)
BY DEF IInv, TmWaits, Honest, Expected, Matches, WaitsIn

\* A send, or a kill in another's name, is one of the Moves of a handler.
LEMMA SendMoves ==
    ASSUME IInv, NEW to, NEW m \in Message,
           m.from = k.sched.running \/ (to = TM /\ m.id = "TM_KILL")
    PROVE  /\ Moves(kSend(k, to, m), k)
           /\ ~WaitsIn(kSend(k, to, m), k.sched.running)
           /\ MailNames(m) => \A x \in Mail(kSend(k, to, m)) : MailNames(x)
<1> DEFINE r == kSend(k, to, m)
<1>1. /\ KernelSound(k) /\ k \in KernelState /\ SchedSound(k.sched)
      /\ \A x \in Mail(k) : MailNames(x)
  BY DEF IInv, Typed, KernelSound
<1>2. Range(threadList) \subseteq Thread
  BY LenProperties DEF IInv, Typed, Range
<1>3. /\ Sent(k, to, m) => Passed(r, k, to, m)
      /\ ~Sent(k, to, m) =>
            \/ r = k
            \/ to \in Users /\ Passed(r, k, TM, Kill(to))
  BY <1>1, <1>2, SendOutcome
<1> HIDE DEF r
<1>4. CASE Sent(k, to, m)
  <2>1. to \in Thread
    BY <1>2, <1>4 DEF Sent, Exists
  <2>2. Honest(k, to, m)
    <3>1. CASE m.from = k.sched.running
      BY <3>1 DEF Honest, Expected, Matches, WaitsIn
    <3>2. CASE to = TM /\ m.id = "TM_KILL"
      BY <3>2, KillHonest
    <3> QED  BY <3>1, <3>2
  <2>3. /\ Moves(r, k) /\ ~WaitsIn(r, k.sched.running)
        /\ Mail(r) \subseteq Mail(k) \cup (IF to = TM THEN {m} ELSE {})
    BY <1>1, <1>3, <1>4, <2>1, <2>2, PassedMoves
  <2> QED  BY <1>1, <2>3 DEF r
<1>5. CASE r = k
  BY <1>1, <1>5, NothingMoves DEF r
<1>6. CASE to \in Users /\ Passed(r, k, TM, Kill(to))
  <2>1. Kill(to) \in Message /\ Kill(to).id = "TM_KILL" /\ MailNames(Kill(to))
    BY <1>6, SystemThreads DEF Kill, Message, MessageId, MailNames, Mortal
  <2>2. Honest(k, TM, Kill(to)) /\ TM \in Thread
    BY <2>1, KillHonest, SystemThreads
  <2>3. /\ Moves(r, k) /\ ~WaitsIn(r, k.sched.running)
        /\ Mail(r) \subseteq Mail(k) \cup {Kill(to)}
    BY <1>1, <1>6, <2>1, <2>2, PassedMoves
  <2> QED  BY <1>1, <2>1, <2>3 DEF r
<1> QED  BY <1>3, <1>4, <1>5, <1>6

\* The programs of the servers stay programs of servers.
LEMMA ServerAnswers ==
    ASSUME NEW m \in Message \cup {Empty}
    PROVE  /\ ServerServe(m) \o MainLoop \in Seq(ServerInstruction)
           /\ ServerServe(m) \o MainLoop \in Seq(DriverInstruction)
<1>1. /\ ServerServe(m) \in Seq(ServerInstruction)
      /\ ServerServe(m) \in Seq(DriverInstruction)
  <2>1. m.from \in Thread \cup {NULL}
    BY DEF Message, Empty
  <2>2. CASE m.id \in {"VM_CALL", "IO_CALL"}
    <3>1. ReplyTo[m.id] \in {"VM_REPLY", "IO_REPLY"}
      BY <2>2 DEF ReplyTo
    <3>2. ServerServe(m) = <<Send(m.from, ReplyTo[m.id], NULL)>>
      BY <2>2 DEF ServerServe
    <3>3. /\ Send(m.from, ReplyTo[m.id], NULL) \in ServerInstruction
          /\ Send(m.from, ReplyTo[m.id], NULL) \in DriverInstruction
      BY <2>1, <3>1 DEF ServerInstruction, DriverInstruction
    <3> QED  BY <3>2, <3>3
  <2>3. CASE m.id \in {"VM_CLEANUP", "TM_KILLREPLY"}
    <3>1. ServerServe(m) = << >>
      BY <2>3 DEF ServerServe
    <3> QED  BY <3>1
  <2>4. CASE m.id \notin {"VM_CALL", "IO_CALL", "VM_CLEANUP", "TM_KILLREPLY"}
    <3>1. ServerServe(m) = <<Send(m.from, "UNKNOWN_SYSCALL", NULL)>>
      BY <2>4 DEF ServerServe
    <3>2. /\ Send(m.from, "UNKNOWN_SYSCALL", NULL) \in ServerInstruction
          /\ Send(m.from, "UNKNOWN_SYSCALL", NULL) \in DriverInstruction
      BY <2>1 DEF ServerInstruction, DriverInstruction
    <3> QED  BY <3>1, <3>2
  <2> QED  BY <2>2, <2>3, <2>4
<1> QED  BY <1>1, MainLoopIs, ConcatProperties

\* The instruction that a thread executes, and what is left of its program.
LEMMA Executes ==
    ASSUME IInv, NEW t \in Thread \ {TM}, NEW i \in NextInstr(t)
    PROVE  /\ t # Idle /\ i \in Instruction /\ Rest(t) \in Seq(Instruction)
           /\ t = MM => i \in ServerInstruction /\ Rest(t) \in Seq(ServerInstruction)
           /\ t \in Drivers =>
                 i \in DriverInstruction /\ Rest(t) \in Seq(DriverInstruction)
<1>1. /\ todo[t] \in Seq(Instruction) /\ todo[Idle] = << >>
      /\ todo[MM] \in Seq(ServerInstruction)
      /\ t \in Drivers => todo[t] \in Seq(DriverInstruction)
  BY DEF IInv, Typed, Programs
<1>2. CASE todo[t] = << >>
  <2>1. t \in Users /\ i \in UserInstr /\ Rest(t) = << >>
    BY <1>2 DEF NextInstr, Rest
  <2> QED  BY <2>1, UserInstructions, SystemThreads
<1>3. CASE todo[t] # << >>
  <2>1. Rest(t) = Tail(todo[t])
    BY <1>3 DEF Rest
  <2>2. i = Head(todo[t]) \/ (t \in Drivers /\ i = Own("fault", NULL))
    BY <1>3 DEF NextInstr
  <2>3. Own("fault", NULL) \in Instruction /\ Own("fault", NULL) \in DriverInstruction
    BY Instructions DEF DriverInstruction
  <2>4. Head(todo[t]) \in Instruction /\ Tail(todo[t]) \in Seq(Instruction)
    BY <1>1, <1>3, HeadTailProperties
  <2>5. t = MM => /\ Head(todo[t]) \in ServerInstruction
                  /\ Tail(todo[t]) \in Seq(ServerInstruction)
    BY <1>1, <1>3, HeadTailProperties
  <2>6. t \in Drivers => /\ Head(todo[t]) \in DriverInstruction
                         /\ Tail(todo[t]) \in Seq(DriverInstruction)
    BY <1>1, <1>3, HeadTailProperties
  <2>7. t # Idle /\ MM \notin Drivers
    BY <1>1, <1>3, SystemThreads
  <2> QED  BY <2>1, <2>2, <2>3, <2>4, <2>5, <2>6, <2>7
<1> QED  BY <1>2, <1>3

\* A step of a thread other than TM that only moves keeps the invariant.
LEMMA Bystander ==
    ASSUME IInv, NEW t \in Thread \ {TM, Idle}, k.sched.running = t,
           Moves(k', k), \A m \in Mail(k') : MailNames(m),
           UNCHANGED <<threadList, nextId>>,
           NEW q \in Seq(Instruction), todo' = [todo EXCEPT ![t] = q],
           t = MM => q \in Seq(ServerInstruction),
           t \in Drivers => q \in Seq(DriverInstruction)
    PROVE  IInv'
<1>1. Typed /\ TmProgram /\ Programs /\ todo \in [Thread -> Seq(Instruction)]
  BY DEF IInv, Typed
<1>2. todo' \in [Thread -> Seq(Instruction)]
  BY <1>1
<1>3. todo'[TM] = todo[TM]
  BY <1>1, SystemThreads
<1>4. TmProgram'
  BY <1>1, <1>3, ProgramHolds
<1>5. Programs'
  BY <1>1, SystemThreads DEF Programs
<1> QED  BY <1>2, <1>3, <1>4, <1>5, Carry

\* Every step of a thread other than TM keeps the invariant.
LEMMA OthersStep ==
    ASSUME IInv, NEW t \in Thread \ {TM}, Step(t)
    PROVE  IInv'
<1>1. k.sched.running = t
  BY DEF Step, running
<1>2. PICK i \in NextInstr(t) :
          \/ SendStep(t, i) \/ RecvStep(t, i) \/ ExitStep(t, i)
          \/ FaultStep(t, i) \/ YieldStep(t, i) \/ ServeStep(t, i)
  BY DEF Step
<1>3. /\ t # Idle /\ i \in Instruction /\ Rest(t) \in Seq(Instruction)
      /\ t = MM => i \in ServerInstruction /\ Rest(t) \in Seq(ServerInstruction)
      /\ t \in Drivers =>
            i \in DriverInstruction /\ Rest(t) \in Seq(DriverInstruction)
  BY Executes
<1>4. t \in Users \/ t = MM \/ t \in Drivers
  BY <1>3, SystemThreads
<1>5. /\ i.id \in MessageId /\ i.arg \in Thread \cup {NULL}
      /\ i.do = "call" => i.id \in {"TM_START", "TM_KILL", "VM_CALL", "IO_CALL"}
      /\ i.do = "recv" => i.to \in Thread \cup {ANY}
  BY <1>3 DEF Instruction
<1>6. t \notin Users =>
          /\ i.do \in {"recv", "serve", "send"} \/ (i.do = "fault" /\ t \in Drivers)
          /\ i.id \notin {"TM_KILL", "TM_EXIT"}
  BY <1>3, <1>4, SystemThreads
     DEF ServerInstruction, DriverInstruction, Listen, Serve, Send, Own, Recv, Instr
<1>7. /\ KernelSound(k) /\ \A m \in Mail(k) \cup {Empty} : MailNames(m)
  BY DEF IInv, Typed, MailNames, Empty
<1>8. CASE SendStep(t, i)
  <2> DEFINE m == [from |-> t, id |-> i.id, arg |-> i.arg]
             q == IF i.do = "call" /\ Sent(k, i.to, m)
                  THEN <<Recv(i.to, ReplyTo[i.id])>> \o Rest(t) ELSE Rest(t)
  <2>1. m \in Message /\ MailNames(m)
    BY <1>5, <1>6 DEF Message, MailNames
  <2>2. /\ k' = kSend(k, i.to, m) /\ todo' = [todo EXCEPT ![t] = q]
        /\ UNCHANGED <<threadList, nextId>>
        /\ i.do \in {"send", "call"}
    BY <1>8 DEF SendStep
  <2>3. q \in Seq(Instruction) /\ (t \notin Users => q = Rest(t))
    <3>1. CASE i.do = "call" /\ Sent(k, i.to, m)
      <4>1. i.to \in Thread
        BY <3>1, LenProperties DEF Sent, Exists, Range, IInv, Typed
      <4>2. ReplyTo[i.id] \in MessageId
        BY <1>5, <3>1 DEF ReplyTo, MessageId
      <4>3. Recv(i.to, ReplyTo[i.id]) \in Instruction
        BY <4>1, <4>2, Instructions
      <4>4. Then(Recv(i.to, ReplyTo[i.id]), Rest(t)) \in Seq(Instruction)
        BY <1>3, <4>3, ThenProperties
      <4> QED  BY <1>6, <3>1, <4>4 DEF Then
    <3>2. CASE ~(i.do = "call" /\ Sent(k, i.to, m))
      BY <1>3, <3>2
    <3> QED  BY <3>1, <3>2
  <2>4. m.from = k.sched.running
    BY <1>1
  <2> HIDE DEF m, q
  <2>5. Moves(k', k) /\ \A x \in Mail(k') : MailNames(x)
    BY <2>1, <2>2, <2>4, SendMoves
  <2> QED  BY <1>1, <1>3, <2>2, <2>3, <2>5, Bystander, SystemThreads
<1>9. CASE RecvStep(t, i)
  <2>1. /\ k' = kRecv(k, t, i.to, i.id) /\ todo' = [todo EXCEPT ![t] = Rest(t)]
        /\ UNCHANGED <<threadList, nextId>> /\ i.do = "recv"
    BY <1>9 DEF RecvStep
  <2>2. Moves(k', k) /\ Mail(k') \subseteq Mail(k) \cup {Empty}
    BY <1>1, <1>3, <1>5, <1>7, <2>1, RecvMoves
  <2> QED  BY <1>1, <1>3, <1>7, <2>1, <2>2, Bystander
<1>10. CASE ExitStep(t, i)
  <2> DEFINE m == [from |-> t, id |-> "TM_EXIT", arg |-> NULL]
             q == IF Sent(k, TM, m) THEN <<Beyond>> ELSE <<i>>
  <2>1. /\ k' = kSend(k, TM, m) /\ todo' = [todo EXCEPT ![t] = q]
        /\ UNCHANGED <<threadList, nextId>> /\ i.do = "exit"
    BY <1>10 DEF ExitStep
  <2>2. t \in Users
    BY <1>6, <2>1
  <2>3. m \in Message /\ MailNames(m) /\ m.from = k.sched.running
    BY <1>1, <2>2 DEF Message, MailNames, MessageId
  <2>4. q \in Seq(Instruction)
    BY <1>3, Instructions
  <2> HIDE DEF m, q
  <2>5. Moves(k', k) /\ \A x \in Mail(k') : MailNames(x)
    BY <2>1, <2>3, SendMoves
  <2> QED  BY <1>1, <1>3, <2>1, <2>2, <2>4, <2>5, Bystander, SystemThreads
<1>11. CASE FaultStep(t, i)
  <2>1. PICK f \in {TM, MM} :
            k' = kSend(k, TM, [from |-> f, id |-> "TM_KILL", arg |-> t])
    BY <1>11 DEF FaultStep
  <2> DEFINE m == [from |-> f, id |-> "TM_KILL", arg |-> t]
  <2>2. /\ todo' = [todo EXCEPT ![t] = <<i>>]
        /\ UNCHANGED <<threadList, nextId>> /\ i.do = "fault"
    BY <1>11 DEF FaultStep
  <2>3. t # MM
    BY <1>6, <2>2, SystemThreads
  <2>4. t \in Mortal
    BY <1>4, <2>3 DEF Mortal
  <2>5. m \in Message /\ MailNames(m) /\ m.id = "TM_KILL"
    BY <2>4, SystemThreads DEF Message, MailNames, MessageId
  <2>6. <<i>> \in Seq(Instruction)
    BY <1>3
  <2>7. t \in Drivers => <<i>> \in Seq(DriverInstruction)
    BY <1>3
  <2>8. k' = kSend(k, TM, m)
    BY <2>1
  <2> HIDE DEF m
  <2>9. Moves(k', k) /\ \A x \in Mail(k') : MailNames(x)
    BY <2>5, <2>8, SendMoves
  <2> QED  BY <1>1, <1>3, <2>2, <2>3, <2>6, <2>7, <2>9, Bystander
<1>12. CASE YieldStep(t, i)
  <2>1. /\ k' = Reschedule(k) /\ todo' = [todo EXCEPT ![t] = Rest(t)]
        /\ UNCHANGED <<threadList, nextId>>
    BY <1>12 DEF YieldStep
  <2>2. Moves(k', k) /\ k'.queue = k.queue /\ k'.inbox = k.inbox
    BY <1>7, <2>1, TickMoves
  <2>3. Mail(k') = Mail(k)
    BY <2>2 DEF Mail
  <2> QED  BY <1>1, <1>3, <1>7, <2>1, <2>2, <2>3, Bystander
<1>13. CASE ServeStep(t, i)
  <2> DEFINE q == ServerServe(k.inbox[t]) \o MainLoop
  <2>1. /\ k' = [k EXCEPT !.inbox[t] = Empty] /\ todo' = [todo EXCEPT ![t] = q]
        /\ UNCHANGED <<threadList, nextId>>
    BY <1>13 DEF ServeStep
  <2>2. k.inbox[t] \in Message \cup {Empty}
    BY <1>7, KernelFields DEF KernelSound
  <2>3. q \in Seq(ServerInstruction) /\ q \in Seq(DriverInstruction)
    BY <2>2, ServerAnswers
  <2> HIDE DEF q
  <2>4. q \in Seq(Instruction)
    <3>1. DriverInstruction \subseteq Instruction
      BY Instructions
    <3> QED  BY <2>3, <3>1
  <2>5. Moves(k', k) /\ Mail(k') \subseteq Mail(k) \cup {Empty}
    BY <1>1, <1>7, <2>1, ServeMoves
  <2> QED  BY <1>1, <1>3, <1>7, <2>1, <2>3, <2>4, <2>5, Bystander
<1> QED  BY <1>2, <1>8, <1>9, <1>10, <1>11, <1>12, <1>13

\* So does the clock.
LEMMA ClockStep ==
    ASSUME IInv, ClockInterrupt
    PROVE  IInv'
<1>1. /\ k' = Reschedule(k) /\ UNCHANGED <<threadList, nextId, todo>>
      /\ KernelSound(k) /\ Typed /\ TmProgram /\ Programs
      /\ \A m \in Mail(k) : MailNames(m)
  BY DEF ClockInterrupt, IInv, Typed
<1>2. /\ Moves(k', k) /\ Ticked(k'.sched, k.sched)
      /\ k'.queue = k.queue /\ k'.inbox = k.inbox
  BY <1>1, TickMoves
<1>3. Mail(k') = Mail(k)
  BY <1>2 DEF Mail
<1>4. k.sched.running = TM => ~WaitsIn(k', TM)
  <2>1. k.sched.status[k.sched.running] = "RUNNING" /\ k.sched.running \in Thread
    BY <1>1 DEF KernelSound, SchedSound
  <2> QED  BY <1>2, <2>1 DEF Ticked, Changed, Active, WaitsIn
<1>5. k.sched.running = TM => TmWaits'
  BY <1>4 DEF TmWaits
<1>6. TmProgram'
  BY <1>1, <1>2, ProgramHolds
<1>7. Programs'
  BY <1>1 DEF Programs
<1>8. todo' \in [Thread -> Seq(Instruction)]
  BY <1>1 DEF Typed
<1> QED  BY <1>1, <1>2, <1>3, <1>5, <1>6, <1>7, <1>8, Carry

-----------------------------------------------------------------------------
(* TM's system calls *)

\* TM executes the first instruction of its program.
LEMMA TmDoes ==
    ASSUME IInv, NEW i \in Instruction, NEW q \in Seq(Instruction),
           todo[TM] = Then(i, q), Step(TM) \/ TmStep
    PROVE  /\ k.sched.running = TM
           /\ Rest(TM) = q /\ Head(todo[TM]) = i
           /\ Range(todo[TM]) = {i} \cup Range(q)
           /\ i.do \in {"send", "call"} => SendStep(TM, i)
           /\ i.do = "recv"        => RecvStep(TM, i)
           /\ i.do = "serve"       => ServeStep(TM, i)
           /\ i.do = "hash"        => Hash(i)
           /\ i.do = "build"       => Build(i)
           /\ i.do = "ready"       => Ready(i)
           /\ i.do = "unhash"      => Unhash(i)
           /\ i.do = "unschedule"  => Unschedule(i)
           /\ i.do = "freeblocked" => FreeBlocked(i)
           /\ i.do = "visit"       => Visit(i)
<1>1. /\ todo[TM] # << >> /\ Head(todo[TM]) = i /\ Tail(todo[TM]) = q
      /\ Range(todo[TM]) = {i} \cup Range(q)
  <2>1. /\ Then(i, q) # << >> /\ Head(Then(i, q)) = i /\ Tail(Then(i, q)) = q
        /\ Range(Then(i, q)) = {i} \cup Range(q)
    BY ThenProperties, Zenon
  <2> QED  BY <2>1
<1>2. TM \notin Drivers
  BY SystemThreads
<1>3. NextInstr(TM) = {i} /\ Rest(TM) = q
  BY <1>1, <1>2 DEF NextInstr, Rest
<1>4. k.sched.running = TM
  BY DEF Step, TmStep, running
<1>5. \/ SendStep(TM, i) \/ RecvStep(TM, i) \/ ExitStep(TM, i)
      \/ FaultStep(TM, i) \/ YieldStep(TM, i) \/ ServeStep(TM, i)
      \/ Hash(i) \/ Build(i) \/ Ready(i) \/ Unhash(i) \/ Unschedule(i)
      \/ FreeBlocked(i) \/ Visit(i)
  BY <1>3 DEF Step, TmStep
<1>6. /\ SendStep(TM, i) => i.do \in {"send", "call"}
      /\ RecvStep(TM, i) => i.do = "recv"
      /\ ExitStep(TM, i) => i.do = "exit"
      /\ FaultStep(TM, i) => i.do = "fault"
      /\ YieldStep(TM, i) => i.do = "yield"
      /\ ServeStep(TM, i) => i.do = "serve"
      /\ Hash(i) => i.do = "hash"
      /\ Build(i) => i.do = "build"
      /\ Ready(i) => i.do = "ready"
      /\ Unhash(i) => i.do = "unhash"
      /\ Unschedule(i) => i.do = "unschedule"
      /\ FreeBlocked(i) => i.do = "freeblocked"
      /\ Visit(i) => i.do = "visit"
  BY DEF SendStep, RecvStep, ExitStep, FaultStep, YieldStep, ServeStep, Hash, Build,
         Ready, Unhash, Unschedule, FreeBlocked, Visit
<1> QED  BY <1>1, <1>3, <1>4, <1>5, <1>6

\* The tables and lists after a handler.
LEMMA SameTables ==
    ASSUME Moves(k', k), UNCHANGED <<threadList, nextId>>
    PROVE  /\ \A u \in Thread : Absent(k', u) <=> Absent(k, u)
           /\ \A u : Fresh(u)' <=> Fresh(u)
           /\ \A u : Exists(u)' <=> Exists(u)
           /\ \A u \in Thread : Gone(u)' <=> Gone(u)
<1>1. /\ \A u \in Thread : Absent(k', u) <=> Absent(k, u)
      /\ \A u : Fresh(u)' <=> Fresh(u)
      /\ \A u : Exists(u)' <=> Exists(u)
  BY DEF Moves, Fresh, Exists
<1> QED  BY <1>1 DEF Gone

\* After one of TM's system calls it remains to show where TM has got to.
LEMMA TmGoesOn ==
    ASSUME IInv, Moves(k', k), UNCHANGED <<threadList, nextId>>,
           \A m \in Mail(k') : MailNames(m),
           NEW p \in Seq(Instruction), todo' = [todo EXCEPT ![TM] = p],
           Head(todo[TM]).do \in {"send", "call", "recv", "serve"},
           Range(todo[TM]) \subseteq Range(p) \cup {Head(todo[TM])},
           TmProgram', TmWaits'
    PROVE  IInv'
<1>1. todo \in [Thread -> Seq(Instruction)] /\ Programs
  BY DEF IInv, Typed
<1>2. todo' \in [Thread -> Seq(Instruction)] /\ todo'[TM] = p
  BY <1>1, SystemThreads
<1>3. Programs'
  BY <1>1, SystemThreads DEF Programs
<1> QED  BY <1>2, <1>3, Carry

\* What all of TM's sends have in common.
LEMMA Sending ==
    ASSUME IInv, NEW i \in Instruction, NEW q \in Seq(Instruction),
           todo[TM] = Then(i, q), Step(TM) \/ TmStep,
           i.do \in {"send", "call"}, i.id \notin {"TM_KILL", "TM_EXIT"}
    PROVE  /\ Moves(k', k) /\ UNCHANGED <<threadList, nextId>>
           /\ \/ todo'[TM] = q
              \/ i.do = "call" /\ todo'[TM] = Then(Recv(i.to, ReplyTo[i.id]), q)
           /\ TmProgram' => IInv'
<1> DEFINE m == [from |-> TM, id |-> i.id, arg |-> i.arg]
           p == IF i.do = "call" /\ Sent(k, i.to, m)
                THEN <<Recv(i.to, ReplyTo[i.id])>> \o q ELSE q
<1>1. /\ k.sched.running = TM /\ Rest(TM) = q /\ Head(todo[TM]) = i
      /\ Range(todo[TM]) = {i} \cup Range(q) /\ SendStep(TM, i)
  BY TmDoes
<1>2. /\ k' = kSend(k, i.to, m) /\ todo' = [todo EXCEPT ![TM] = p]
      /\ UNCHANGED <<threadList, nextId>>
  BY <1>1 DEF SendStep
<1>3. m \in Message /\ MailNames(m) /\ m.from = k.sched.running
  BY <1>1, SystemThreads DEF Message, MailNames, Instruction
<1>4. p \in Seq(Instruction) /\ Range(q) \subseteq Range(p)
  <2>1. CASE i.do = "call" /\ Sent(k, i.to, m)
    <3>1. i.to \in Thread
      BY <2>1, LenProperties DEF Sent, Exists, Range, IInv, Typed
    <3>2. ReplyTo[i.id] \in MessageId
      BY <2>1 DEF ReplyTo, MessageId, Instruction
    <3>3. Recv(i.to, ReplyTo[i.id]) \in Instruction
      BY <3>1, <3>2, Instructions
    <3>4. /\ Then(Recv(i.to, ReplyTo[i.id]), q) \in Seq(Instruction)
          /\ Range(q) \subseteq Range(Then(Recv(i.to, ReplyTo[i.id]), q))
      BY <3>3, ThenProperties
    <3> QED  BY <2>1, <3>4 DEF Then
  <2>2. CASE ~(i.do = "call" /\ Sent(k, i.to, m))
    BY <2>2
  <2> QED  BY <2>1, <2>2
<1>5. p = q \/ (i.do = "call" /\ p = Then(Recv(i.to, ReplyTo[i.id]), q))
  BY DEF Then
<1> HIDE DEF m, p
<1>6. /\ Moves(k', k) /\ ~WaitsIn(k', TM)
      /\ \A x \in Mail(k') : MailNames(x)
  BY <1>1, <1>2, <1>3, SendMoves
<1>7. todo'[TM] = p
  BY <1>2, SystemThreads DEF IInv, Typed
<1>8. TmWaits'
  BY <1>6 DEF TmWaits
<1>9. TmProgram' => IInv'
  BY <1>1, <1>2, <1>4, <1>6, <1>8, TmGoesOn
<1> QED  BY <1>2, <1>5, <1>6, <1>7, <1>9

\* What both of TM's receives have in common.
LEMMA Receiving ==
    ASSUME IInv, NEW i \in {Listen, RecvMM}, NEW q \in Seq(Instruction),
           todo[TM] = Then(i, q), Step(TM) \/ TmStep
    PROVE  /\ Moves(k', k) /\ UNCHANGED <<threadList, nextId>>
           /\ todo'[TM] = q
           /\ TmProgram' => IInv'
<1>1. /\ i \in Instruction /\ i.do = "recv"
      /\ \/ i.to = ANY /\ i.id = "ANYMSGTYPE"
         \/ i.to = MM /\ i.id = "VM_REPLY"
  BY Instructions DEF Listen, RecvMM, Recv, Instr
<1>2. /\ k.sched.running = TM /\ Rest(TM) = q /\ Head(todo[TM]) = i
      /\ Range(todo[TM]) = {i} \cup Range(q) /\ RecvStep(TM, i)
  BY <1>1, TmDoes
<1>3. /\ k' = kRecv(k, TM, i.to, i.id) /\ todo' = [todo EXCEPT ![TM] = q]
      /\ UNCHANGED <<threadList, nextId>>
  BY <1>2 DEF RecvStep
<1>4. i.to \in Thread \cup {ANY} /\ i.id \in MessageId
  BY <1>1, SystemThreads DEF MessageId
<1>5. KernelSound(k) /\ \A m \in Mail(k) \cup {Empty} : MailNames(m)
  BY DEF IInv, Typed, MailNames, Empty
<1>6. k.sched.running # Idle
  BY <1>2, SystemThreads
<1>7. /\ Moves(k', k) /\ Mail(k') \subseteq Mail(k) \cup {Empty}
      /\ WaitsIn(k', TM) =>
            k'.pend[TM] = [status |-> "WAITING", from |-> i.to, id |-> i.id]
  BY <1>2, <1>3, <1>4, <1>5, <1>6, RecvMoves
<1>8. TmWaits'
  BY <1>1, <1>7 DEF TmWaits
<1>9. todo'[TM] = q
  BY <1>3, SystemThreads DEF IInv, Typed
<1>10. TmProgram' => IInv'
  BY <1>1, <1>2, <1>3, <1>5, <1>7, <1>8, TmGoesOn
<1> QED  BY <1>3, <1>7, <1>9, <1>10

\* TM asks MM, and waits for its answer.
LEMMA Asking ==
    ASSUME IInv, NEW p \in Seq(Instruction),
           todo[TM] \in {Then(CallMM, p), Then(RecvMM, p)}, Step(TM) \/ TmStep
    PROVE  /\ Moves(k', k) /\ UNCHANGED <<threadList, nextId>>
           /\ Around(p)'
           /\ TmProgram' => IInv'
<1>1. CASE todo[TM] = Then(CallMM, p)
  <2>1. /\ CallMM \in Instruction /\ CallMM.do = "call"
        /\ CallMM.id \notin {"TM_KILL", "TM_EXIT"}
        /\ Recv(CallMM.to, ReplyTo[CallMM.id]) = RecvMM
    BY Instructions DEF CallMM, Call, Instr, RecvMM, ReplyTo
  <2>2. /\ Moves(k', k) /\ UNCHANGED <<threadList, nextId>>
        /\ todo'[TM] = p \/ todo'[TM] = Then(RecvMM, p)
        /\ TmProgram' => IInv'
    BY <1>1, <2>1, Sending
  <2> QED  BY <2>2 DEF Around
<1>2. CASE todo[TM] = Then(RecvMM, p)
  BY <1>2, Receiving DEF Around
<1> QED  BY <1>1, <1>2

-----------------------------------------------------------------------------
(* TM's main loop *)

\* threadDestroy before p.
LEMMA DestroyForm ==
    ASSUME NEW x \in Mortal, NEW p \in Post
    PROVE  /\ threadDestroy(x) \in Seq(Instruction)
           /\ threadDestroy(x) \o p = IF Exists(x) THEN UnhashThen(x, p) ELSE p
<1> DEFINE S == Instruction
           C == Send(MM, "VM_CLEANUP", NULL)
<1>0. x \in Thread /\ p \in Seq(S)
  BY MortalThreads, Forms
<1>1. /\ Own("unhash", x) \in S /\ Own("unschedule", x) \in S /\ CallMM \in S
      /\ C \in S /\ Own("freeblocked", x) \in S
  BY <1>0, Instructions
<1>2. CASE ~Exists(x)
  BY <1>0, <1>2, ConcatEmptySeq DEF threadDestroy
<1>3. CASE Exists(x)
  <2> DEFINE d == <<Own("unhash", x), Own("unschedule", x), CallMM, C,
                    Own("freeblocked", x)>>
  <2>1. threadDestroy(x) = d
    BY <1>3 DEF threadDestroy, CallMM
  <2>2. d \in Seq(S)
    BY <1>1
  <2>3. d \o p = Then(Own("unhash", x), Then(Own("unschedule", x),
                   Then(CallMM, Then(C, Then(Own("freeblocked", x), p)))))
    <3> DEFINE a == Own("unhash", x)
               b == Own("unschedule", x)
               e == Own("freeblocked", x)
    <3>1. d = <<a, b, CallMM, C, e>>
      OBVIOUS
    <3> HIDE DEF a, b, e, C, S, d
    <3>2. <<a, b, CallMM, C, e>> \o p =
              Then(a, Then(b, Then(CallMM, Then(C, Then(e, p)))))
      BY <1>0, <2>2, <3>1, FiveThen
    <3> QED  BY <3>1, <3>2 DEF a, b, e
  <2>4. d \o p = UnhashThen(x, p)
    BY <2>3 DEF UnhashThen, UnschedThen, CleanThen, FreeThen
  <2> HIDE DEF d
  <2> QED  BY <1>3, <2>1, <2>2, <2>4
<1> QED  BY <1>2, <1>3

\* threadDestroy and the answer to the caller of tmKill.
LEMMA KillForm ==
    ASSUME NEW x \in Mortal, NEW r \in Thread
    PROVE  LET a == <<Send(r, "TM_KILLREPLY", NULL)>>
           IN  (threadDestroy(x) \o a) \o MainLoop =
                  IF Exists(x) THEN UnhashThen(x, Answer(r, "TM_KILLREPLY"))
                               ELSE Answer(r, "TM_KILLREPLY")
<1> DEFINE a == <<Send(r, "TM_KILLREPLY", NULL)>>
           d == threadDestroy(x)
<1>1. Answer(r, "TM_KILLREPLY") \in Post
  BY DEF Post
<1>2. d \in Seq(Instruction)
  BY <1>1, DestroyForm
<1>3. Send(r, "TM_KILLREPLY", NULL) \in Instruction
  BY Instructions DEF MessageId
<1>4. a \in Seq(Instruction) /\ a \o MainLoop = Answer(r, "TM_KILLREPLY")
  BY <1>3 DEF Answer, Then
<1>5. d \o (a \o MainLoop) =
          IF Exists(x) THEN UnhashThen(x, Answer(r, "TM_KILLREPLY"))
                       ELSE Answer(r, "TM_KILLREPLY")
  BY <1>1, <1>4, DestroyForm
<1> HIDE DEF d, a
<1>6. MainLoop \in Seq(Instruction)
  BY MainLoopIs
<1>7. (d \o a) \o MainLoop = d \o (a \o MainLoop)
  BY <1>2, <1>4, <1>6, Reassociate
<1> QED  BY <1>5, <1>7 DEF d, a

\* threadStart and the answer to the caller of tmStart.
LEMMA StartForm ==
    ASSUME Typed, NEW r \in Thread
    PROVE  LET p == (threadStart \o <<Send(r, "TM_STARTREPLY", NULL)>>) \o MainLoop
           IN  \/ p = Answer(r, "TM_STARTREPLY")
               \/ /\ nextId <= Len(UserIds) /\ UserIds[nextId] \in Users
                  /\ p = Then(CallMM, HashThen(UserIds[nextId], r))
<1> DEFINE a == <<Send(r, "TM_STARTREPLY", NULL)>>
           S == Instruction
<1>1. Send(r, "TM_STARTREPLY", NULL) \in S
  BY Instructions DEF MessageId
<1>2. a \in Seq(S) /\ a \o MainLoop = Answer(r, "TM_STARTREPLY")
  BY <1>1 DEF Answer, Then
<1>3. Answer(r, "TM_STARTREPLY") \in Seq(S)
  BY Forms DEF AnswerId
<1> HIDE DEF a
<1>4. CASE nextId > Len(UserIds)
  <2>1. threadStart = << >>
    BY <1>4 DEF threadStart
  <2>2. << >> \o a = a
    BY <1>2, ConcatEmptySeq
  <2> QED  BY <1>2, <2>1, <2>2 DEF a
<1>5. CASE ~(nextId > Len(UserIds))
  <2> DEFINE u == UserIds[nextId]
             d == <<CallMM, Own("hash", u), CallMM, Own("build", u), Own("ready", u)>>
  <2>1. threadStart = d
    BY <1>5 DEF threadStart, CallMM
  <2>2. /\ nextId <= Len(UserIds) /\ nextId \in DOMAIN UserIds
        /\ UserIds \in Seq(Thread)
    BY <1>5, IPCAssumption, LenProperties DEF Typed
  <2>3. u \in Users
    BY <2>2 DEF Users, Range
  <2> HIDE DEF u
  <2>4. u \in Thread
    BY <2>3, SystemThreads
  <2>5. /\ CallMM \in S /\ Own("hash", u) \in S /\ Own("build", u) \in S
        /\ Own("ready", u) \in S
    BY <2>4, Instructions
  <2>6. d \in Seq(S)
    BY <2>5
  <2>7. d \o Answer(r, "TM_STARTREPLY") = Then(CallMM, HashThen(u, r))
    BY <1>3, <2>6, FiveThen DEF HashThen, BuildThen, ReadyThen
  <2> HIDE DEF d
  <2>8. MainLoop \in Seq(S)
    BY MainLoopIs
  <2>9. (d \o a) \o MainLoop = d \o (a \o MainLoop)
    BY <1>2, <2>6, <2>8, Reassociate
  <2> QED  BY <1>2, <2>1, <2>2, <2>3, <2>7, <2>9 DEF a, u
<1> QED  BY <1>4, <1>5

\* What TM takes on: it ends only threads that exist, and starts the next user.
LEMMA ServeGives ==
    ASSUME Typed, NEW m \in Message \cup {Empty}, MailNames(m)
    PROVE  LET p == TmServe(m) \o MainLoop
           IN  \/ p = MainLoop
               \/ \E r \in Thread \cup {NULL}, id \in AnswerId : p = Answer(r, id)
               \/ \E u \in Users, r \in Thread :
                     /\ p = Then(CallMM, HashThen(u, r))
                     /\ nextId <= Len(UserIds) /\ u = UserIds[nextId]
               \/ \E x \in Mortal, q \in Post : p = UnhashThen(x, q) /\ Exists(x)
<1> DEFINE p == TmServe(m) \o MainLoop
<1>1. m.from \in Thread \cup {NULL} /\ (m.id # "ANYMSGTYPE" => m.from \in Thread)
  BY DEF Message, Empty
<1>2. CASE m.id = "TM_START"
  <2>1. m.from \in Thread
    BY <1>1, <1>2
  <2>2. p = (threadStart \o <<Send(m.from, "TM_STARTREPLY", NULL)>>) \o MainLoop
    BY <1>2 DEF TmServe
  <2> HIDE DEF p
  <2>3. \/ p = Answer(m.from, "TM_STARTREPLY")
        \/ /\ nextId <= Len(UserIds) /\ UserIds[nextId] \in Users
           /\ p = Then(CallMM, HashThen(UserIds[nextId], m.from))
    BY <2>1, <2>2, StartForm
  <2> QED  BY <1>1, <2>1, <2>3 DEF AnswerId, p
<1>3. CASE m.id = "TM_EXIT"
  <2>1. m.from \in Mortal
    BY <1>3 DEF MailNames, Mortal
  <2>2. p = threadDestroy(m.from) \o MainLoop
    BY <1>3 DEF TmServe
  <2>3. MainLoop \in Post
    BY DEF Post
  <2> HIDE DEF p
  <2>4. p = IF Exists(m.from) THEN UnhashThen(m.from, MainLoop) ELSE MainLoop
    BY <2>1, <2>2, <2>3, DestroyForm
  <2> QED  BY <2>1, <2>3, <2>4 DEF p
<1>4. CASE m.id = "TM_KILL"
  <2>1. m.from \in Thread
    BY <1>1, <1>4
  <2>2. PICK x \in Mortal : threadKill(m.arg, m.from) = threadDestroy(x)
    <3>1. CASE m.from \in Users /\ m.arg \notin Users
      BY <3>1 DEF threadKill, Mortal
    <3>2. CASE ~(m.from \in Users /\ m.arg \notin Users)
      <4>1. m.arg \in Mortal
        BY <1>4, <3>2 DEF MailNames, Mortal
      <4> QED  BY <3>2, <4>1 DEF threadKill
    <3> QED  BY <3>1, <3>2
  <2>3. p = (threadDestroy(x) \o <<Send(m.from, "TM_KILLREPLY", NULL)>>) \o MainLoop
    BY <1>4, <2>2 DEF TmServe
  <2>4. Answer(m.from, "TM_KILLREPLY") \in Post /\ "TM_KILLREPLY" \in AnswerId
    BY <2>1 DEF Post, AnswerId
  <2> HIDE DEF p
  <2>5. p = IF Exists(x) THEN UnhashThen(x, Answer(m.from, "TM_KILLREPLY"))
                         ELSE Answer(m.from, "TM_KILLREPLY")
    BY <2>1, <2>3, KillForm
  <2> QED  BY <2>1, <2>4, <2>5 DEF p
<1>5. CASE m.id = "TM_KILLREPLY"
  <2>1. TmServe(m) = << >>
    BY <1>5 DEF TmServe
  <2> QED  BY <2>1, MainLoopIs, ConcatEmptySeq
<1>6. CASE m.id \notin {"TM_START", "TM_EXIT", "TM_KILL", "TM_KILLREPLY"}
  <2>1. TmServe(m) = <<Send(m.from, "UNKNOWN_SYSCALL", NULL)>>
    BY <1>6 DEF TmServe
  <2>2. p = Answer(m.from, "UNKNOWN_SYSCALL")
    BY <2>1 DEF Answer, Then
  <2> QED  BY <1>1, <2>2 DEF AnswerId
<1> QED  BY <1>2, <1>3, <1>4, <1>5, <1>6

\* TM's switch on a message keeps the invariant.
LEMMA ServingStep ==
    ASSUME IInv, todo[TM] = <<Serve>>, Step(TM) \/ TmStep
    PROVE  IInv'
<1> DEFINE m == k.inbox[TM]
           p == TmServe(m) \o MainLoop
<1>1. /\ Serve \in Instruction /\ Serve.do = "serve"
      /\ << >> \in Seq(Instruction) /\ todo[TM] = Then(Serve, << >>)
  BY Instructions, MainLoopIs DEF Serve, Own, Instr
<1>2. /\ k.sched.running = TM /\ Head(todo[TM]) = Serve /\ ServeStep(TM, Serve)
      /\ Range(todo[TM]) = {Serve} \cup Range(<< >>)
  BY <1>1, TmDoes
<1>3. /\ k' = [k EXCEPT !.inbox[TM] = Empty] /\ todo' = [todo EXCEPT ![TM] = p]
      /\ UNCHANGED <<threadList, nextId>>
  BY <1>2 DEF ServeStep
<1>4. KernelSound(k) /\ Typed /\ \A x \in Mail(k) \cup {Empty} : MailNames(x)
  BY DEF IInv, Typed, MailNames, Empty
<1>5. m \in Message \cup {Empty} /\ MailNames(m)
  BY <1>4, KernelFields, SystemThreads DEF KernelSound, Mail
<1>6. \/ p = MainLoop
      \/ \E r \in Thread \cup {NULL}, id \in AnswerId : p = Answer(r, id)
      \/ \E u \in Users, r \in Thread :
            /\ p = Then(CallMM, HashThen(u, r))
            /\ nextId <= Len(UserIds) /\ u = UserIds[nextId]
      \/ \E x \in Mortal, q \in Post : p = UnhashThen(x, q) /\ Exists(x)
  BY <1>4, <1>5, ServeGives
<1> HIDE DEF p, m
<1>7. p \in Seq(Instruction)
  <2>1. /\ MainLoop \in Seq(Instruction)
        /\ \A r \in Thread \cup {NULL}, id \in AnswerId :
              Answer(r, id) \in Seq(Instruction)
        /\ \A u \in Thread, r \in Thread :
              Then(CallMM, HashThen(u, r)) \in Seq(Instruction)
        /\ \A x \in Thread, q \in Post : UnhashThen(x, q) \in Seq(Instruction)
    BY MainLoopIs, Forms
  <2>2. Users \subseteq Thread /\ Mortal \subseteq Thread
    BY SystemThreads, MortalThreads
  <2> QED  BY <1>6, <2>1, <2>2, Zenon
<1>8. /\ Moves(k', k) /\ Mail(k') \subseteq Mail(k) \cup {Empty}
      /\ k'.sched = k.sched
  BY <1>2, <1>3, <1>4, ServeMoves
<1>9. todo'[TM] = p
  BY <1>3, SystemThreads DEF IInv, Typed
<1>10. TmProgram'
  <2>1. \A u : Exists(u)' <=> Exists(u)
    BY <1>3, <1>8, SameTables
  <2>2. CASE \/ p = MainLoop
             \/ \E r \in Thread \cup {NULL}, id \in AnswerId : p = Answer(r, id)
    BY <1>9, <2>2 DEF TmProgram
  <2>3. ASSUME NEW u \in Users, NEW r \in Thread, p = Then(CallMM, HashThen(u, r)),
               nextId <= Len(UserIds), u = UserIds[nextId]
        PROVE  TmProgram'
    <3>1. Around(HashThen(u, r))'
      BY <1>9, <2>3 DEF Around
    <3>2. Starting(u, r)'
      BY <1>3, <2>3, <3>1 DEF Starting
    <3> QED  BY <3>2 DEF TmProgram
  <2>4. ASSUME NEW x \in Mortal, NEW q \in Post, p = UnhashThen(x, q), Exists(x)
        PROVE  TmProgram'
    <3>1. Ending(x, q)'
      BY <1>9, <2>1, <2>4 DEF Ending
    <3> QED  BY <3>1 DEF TmProgram
  <2> QED  BY <1>6, <2>2, <2>3, <2>4
<1>11. TmWaits'
  <2>1. ~WaitsIn(k', TM)
    BY <1>2, <1>4, <1>8 DEF KernelSound, SchedSound, WaitsIn
  <2> QED  BY <2>1 DEF TmWaits
<1>12. /\ Head(todo[TM]).do \in {"send", "call", "recv", "serve"}
       /\ Range(todo[TM]) \subseteq Range(p) \cup {Head(todo[TM])}
  BY <1>1, <1>2 DEF Range
<1> QED  BY <1>3, <1>4, <1>7, <1>8, <1>10, <1>11, <1>12, TmGoesOn

-----------------------------------------------------------------------------
(* TM's changes of the tables and lists *)

\* The program p still tells t that x is gone, or wakes it.
Tells(p, t, x) ==
    \E i \in Range(p) : \/ i = Own("freeblocked", x)
                        \/ i.do = "visit" /\ i.to = t /\ i.arg = x
                        \/ i = Own("ready", t)

\* What a program says of the threads apart from TM: nobody was told of a
\* failure unless its waking comes next, and so on.
LEMMA Otherwise ==
    ASSUME IInv, NEW i \in Instruction, NEW q \in Seq(Instruction),
           todo[TM] = Then(i, q)
    PROVE  /\ i.do # "ready" => \A t \in Thread : WaitsIn(k, t) => k.ret[t] = "OK"
           /\ i.do # "unschedule" => \A t \in Thread : ~Absent(k, t) => Exists(t)
           /\ \A t \in Thread :
                WaitsIn(k, t) /\ k.pend[t].from # ANY /\ ~Exists(k.pend[t].from) =>
                    \/ Tells(q, t, k.pend[t].from)
                    \/ i = Own("freeblocked", k.pend[t].from)
                    \/ i.do = "visit" /\ i.to = t /\ i.arg = k.pend[t].from
                    \/ i = Own("ready", t)
<1>1. /\ Head(todo[TM]) = i /\ Range(todo[TM]) = {i} \cup Range(q)
  BY ThenProperties
<1>2. k.ret \in [Thread -> {"OK", "FAILED"}]
  BY KernelFields DEF IInv, Typed, KernelSound
<1>3. ASSUME i.do # "ready", NEW t \in Thread, WaitsIn(k, t) PROVE k.ret[t] = "OK"
  <2>1. i # Own("ready", t)
    BY <1>3 DEF Own, Instr
  <2> QED  BY <1>1, <1>2, <1>3, <2>1 DEF IInv, FailedReady
<1>4. ASSUME i.do # "unschedule", NEW t \in Thread, ~Absent(k, t) PROVE Exists(t)
  <2>1. ASSUME NEW p \in Post, todo[TM] = UnschedThen(t, p) PROVE FALSE
    <3>1. i = Own("unschedule", t)
      BY <1>1, <2>1, UnschedHead
    <3> QED  BY <1>4, <3>1 DEF Own, Instr
  <2> QED  BY <1>4, <2>1 DEF IInv, Listed
<1>5. ASSUME NEW t \in Thread, WaitsIn(k, t), k.pend[t].from # ANY,
             ~Exists(k.pend[t].from)
      PROVE  \/ Tells(q, t, k.pend[t].from)
             \/ i = Own("freeblocked", k.pend[t].from)
             \/ i.do = "visit" /\ i.to = t /\ i.arg = k.pend[t].from
             \/ i = Own("ready", t)
  <2>1. PICK j \in Range(todo[TM]) :
            \/ j = Own("freeblocked", k.pend[t].from)
            \/ j.do = "visit" /\ j.to = t /\ j.arg = k.pend[t].from
            \/ j = Own("ready", t)
    BY <1>5 DEF IInv, NoWaitForDead, Waits, WaitsIn, Status
  <2> QED  BY <1>1, <2>1 DEF Tells
<1> QED  BY <1>3, <1>4, <1>5

\* A longer program tells more.
LEMMA TellsMore ==
    ASSUME NEW p, NEW q, Range(q) \subseteq Range(p), NEW t, NEW x, Tells(q, t, x)
    PROVE  Tells(p, t, x)
BY DEF Tells

\* NoWaitForDead, in terms of TM's program.
LEMMA NoWaitFrom ==
    ASSUME \A t \in Thread :
              (WaitsIn(k, t) /\ k.pend[t].from # ANY /\ ~Exists(k.pend[t].from) =>
                  Tells(todo[TM], t, k.pend[t].from))'
    PROVE  NoWaitForDead'
BY DEF NoWaitForDead, Waits, WaitsIn, Status, Tells

\* A program of TM's in place of the old one.
LEMMA NewProgram ==
    ASSUME Typed, Programs, NEW q \in Seq(Instruction),
           todo' = [todo EXCEPT ![TM] = q]
    PROVE  /\ todo'[TM] = q
           /\ todo' \in [Thread -> Seq(Instruction)]
           /\ Programs'
<1>1. todo \in [Thread -> Seq(Instruction)]
  BY DEF Typed
<1>2. \A t \in Thread \ {TM} : todo'[t] = todo[t]
  BY <1>1
<1>3. todo' \in [Thread -> Seq(Instruction)] /\ todo'[TM] = q
  BY <1>1, SystemThreads
<1> QED  BY <1>2, <1>3, SystemThreads DEF Programs

\* The thread u gets its descriptor into the table and the list.
LEMMA HashStep ==
    ASSUME IInv, NEW u \in Users, NEW r \in Thread,
           todo[TM] = HashThen(u, r), nextId <= Len(UserIds), u = UserIds[nextId],
           Step(TM) \/ TmStep
    PROVE  IInv'
<1> DEFINE i == Own("hash", u)
           q == Then(CallMM, BuildThen(u, r))
<1>0. u \in Thread
  BY SystemThreads
<1>1. i \in Instruction /\ q \in Seq(Instruction) /\ todo[TM] = Then(i, q)
  BY <1>0, Instructions, Forms DEF HashThen
<1>2. i.do = "hash" /\ i.to = u
  BY DEF Own, Instr
<1>3. k.sched.running = TM /\ Rest(TM) = q /\ Hash(i)
  BY <1>1, <1>2, TmDoes
<1>4. /\ threadList' = Cons(u, threadList) /\ nextId' = nextId + 1 /\ k' = k
      /\ todo' = [todo EXCEPT ![TM] = q]
  BY <1>2, <1>3 DEF Hash, Cons
<1>5. /\ Typed /\ Programs /\ threadList \in Seq(Thread) /\ IsInjective(threadList)
      /\ nextId \in Nat \ {0} /\ KernelSound(k)
  BY DEF IInv, Typed
<1>o. /\ \A t \in Thread : WaitsIn(k, t) => k.ret[t] = "OK"
      /\ \A t \in Thread : ~Absent(k, t) => Exists(t)
      /\ \A t \in Thread :
           WaitsIn(k, t) /\ k.pend[t].from # ANY /\ ~Exists(k.pend[t].from) =>
               Tells(q, t, k.pend[t].from)
  BY <1>1, <1>2, Otherwise DEF Own, Instr
<1> HIDE DEF i, q
<1>6. todo'[TM] = q /\ todo' \in [Thread -> Seq(Instruction)] /\ Programs'
  BY <1>1, <1>4, <1>5, NewProgram
<1>7. ~Exists(u) /\ Absent(k, u)
  <2>1. Fresh(u)
    BY <1>5, IPCAssumption, LenProperties DEF Fresh
  <2> QED  BY <2>1 DEF IInv, FreshUnseen
<1>8. /\ threadList' \in Seq(Thread) /\ IsInjective(threadList')
      /\ Range(threadList') = Range(threadList) \cup {u}
  BY <1>0, <1>4, <1>5, <1>7, ConsDistinct DEF Exists
<1>9. \A t : Exists(t)' <=> Exists(t) \/ t = u
  BY <1>8 DEF Exists
<1>10. Typed'
  BY <1>4, <1>5, <1>6, <1>8 DEF Typed
<1>11. KernelLives'
  BY <1>4, <1>9 DEF KernelLives, IInv
<1>12. FreshUnseen'
  <2> SUFFICES ASSUME NEW w \in Users, Fresh(w)'
               PROVE  ~Exists(w)' /\ Absent(k, w)
    BY <1>4 DEF FreshUnseen
  <2>1. PICK j \in nextId + 1 .. Len(UserIds) : w = UserIds[j]
    BY <1>4 DEF Fresh
  <2>2. j \in nextId .. Len(UserIds) /\ j # nextId
    BY <1>5, IPCAssumption, LenProperties
  <2>3. Fresh(w)
    BY <2>1, <2>2 DEF Fresh
  <2>4. w # u
    <3>1. nextId \in DOMAIN UserIds /\ j \in DOMAIN UserIds
      BY <1>5, <2>2, IPCAssumption, LenProperties
    <3>2. \A a, b \in DOMAIN UserIds : UserIds[a] = UserIds[b] => a = b
      BY IPCAssumption DEF IsInjective
    <3> QED  BY <2>1, <2>2, <3>1, <3>2
  <2> QED  BY <1>9, <2>3, <2>4 DEF IInv, FreshUnseen
<1>13. Listed'
  BY <1>o, <1>4, <1>9 DEF Listed
<1>14. TmProgram'
  <2>1. Around(BuildThen(u, r))'
    BY <1>6 DEF Around, q
  <2>2. Starting(u, r)'
    BY <1>4, <1>7, <1>9, <2>1 DEF Starting
  <2> QED  BY <2>2 DEF TmProgram
<1>15. TmWaits'
  BY <1>4 DEF TmWaits, IInv
<1>16. FailedReady'
  BY <1>o, <1>4 DEF FailedReady
<1>17. NoWaitForDead'
  BY <1>o, <1>4, <1>6, <1>9, NoWaitFrom
<1>18. (\A m \in Mail(k) : MailNames(m))'
  BY <1>4 DEF IInv, Mail
<1> QED  BY <1>6, <1>10, <1>11, <1>12, <1>13, <1>14, <1>15, <1>16, <1>17, <1>18 DEF IInv

\* threadBuild
LEMMA BuildStep ==
    ASSUME IInv, NEW u \in Users, NEW r \in Thread,
           todo[TM] = BuildThen(u, r), Exists(u), Absent(k, u),
           Step(TM) \/ TmStep
    PROVE  IInv'
<1> DEFINE i == Own("build", u)
           q == ReadyThen(u, r)
<1>0. u \in Thread /\ u # TM /\ u # MM /\ u # Idle
  BY SystemThreads
<1>1. i \in Instruction /\ q \in Seq(Instruction) /\ todo[TM] = Then(i, q)
  BY <1>0, Instructions, Forms DEF BuildThen
<1>2. i.do = "build" /\ i.to = u
  BY DEF Own, Instr
<1>3. k.sched.running = TM /\ Rest(TM) = q /\ Build(i)
  BY <1>1, <1>2, TmDoes
<1>4. /\ k' = [k EXCEPT !.sched = schedulerInsert(@, u), !.queue[u] = << >>]
      /\ todo' = [todo EXCEPT ![TM] = q]
      /\ UNCHANGED <<threadList, nextId>>
  BY <1>2, <1>3 DEF Build
<1>5. /\ Typed /\ Programs /\ threadList \in Seq(Thread) /\ IsInjective(threadList)
      /\ nextId \in Nat \ {0} /\ KernelSound(k)
      /\ k.queue \in [Thread -> Seq(Message)]
  BY KernelFields DEF IInv, Typed, KernelSound
<1>o. /\ \A t \in Thread : WaitsIn(k, t) => k.ret[t] = "OK"
      /\ \A t \in Thread : ~Absent(k, t) => Exists(t)
      /\ \A t \in Thread :
           WaitsIn(k, t) /\ k.pend[t].from # ANY /\ ~Exists(k.pend[t].from) =>
               Tells(q, t, k.pend[t].from)
  BY <1>1, <1>2, Otherwise DEF Own, Instr
<1> HIDE DEF i, q
<1>6. todo'[TM] = q /\ todo' \in [Thread -> Seq(Instruction)] /\ Programs'
  BY <1>1, <1>4, <1>5, NewProgram
<1>7. /\ KernelSound(k') /\ k'.sched.status[u] = "BLOCKED"
      /\ \A t \in Thread : WaitsIn(k', t) <=> WaitsIn(k, t)
      /\ \A t \in Thread \ {u} : Absent(k', t) <=> Absent(k, t)
      /\ k'.queue = [k.queue EXCEPT ![u] = << >>]
      /\ k'.pend = k.pend /\ k'.inbox = k.inbox /\ k'.ret = k.ret
  BY <1>0, <1>4, <1>5, BuildEffect
<1>8. \A t : (Exists(t)' <=> Exists(t)) /\ (Fresh(t)' <=> Fresh(t))
  BY <1>4 DEF Exists, Fresh
<1>9. ~Absent(k', u) /\ ~WaitsIn(k, u)
  BY <1>7 DEF Absent, WaitsIn
<1>10. Typed'
  BY <1>4, <1>5, <1>6, <1>7 DEF Typed
<1>11. KernelLives'
  BY <1>0, <1>7, <1>8, SystemThreads DEF KernelLives, IInv
<1>12. FreshUnseen'
  BY <1>7, <1>8, SystemThreads DEF FreshUnseen, IInv
<1>13. Listed'
  BY <1>o, <1>7, <1>8 DEF Listed
<1>14. TmProgram'
  <2>1. Starting(u, r)'
    BY <1>0, <1>6, <1>7, <1>9 DEF Starting, q
  <2> QED  BY <2>1 DEF TmProgram
<1>15. TmWaits'
  BY <1>7, SystemThreads DEF TmWaits, IInv
<1>16. FailedReady'
  BY <1>o, <1>7 DEF FailedReady
<1>17. NoWaitForDead'
  BY <1>o, <1>6, <1>7, <1>8, NoWaitFrom
<1>18. (\A m \in Mail(k) : MailNames(m))'
  <2>1. k'.queue[TM] = k.queue[TM] /\ k'.inbox[TM] = k.inbox[TM]
    BY <1>0, <1>5, <1>7, SystemThreads
  <2> QED  BY <2>1 DEF IInv, Mail
<1> QED  BY <1>6, <1>10, <1>11, <1>12, <1>13, <1>14, <1>15, <1>16, <1>17, <1>18 DEF IInv

\* TM makes t ready: a new thread, or one that it has told of a failure.
LEMMA ReadyStep ==
    ASSUME IInv, NEW t \in Thread, NEW q \in Seq(Instruction),
           todo[TM] = Then(Own("ready", t), q), ~Absent(k, t),
           Step(TM) \/ TmStep,
           /\ \A u \in Thread : Absent(k', u) <=> Absent(k, u)
           /\ todo'[TM] = q
           /\ UNCHANGED <<threadList, nextId>>
           => TmProgram'
    PROVE  IInv'
<1> DEFINE i == Own("ready", t)
<1>1. i \in Instruction /\ i.do = "ready" /\ i.to = t
  BY Instructions DEF Own, Instr
<1>2. k.sched.running = TM /\ Rest(TM) = q /\ Head(todo[TM]) = i /\ Ready(i)
  BY <1>1, TmDoes
<1>3. /\ k' = [k EXCEPT !.sched = schedulerSetReady(@, t)]
      /\ todo' = [todo EXCEPT ![TM] = q]
      /\ UNCHANGED <<threadList, nextId>>
  BY <1>1, <1>2 DEF Ready
<1>4. /\ Typed /\ Programs /\ threadList \in Seq(Thread) /\ IsInjective(threadList)
      /\ nextId \in Nat \ {0} /\ KernelSound(k)
  BY DEF IInv, Typed
<1>o. /\ \A u \in Thread : ~Absent(k, u) => Exists(u)
      /\ \A u \in Thread \ {t} :
           WaitsIn(k, u) /\ k.pend[u].from # ANY /\ ~Exists(k.pend[u].from) =>
               Tells(q, u, k.pend[u].from)
  BY <1>1, Otherwise DEF Own, Instr
<1>5. \A u \in Thread \ {t} : WaitsIn(k, u) => k.ret[u] = "OK"
  <2>1. k.ret \in [Thread -> {"OK", "FAILED"}]
    BY <1>4, KernelFields DEF KernelSound
  <2>2. \A u \in Thread \ {t} : i # Own("ready", u)
    BY DEF Own, Instr
  <2> QED  BY <1>2, <2>1, <2>2 DEF IInv, FailedReady
<1> HIDE DEF i
<1>6. todo'[TM] = q /\ todo' \in [Thread -> Seq(Instruction)] /\ Programs'
  BY <1>3, <1>4, NewProgram
<1>7. /\ KernelSound(k') /\ ~WaitsIn(k', t)
      /\ \A u \in Thread \ {t} : WaitsIn(k', u) <=> WaitsIn(k, u)
      /\ \A u \in Thread : Absent(k', u) <=> Absent(k, u)
      /\ k'.queue = k.queue /\ k'.pend = k.pend
      /\ k'.inbox = k.inbox /\ k'.ret = k.ret
  BY <1>2, <1>3, <1>4, ReadyEffect DEF WaitsIn, Active
<1>8. \A u : (Exists(u)' <=> Exists(u)) /\ (Fresh(u)' <=> Fresh(u))
  BY <1>3 DEF Exists, Fresh
<1>9. \A u \in Thread : WaitsIn(k', u) => u # t /\ WaitsIn(k, u)
  BY <1>7
<1>10. Typed'
  BY <1>3, <1>4, <1>6, <1>7 DEF Typed
<1>11. KernelLives'
  BY <1>7, <1>8, SystemThreads DEF KernelLives, IInv
<1>12. FreshUnseen'
  BY <1>7, <1>8, SystemThreads DEF FreshUnseen, IInv
<1>13. Listed'
  BY <1>o, <1>7, <1>8 DEF Listed
<1>14. TmProgram'
  BY <1>3, <1>6, <1>7
<1>15. TmWaits'
  BY <1>7, <1>9, SystemThreads DEF TmWaits, IInv
<1>16. FailedReady'
  BY <1>5, <1>7, <1>9 DEF FailedReady
<1>17. NoWaitForDead'
  BY <1>o, <1>6, <1>7, <1>8, <1>9, NoWaitFrom
<1>18. (\A m \in Mail(k) : MailNames(m))'
  BY <1>7 DEF IInv, Mail
<1> QED  BY <1>6, <1>10, <1>11, <1>12, <1>13, <1>14, <1>15, <1>16, <1>17, <1>18 DEF IInv

\* The program that ends x visits the waiting threads.
LEMMA EndingTells ==
    ASSUME NEW x \in Thread, NEW p \in Post, NEW t
    PROVE  Tells(UnschedThen(x, p), t, x)
<1>1. /\ Own("freeblocked", x) \in Instruction /\ CallMM \in Instruction
      /\ Send(MM, "VM_CLEANUP", NULL) \in Instruction
      /\ Own("unschedule", x) \in Instruction
      /\ p \in Seq(Instruction)
  BY Instructions, Forms
<1>2. /\ FreeThen(x, p) \in Seq(Instruction)
      /\ Own("freeblocked", x) \in Range(FreeThen(x, p))
  BY <1>1, ThenProperties DEF FreeThen
<1>3. /\ CleanThen(x, p) \in Seq(Instruction)
      /\ Own("freeblocked", x) \in Range(CleanThen(x, p))
  BY <1>1, <1>2, ThenProperties DEF CleanThen
<1>4. /\ Then(CallMM, CleanThen(x, p)) \in Seq(Instruction)
      /\ Own("freeblocked", x) \in Range(Then(CallMM, CleanThen(x, p)))
  BY <1>1, <1>3, ThenProperties
<1>5. Own("freeblocked", x) \in Range(UnschedThen(x, p))
  BY <1>1, <1>4, ThenProperties DEF UnschedThen
<1> QED  BY <1>5 DEF Tells

\* The removals of x under threadLock.
LEMMA UnhashStep ==
    ASSUME IInv, NEW x \in Mortal, NEW p \in Post,
           todo[TM] = UnhashThen(x, p), Exists(x), Step(TM) \/ TmStep
    PROVE  IInv'
<1> DEFINE i == Own("unhash", x)
           q == UnschedThen(x, p)
<1>0. x \in Thread /\ x \notin {TM, MM, Idle}
  BY MortalThreads
<1>1. i \in Instruction /\ q \in Seq(Instruction) /\ todo[TM] = Then(i, q)
  BY <1>0, Instructions, Forms DEF UnhashThen
<1>2. i.do = "unhash" /\ i.to = x
  BY DEF Own, Instr
<1>3. Rest(TM) = q /\ Unhash(i)
  BY <1>1, <1>2, TmDoes
<1>4. /\ threadList' = RemoveFirst(threadList, x) /\ nextId' = nextId /\ k' = k
      /\ todo' = [todo EXCEPT ![TM] = q]
  BY <1>2, <1>3 DEF Unhash
<1>5. /\ Typed /\ Programs /\ threadList \in Seq(Thread) /\ IsInjective(threadList)
      /\ nextId \in Nat \ {0} /\ KernelSound(k)
  BY DEF IInv, Typed
<1>o. /\ \A t \in Thread : WaitsIn(k, t) => k.ret[t] = "OK"
      /\ \A t \in Thread : ~Absent(k, t) => Exists(t)
      /\ \A t \in Thread :
           WaitsIn(k, t) /\ k.pend[t].from # ANY /\ ~Exists(k.pend[t].from) =>
               Tells(q, t, k.pend[t].from)
  BY <1>1, <1>2, Otherwise DEF Own, Instr
<1>q. q = UnschedThen(x, p)
  OBVIOUS
<1> HIDE DEF i, q
<1>6. todo'[TM] = q /\ todo' \in [Thread -> Seq(Instruction)] /\ Programs'
  BY <1>1, <1>4, <1>5, NewProgram
<1>8. /\ threadList' \in Seq(Thread) /\ IsInjective(threadList')
      /\ Range(threadList') = Range(threadList) \ {x}
  BY <1>4, <1>5, RemoveFirstProperties
<1>9. \A t : /\ Exists(t)' <=> Exists(t) /\ t # x
             /\ Fresh(t)' <=> Fresh(t)
  BY <1>4, <1>8 DEF Exists, Fresh
<1>10. Typed'
  BY <1>4, <1>5, <1>6, <1>8 DEF Typed
<1>11. KernelLives'
  BY <1>0, <1>4, <1>9 DEF KernelLives, IInv
<1>12. FreshUnseen'
  BY <1>4, <1>9 DEF FreshUnseen, IInv
<1>13. Listed'
  BY <1>o, <1>4, <1>6, <1>9, <1>q DEF Listed
<1>14. TmProgram'
  <2>1. ~Fresh(x)
    <3>1. CASE x \in Users
      BY <3>1 DEF IInv, FreshUnseen
    <3>2. CASE x \in Drivers
      <4>1. ASSUME NEW j \in nextId .. Len(UserIds) PROVE UserIds[j] \in Users
        <5>1. j \in DOMAIN UserIds
          BY <1>5, IPCAssumption, LenProperties
        <5> QED  BY <5>1 DEF Users, Range
      <4>2. x \notin Users
        BY <3>2, SystemThreads
      <4> QED  BY <4>1, <4>2 DEF Fresh
    <3> QED  BY <3>1, <3>2 DEF Mortal
  <2>2. Ending(x, p)'
    BY <1>6, <1>9, <1>q, <2>1 DEF Ending
  <2> QED  BY <2>2 DEF TmProgram
<1>15. TmWaits'
  BY <1>4 DEF TmWaits, IInv
<1>16. FailedReady'
  BY <1>o, <1>4 DEF FailedReady
<1>17. NoWaitForDead'
  <2>1. \A t : Tells(q, t, x)
    BY <1>0, <1>q, EndingTells
  <2> QED  BY <1>o, <1>4, <1>6, <1>9, <2>1, NoWaitFrom
<1>18. (\A m \in Mail(k) : MailNames(m))'
  BY <1>4 DEF IInv, Mail
<1> QED  BY <1>6, <1>10, <1>11, <1>12, <1>13, <1>14, <1>15, <1>16, <1>17, <1>18 DEF IInv

\* schedulerRemove, and with it what x was doing and its messages.
LEMMA UnscheduleStep ==
    ASSUME IInv, NEW x \in Mortal, NEW p \in Post,
           todo[TM] = UnschedThen(x, p), ~Exists(x), ~Fresh(x), Step(TM) \/ TmStep
    PROVE  IInv'
<1> DEFINE i == Own("unschedule", x)
           c == CleanThen(x, p)
           q == Then(CallMM, c)
<1>0. x \in Thread /\ x \notin {TM, MM, Idle}
  BY MortalThreads
<1>1. i \in Instruction /\ q \in Seq(Instruction) /\ todo[TM] = Then(i, q)
  BY <1>0, Instructions, Forms DEF UnschedThen
<1>2. i.do = "unschedule" /\ i.to = x
  BY DEF Own, Instr
<1>3. k.sched.running = TM /\ Rest(TM) = q /\ Unschedule(i)
  BY <1>1, <1>2, TmDoes
<1>4. /\ k' = [k EXCEPT !.sched = schedulerRemove(@, x),
                        !.queue[x] = << >>,
                        !.pend[x] = NotWaiting,
                        !.inbox[x] = Empty,
                        !.ret[x] = "OK"]
      /\ todo' = [todo EXCEPT ![TM] = q, ![x] = << >>]
      /\ UNCHANGED <<threadList, nextId>>
  BY <1>2, <1>3 DEF Unschedule
<1>5. /\ Typed /\ Programs /\ threadList \in Seq(Thread) /\ IsInjective(threadList)
      /\ nextId \in Nat \ {0} /\ KernelSound(k)
      /\ todo \in [Thread -> Seq(Instruction)]
  BY DEF IInv, Typed
<1>o. /\ \A t \in Thread : WaitsIn(k, t) => k.ret[t] = "OK"
      /\ \A t \in Thread :
           WaitsIn(k, t) /\ k.pend[t].from # ANY /\ ~Exists(k.pend[t].from) =>
               Tells(q, t, k.pend[t].from)
  BY <1>1, <1>2, Otherwise DEF Own, Instr
<1>6. \A t \in Thread \ {x} : ~Absent(k, t) => Exists(t)
  <2> SUFFICES ASSUME NEW t \in Thread \ {x}, ~Absent(k, t), ~Exists(t) PROVE FALSE
    OBVIOUS
  <2>1. PICK r \in Post : todo[TM] = UnschedThen(t, r)
    BY DEF IInv, Listed
  <2>2. Own("unschedule", t) = Own("unschedule", x)
    BY <1>0, <2>1, UnschedHead
  <2> QED  BY <2>2 DEF Own, Instr
<1>c. q = Then(CallMM, CleanThen(x, p))
  OBVIOUS
<1> HIDE DEF i, q, c
<1>7. /\ todo'[TM] = q /\ todo' \in [Thread -> Seq(Instruction)]
      /\ todo'[MM] = todo[MM] /\ todo'[Idle] = todo[Idle]
      /\ todo'[x] = << >>
      /\ \A t \in Thread \ {TM, x} : todo'[t] = todo[t]
  BY <1>0, <1>1, <1>4, <1>5, SystemThreads
<1>8. Programs'
  <2>1. \A d \in Drivers : todo'[d] \in {todo[d], << >>}
    BY <1>7, SystemThreads
  <2>2. << >> \in Seq(DriverInstruction)
    OBVIOUS
  <2>3. ASSUME NEW d \in Drivers PROVE todo'[d] \in Seq(DriverInstruction)
    <3>1. todo[d] \in Seq(DriverInstruction)
      BY <1>5 DEF Programs
    <3> QED  BY <2>1, <2>2, <3>1
  <2> QED  BY <1>5, <1>7, <2>3 DEF Programs
<1>9. /\ KernelSound(k') /\ Absent(k', x) /\ ~WaitsIn(k', x)
      /\ \A u \in Thread \ {x} :
            /\ WaitsIn(k', u) <=> WaitsIn(k, u)
            /\ Absent(k', u) <=> Absent(k, u)
            /\ k'.queue[u] = k.queue[u] /\ k'.inbox[u] = k.inbox[u]
            /\ k'.pend[u] = k.pend[u] /\ k'.ret[u] = k.ret[u]
  <2>1. KernelSound(k) /\ k.sched.running = TM /\ x \in Thread \ {TM, Idle}
    BY <1>0, <1>3, <1>5
  <2> DEFINE r == Unscheduled(k, x)
  <2>2. /\ KernelSound(r) /\ Absent(r, x) /\ ~WaitsIn(r, x)
        /\ \A u \in Thread \ {x} :
              /\ WaitsIn(r, u) <=> WaitsIn(k, u)
              /\ Absent(r, u) <=> Absent(k, u)
              /\ r.queue[u] = k.queue[u] /\ r.inbox[u] = k.inbox[u]
              /\ r.pend[u] = k.pend[u] /\ r.ret[u] = k.ret[u]
    BY <2>1, UnscheduleEffect
  <2>3. k' = r
    BY <1>4 DEF Unscheduled
  <2> HIDE DEF r
  <2> QED  BY <2>2, <2>3
<1>10. \A u : (Exists(u)' <=> Exists(u)) /\ (Fresh(u)' <=> Fresh(u))
  BY <1>4 DEF Exists, Fresh
<1>11. \A u \in Thread : WaitsIn(k', u) => u # x /\ WaitsIn(k, u)
  BY <1>9
<1>12. Typed'
  BY <1>4, <1>5, <1>7, <1>9 DEF Typed
<1>13. KernelLives'
  BY <1>0, <1>9, <1>10, SystemThreads DEF KernelLives, IInv
<1>14. FreshUnseen'
  BY <1>9, <1>10, SystemThreads DEF FreshUnseen, IInv
<1>15. Listed'
  BY <1>6, <1>9, <1>10 DEF Listed
<1>16. TmProgram'
  <2>1. Around(CleanThen(x, p))'
    BY <1>7, <1>c DEF Around
  <2>2. Gone(x)'
    BY <1>9, <1>10 DEF Gone
  <2>3. Ending(x, p)'
    BY <2>1, <2>2 DEF Ending
  <2> QED  BY <2>3 DEF TmProgram
<1>17. TmWaits'
  BY <1>0, <1>9, SystemThreads DEF TmWaits, IInv
<1>18. FailedReady'
  BY <1>o, <1>9, <1>11 DEF FailedReady
<1>19. NoWaitForDead'
  BY <1>o, <1>7, <1>9, <1>10, <1>11, NoWaitFrom
<1>20. (\A m \in Mail(k) : MailNames(m))'
  <2>1. k'.queue[TM] = k.queue[TM] /\ k'.inbox[TM] = k.inbox[TM]
    BY <1>0, <1>9, SystemThreads
  <2> QED  BY <2>1 DEF IInv, Mail
<1> QED  BY <1>8, <1>12, <1>13, <1>14, <1>15, <1>16, <1>17, <1>18, <1>19, <1>20 DEF IInv

\* ipcFreeBlockedThreads starts to walk through the threads, which are all in
\* the list.
LEMMA FreeStep ==
    ASSUME IInv, NEW x \in Mortal, NEW p \in Post,
           todo[TM] = FreeThen(x, p), Gone(x), Step(TM) \/ TmStep
    PROVE  IInv'
<1> DEFINE i == Own("freeblocked", x)
           v == [n \in DOMAIN threadList |->
                    Instr("visit", threadList[n], "ANYMSGTYPE", x)]
           q == v \o p
<1>0. x \in Thread /\ p \in Seq(Instruction)
  BY MortalThreads, Forms
<1>1. i \in Instruction /\ todo[TM] = Then(i, p)
  BY <1>0, Instructions DEF FreeThen
<1>2. i.do = "freeblocked" /\ i.to = x
  BY DEF Own, Instr
<1>3. Rest(TM) = p /\ FreeBlocked(i)
  BY <1>0, <1>1, <1>2, TmDoes
<1>4. k' = k /\ threadList' = threadList /\ nextId' = nextId
      /\ todo' = [todo EXCEPT ![TM] = q]
  BY <1>2, <1>3 DEF FreeBlocked
<1>5. /\ Typed /\ Programs /\ threadList \in Seq(Thread) /\ KernelSound(k)
  BY DEF IInv, Typed
<1>o. /\ \A t \in Thread : WaitsIn(k, t) => k.ret[t] = "OK"
      /\ \A t \in Thread : ~Absent(k, t) => Exists(t)
      /\ \A t \in Thread :
           WaitsIn(k, t) /\ k.pend[t].from # ANY /\ ~Exists(k.pend[t].from)
               /\ k.pend[t].from # x =>
                    Tells(p, t, k.pend[t].from)
  BY <1>0, <1>1, <1>2, Otherwise DEF Own, Instr
<1>6. v \in Seq(Visits(x))
  <2>1. \A n \in 1 .. Len(threadList) :
           Instr("visit", threadList[n], "ANYMSGTYPE", x) \in Visits(x)
    BY <1>5, ElementOfSeq DEF Visits
  <2>2. DOMAIN threadList = 1 .. Len(threadList) /\ Len(threadList) \in Nat
    BY <1>5, LenProperties
  <2>3. v \in [1 .. Len(threadList) -> Visits(x)]
    BY <2>1, <2>2
  <2> QED  BY <2>2, <2>3
<1>7. \A t : Exists(t) => Instr("visit", t, "ANYMSGTYPE", x) \in Range(v)
  BY DEF Exists, Range
<1>v. Visits(x) \subseteq Instruction
  BY <1>0, Instructions
<1>8. v \in Seq(Instruction)
  BY <1>6, <1>v
<1> HIDE DEF i, v
<1>9. q \in Seq(Instruction) /\ Range(q) = Range(v) \cup Range(p)
  BY <1>0, <1>8, ConcatProperties, RangeConcatenation
<1>q. q = v \o p
  OBVIOUS
<1> HIDE DEF q
<1>10. todo'[TM] = q /\ todo' \in [Thread -> Seq(Instruction)] /\ Programs'
  BY <1>4, <1>5, <1>9, NewProgram
<1>11. \A t : /\ Exists(t)' <=> Exists(t)
              /\ Fresh(t)' <=> Fresh(t)
              /\ Gone(t)' <=> Gone(t)
  BY <1>4 DEF Exists, Fresh, Gone
<1>12. Typed'
  BY <1>4, <1>5, <1>10 DEF Typed
<1>13. KernelLives' /\ FreshUnseen' /\ TmWaits' /\ (\A m \in Mail(k) : MailNames(m))'
  BY <1>4, <1>11 DEF KernelLives, FreshUnseen, TmWaits, Mail, IInv
<1>14. Listed'
  BY <1>o, <1>4, <1>11 DEF Listed
<1>15. TmProgram'
  <2>1. Visiting(x, p)'
    BY <1>6, <1>10, <1>q DEF Visiting
  <2>2. Ending(x, p)'
    BY <1>11, <2>1 DEF Ending
  <2> QED  BY <2>2 DEF TmProgram
<1>16. FailedReady'
  BY <1>o, <1>4 DEF FailedReady
<1>17. NoWaitForDead'
  <2>1. ASSUME NEW t \in Thread, WaitsIn(k, t) PROVE Tells(q, t, x)
    <3>1. Exists(t)
      BY <1>o, <2>1 DEF WaitsIn, Absent
    <3>2. Instr("visit", t, "ANYMSGTYPE", x) \in Range(q)
      BY <1>7, <1>9, <3>1
    <3> QED  BY <3>2 DEF Tells, Instr
  <2>2. \A t, y : Tells(p, t, y) => Tells(q, t, y)
    BY <1>9, TellsMore
  <2> QED  BY <1>o, <1>4, <1>10, <1>11, <2>1, <2>2, NoWaitFrom
<1> QED  BY <1>10, <1>12, <1>13, <1>14, <1>15, <1>16, <1>17 DEF IInv

\* ipcFreeBlockedThreads looks at a thread.
LEMMA VisitStep ==
    ASSUME IInv, NEW x \in Mortal, NEW p \in Post, NEW v \in Seq(Visits(x)), v # << >>,
           todo[TM] = v \o p, Gone(x), Step(TM) \/ TmStep
    PROVE  IInv'
<1> DEFINE i == Head(v)
           w == Tail(v)
           q == w \o p
           t == i.to
<1>0. x \in Thread /\ x # ANY /\ x # NULL /\ p \in Seq(Instruction)
  BY MortalThreads, Forms
<1>1. /\ Visits(x) \subseteq Instruction
      /\ v \in Seq(Instruction)
      /\ i \in Visits(x) /\ w \in Seq(Visits(x)) /\ w \in Seq(Instruction)
  <2>1. Visits(x) \subseteq Instruction
    BY <1>0, Instructions
  <2>2. v \in Seq(Instruction)
    BY <2>1
  <2> QED  BY <2>1, <2>2, HeadTailProperties
<1>2. q \in Seq(Instruction) /\ todo[TM] = Then(i, q)
  BY <1>0, <1>1, HeadTailConcat, ConcatProperties
<1>3. i.do = "visit" /\ t \in Thread /\ i.arg = x
  BY <1>1 DEF Visits, Instr
<1> HIDE DEF w
<1>q. q = w \o p
  OBVIOUS
<1> HIDE DEF i, q
<1>t. t = i.to
  OBVIOUS
<1> HIDE DEF t
<1>4. Rest(TM) = q /\ Visit(i)
  BY <1>1, <1>2, <1>3, TmDoes
<1>5. /\ Typed /\ Programs /\ KernelSound(k)
      /\ UNCHANGED <<threadList, nextId>>
  BY <1>4 DEF IInv, Typed, Visit
<1>o. /\ \A u \in Thread : WaitsIn(k, u) => k.ret[u] = "OK"
      /\ \A u \in Thread : ~Absent(k, u) => Exists(u)
      /\ \A u \in Thread :
           WaitsIn(k, u) /\ k.pend[u].from # ANY /\ ~Exists(k.pend[u].from) =>
               Tells(q, u, k.pend[u].from) \/ (u = t /\ k.pend[u].from = x)
  BY <1>1, <1>2, <1>3, <1>t, Otherwise DEF Own, Instr
<1>6. \A u : /\ Exists(u)' <=> Exists(u)
             /\ Fresh(u)' <=> Fresh(u)
  BY <1>5 DEF Exists, Fresh
<1>7. CASE k.sched.status[t] = "BLOCKED" /\ k.pend[t].from = x
  <2> DEFINE e == Own("ready", t)
             z == Then(e, q)
  <2>1. /\ k' = [k EXCEPT !.ret[t] = "FAILED"]
        /\ todo' = [todo EXCEPT ![TM] = z]
    BY <1>3, <1>4, <1>7, <1>t DEF Visit, Status, Then
  <2>2. e \in Instruction
    BY <1>3, Instructions
  <2>3. z \in Seq(Instruction) /\ Head(z) = e /\ Range(z) = {e} \cup Range(q)
    BY <1>2, <2>2, ThenProperties
  <2>4. WaitsIn(k, t)
    <3>1. WaitsIn(k, t) \/ k.pend[t] = NotWaiting
      BY <1>3, <1>5, <1>7 DEF KernelSound, Active
    <3> QED  BY <1>0, <1>7, <3>1 DEF NotWaiting
  <2>5. k.ret \in [Thread -> {"OK", "FAILED"}]
    BY <1>5, KernelFields DEF KernelSound
  <2>z. z = Then(Own("ready", t), w \o p) /\ e = Own("ready", t)
    BY <1>q
  <2> HIDE DEF e, z
  <2>6. todo'[TM] = z /\ todo' \in [Thread -> Seq(Instruction)] /\ Programs'
    BY <1>5, <2>1, <2>3, NewProgram
  <2>7. /\ KernelSound(k') /\ k'.sched = k.sched /\ k'.queue = k.queue
        /\ k'.pend = k.pend /\ k'.inbox = k.inbox
        /\ k'.ret = [k.ret EXCEPT ![t] = "FAILED"]
    BY <1>3, <1>5, <2>1, TellEffect
  <2>8. /\ \A u \in Thread : WaitsIn(k', u) <=> WaitsIn(k, u)
        /\ \A u \in Thread : Absent(k', u) <=> Absent(k, u)
    BY <2>7 DEF WaitsIn, Absent
  <2>9. k'.ret[t] = "FAILED" /\ \A u \in Thread \ {t} : k'.ret[u] = k.ret[u]
    BY <1>3, <2>5, <2>7
  <2>10. Typed'
    BY <1>5, <2>6, <2>7 DEF Typed
  <2>11. KernelLives' /\ FreshUnseen'
    BY <1>6, <2>8, SystemThreads DEF KernelLives, FreshUnseen, IInv
  <2>12. Listed'
    BY <1>o, <1>6, <2>8 DEF Listed
  <2>13. Gone(x)'
    BY <1>0, <1>6, <2>8 DEF Gone
  <2>14. TmProgram'
    <3>1. Visiting(x, p)'
      BY <1>1, <1>3, <1>7, <2>4, <2>6, <2>7, <2>8, <2>9, <2>z DEF Visiting
    <3>2. Ending(x, p)'
      BY <2>13, <3>1 DEF Ending
    <3> QED  BY <3>2 DEF TmProgram
  <2>15. TmWaits' /\ (\A m \in Mail(k) : MailNames(m))'
    BY <2>7, <2>8, SystemThreads DEF TmWaits, Mail, IInv
  <2>16. FailedReady'
    <3> SUFFICES ASSUME NEW u \in Thread, WaitsIn(k', u), k'.ret[u] = "FAILED"
                 PROVE  /\ Head(todo'[TM]) = Own("ready", u)
                        /\ k'.pend[u].from \in Mortal
                        /\ ~Exists(k'.pend[u].from) /\ Absent(k', k'.pend[u].from)
      BY <1>6 DEF FailedReady
    <3>1. u = t
      BY <1>o, <2>8, <2>9
    <3>2. Head(todo'[TM]) = Own("ready", u)
      BY <2>3, <2>6, <2>z, <3>1
    <3>3. k'.pend[u].from = x
      BY <1>7, <2>7, <3>1
    <3>4. ~Exists(x) /\ Absent(k', x)
      BY <1>0, <2>8 DEF Gone
    <3> QED  BY <3>2, <3>3, <3>4
  <2>17. NoWaitForDead'
    <3>1. \A u \in Thread : \A y : Tells(q, u, y) => Tells(z, u, y)
      BY <2>3, TellsMore
    <3>2. \A y : Tells(z, t, y)
      BY <2>3, <2>z DEF Tells
    <3> QED  BY <1>o, <1>6, <2>6, <2>7, <2>8, <3>1, <3>2, NoWaitFrom
  <2> QED  BY <2>6, <2>10, <2>11, <2>12, <2>14, <2>15, <2>16, <2>17 DEF IInv
<1>8. CASE ~(k.sched.status[t] = "BLOCKED" /\ k.pend[t].from = x)
  <2>1. k' = k /\ todo' = [todo EXCEPT ![TM] = q]
    BY <1>3, <1>4, <1>8, <1>t DEF Visit, Status
  <2>2. todo'[TM] = q /\ todo' \in [Thread -> Seq(Instruction)] /\ Programs'
    BY <1>2, <1>5, <2>1, NewProgram
  <2>3. Typed'
    BY <1>5, <2>1, <2>2 DEF Typed
  <2>4. KernelLives' /\ FreshUnseen' /\ TmWaits' /\ (\A m \in Mail(k) : MailNames(m))'
    BY <1>6, <2>1 DEF KernelLives, FreshUnseen, TmWaits, Mail, IInv
  <2>5. Listed'
    BY <1>o, <1>6, <2>1 DEF Listed
  <2>6. TmProgram'
    <3>1. Visiting(x, p)'
      BY <1>1, <1>q, <2>2 DEF Visiting
    <3>2. Gone(x)'
      BY <1>6, <2>1 DEF Gone
    <3>3. Ending(x, p)'
      BY <3>1, <3>2 DEF Ending
    <3> QED  BY <3>3 DEF TmProgram
  <2>7. FailedReady'
    BY <1>o, <2>1 DEF FailedReady
  <2>8. NoWaitForDead'
    <3>1. ASSUME NEW u \in Thread, WaitsIn(k, u), k.pend[u].from # ANY,
                 ~Exists(k.pend[u].from)
          PROVE  Tells(q, u, k.pend[u].from)
      BY <1>o, <1>8, <3>1 DEF WaitsIn
    <3> QED  BY <1>6, <2>1, <2>2, <3>1, NoWaitFrom
  <2> QED  BY <2>2, <2>3, <2>4, <2>5, <2>6, <2>7, <2>8 DEF IInv
<1> QED  BY <1>7, <1>8

\* TM's last answer keeps the invariant.
LEMMA AnswerStep ==
    ASSUME IInv, NEW r \in Thread \cup {NULL}, NEW id \in AnswerId,
           todo[TM] = Answer(r, id), Step(TM) \/ TmStep
    PROVE  IInv'
<1> DEFINE i == Send(r, id, NULL)
<1>1. /\ i \in Instruction /\ i.do = "send" /\ i.id \notin {"TM_KILL", "TM_EXIT"}
      /\ todo[TM] = Then(i, MainLoop) /\ MainLoop \in Seq(Instruction)
  <2>1. id \in MessageId
    BY DEF AnswerId, MessageId
  <2> QED  BY <2>1, Instructions, MainLoopIs DEF AnswerId, Send, Instr, Answer
<1> HIDE DEF i
<1>2. todo'[TM] = MainLoop /\ (TmProgram' => IInv')
  BY <1>1, Sending
<1> QED  BY <1>2 DEF TmProgram

\* Each step of threadStart keeps the invariant.
LEMMA StartingStep ==
    ASSUME IInv, NEW u \in Users, NEW r \in Thread, Starting(u, r),
           Step(TM) \/ TmStep
    PROVE  IInv'
<1>0. /\ u \in Thread
      /\ HashThen(u, r) \in Seq(Instruction) /\ BuildThen(u, r) \in Seq(Instruction)
      /\ Answer(r, "TM_STARTREPLY") \in Seq(Instruction)
  BY SystemThreads, Forms DEF AnswerId
<1>1. CASE /\ Around(HashThen(u, r)) /\ nextId <= Len(UserIds) /\ u = UserIds[nextId]
  <2>1. CASE todo[TM] = HashThen(u, r)
    BY <1>1, <2>1, HashStep
  <2>2. CASE todo[TM] \in {Then(CallMM, HashThen(u, r)), Then(RecvMM, HashThen(u, r))}
    <3>1. /\ UNCHANGED <<threadList, nextId>> /\ Around(HashThen(u, r))'
          /\ TmProgram' => IInv'
      BY <1>0, <2>2, Asking
    <3>2. Starting(u, r)'
      BY <1>1, <3>1 DEF Starting
    <3> QED  BY <3>1, <3>2 DEF TmProgram
  <2> QED  BY <1>1, <2>1, <2>2 DEF Around
<1>2. CASE Around(BuildThen(u, r)) /\ Exists(u) /\ Absent(k, u)
  <2>1. CASE todo[TM] = BuildThen(u, r)
    BY <1>2, <2>1, BuildStep
  <2>2. CASE todo[TM] \in {Then(CallMM, BuildThen(u, r)), Then(RecvMM, BuildThen(u, r))}
    <3>1. /\ Moves(k', k) /\ UNCHANGED <<threadList, nextId>>
          /\ Around(BuildThen(u, r))'
          /\ TmProgram' => IInv'
      BY <1>0, <2>2, Asking
    <3>2. Exists(u)' /\ Absent(k', u)
      BY <1>0, <1>2, <3>1, SameTables
    <3>3. Starting(u, r)'
      BY <3>1, <3>2 DEF Starting
    <3> QED  BY <3>1, <3>3 DEF TmProgram
  <2> QED  BY <1>2, <2>1, <2>2 DEF Around
<1>3. CASE todo[TM] = ReadyThen(u, r) /\ k.sched.status[u] = "BLOCKED"
  <2> DEFINE q == Answer(r, "TM_STARTREPLY")
  <2>1. /\ todo[TM] = Then(Own("ready", u), q) /\ q \in Seq(Instruction)
        /\ ~Absent(k, u)
    BY <1>0, <1>3 DEF ReadyThen, Absent
  <2>2. todo'[TM] = q => TmProgram'
    BY DEF TmProgram, AnswerId
  <2> HIDE DEF q
  <2> QED  BY <1>0, <2>1, <2>2, ReadyStep
<1> QED  BY <1>1, <1>2, <1>3 DEF Starting

\* The steps of threadDestroy that concern MM keep the invariant.
LEMMA CleanStep ==
    ASSUME IInv, NEW x \in Mortal, NEW p \in Post, Gone(x),
           Around(CleanThen(x, p)), Step(TM) \/ TmStep
    PROVE  IInv'
<1>0. /\ x \in Thread
      /\ CleanThen(x, p) \in Seq(Instruction) /\ FreeThen(x, p) \in Seq(Instruction)
  BY MortalThreads, Forms
<1>1. CASE todo[TM] = CleanThen(x, p)
  <2> DEFINE i == Send(MM, "VM_CLEANUP", NULL)
  <2>1. /\ i \in Instruction /\ i.do = "send" /\ i.id \notin {"TM_KILL", "TM_EXIT"}
        /\ todo[TM] = Then(i, FreeThen(x, p))
    BY <1>1, Instructions DEF Send, Instr, CleanThen
  <2> HIDE DEF i
  <2>2. /\ Moves(k', k) /\ UNCHANGED <<threadList, nextId>>
        /\ todo'[TM] = FreeThen(x, p) /\ (TmProgram' => IInv')
    BY <1>0, <2>1, Sending
  <2>3. Gone(x)'
    BY <1>0, <2>2, SameTables
  <2>4. Ending(x, p)'
    BY <2>2, <2>3 DEF Ending
  <2> QED  BY <2>2, <2>4 DEF TmProgram
<1>2. CASE todo[TM] \in {Then(CallMM, CleanThen(x, p)), Then(RecvMM, CleanThen(x, p))}
  <2>1. /\ Moves(k', k) /\ UNCHANGED <<threadList, nextId>>
        /\ Around(CleanThen(x, p))'
        /\ TmProgram' => IInv'
    BY <1>0, <1>2, Asking
  <2>2. Gone(x)'
    BY <1>0, <2>1, SameTables
  <2>3. Ending(x, p)'
    BY <2>1, <2>2 DEF Ending
  <2> QED  BY <2>1, <2>3 DEF TmProgram
<1> QED  BY <1>1, <1>2 DEF Around

\* p = MainLoop or the answer to a killer.
LEMMA PostStep ==
    ASSUME IInv, NEW p \in Post, todo[TM] = p, Step(TM) \/ TmStep
    PROVE  IInv'
<1>1. CASE p = MainLoop
  <2>1. todo[TM] = Then(Listen, <<Serve>>) /\ <<Serve>> \in Seq(Instruction)
    BY <1>1, MainLoopIs
  <2>2. todo'[TM] = <<Serve>> /\ (TmProgram' => IInv')
    BY <2>1, Receiving
  <2> QED  BY <2>2 DEF TmProgram
<1>2. CASE \E r \in Thread : p = Answer(r, "TM_KILLREPLY")
  BY <1>2, AnswerStep DEF AnswerId
<1> QED  BY <1>1, <1>2 DEF Post

\* Each step of ipcFreeBlockedThreads keeps the invariant.
LEMMA VisitingStep ==
    ASSUME IInv, NEW x \in Mortal, NEW p \in Post, Gone(x), Visiting(x, p),
           Step(TM) \/ TmStep
    PROVE  IInv'
<1>0. x \in Thread /\ p \in Seq(Instruction) /\ Visits(x) \subseteq Instruction
  BY MortalThreads, Forms, Instructions
<1>1. CASE \E v \in Seq(Visits(x)) : todo[TM] = v \o p
  <2>1. PICK v \in Seq(Visits(x)) : todo[TM] = v \o p
    BY <1>1
  <2>2. CASE v = << >>
    <3>1. << >> \o p = p
      BY <1>0, ConcatEmptySeq
    <3> QED  BY <2>1, <2>2, <3>1, PostStep
  <2> QED  BY <2>1, <2>2, VisitStep
<1>2. CASE \E v \in Seq(Visits(x)), t \in Thread :
              todo[TM] = Then(Own("ready", t), v \o p) /\ WaitsIn(k, t)
  <2>1. PICK v \in Seq(Visits(x)), t \in Thread :
              todo[TM] = Then(Own("ready", t), v \o p) /\ WaitsIn(k, t)
    BY <1>2
  <2> DEFINE q == v \o p
  <2>2. v \in Seq(Instruction)
    BY <1>0
  <2>3. q \in Seq(Instruction)
    BY <1>0, <2>2, ConcatProperties
  <2>4. ~Absent(k, t)
    BY <2>1 DEF WaitsIn, Absent
  <2>5. ASSUME \A u \in Thread : Absent(k', u) <=> Absent(k, u), todo'[TM] = q,
               UNCHANGED <<threadList, nextId>>
        PROVE  TmProgram'
    <3>1. Gone(x)'
      BY <1>0, <2>5 DEF Gone, Exists, Fresh
    <3>2. Visiting(x, p)'
      BY <2>5 DEF Visiting
    <3>3. Ending(x, p)'
      BY <3>1, <3>2 DEF Ending
    <3> QED  BY <3>3 DEF TmProgram
  <2>6. todo[TM] = Then(Own("ready", t), q)
    BY <2>1
  <2> HIDE DEF q
  <2> QED  BY <2>3, <2>4, <2>5, <2>6, ReadyStep
<1> QED  BY <1>1, <1>2 DEF Visiting

\* Every step of TM keeps the invariant.
LEMMA TmStepHolds ==
    ASSUME IInv, Step(TM) \/ TmStep
    PROVE  IInv'
<1>1. CASE todo[TM] = <<Serve>>
  BY <1>1, ServingStep
<1>2. CASE todo[TM] = MainLoop
  BY <1>2, PostStep DEF Post
<1>3. CASE \E r \in Thread \cup {NULL}, id \in AnswerId : todo[TM] = Answer(r, id)
  BY <1>3, AnswerStep
<1>4. CASE \E u \in Users, r \in Thread : Starting(u, r)
  BY <1>4, StartingStep
<1>5. ASSUME NEW x \in Mortal, NEW p \in Post, Ending(x, p) PROVE IInv'
  <2>1. CASE todo[TM] = UnhashThen(x, p) /\ Exists(x)
    BY <2>1, UnhashStep
  <2>2. CASE todo[TM] = UnschedThen(x, p) /\ ~Exists(x) /\ ~Fresh(x)
    BY <2>2, UnscheduleStep
  <2>3. CASE Gone(x) /\ Around(CleanThen(x, p))
    BY <2>3, CleanStep
  <2>4. CASE Gone(x) /\ todo[TM] = FreeThen(x, p)
    BY <2>4, FreeStep
  <2>5. CASE Gone(x) /\ Visiting(x, p)
    BY <2>5, VisitingStep
  <2> QED  BY <1>5, <2>1, <2>2, <2>3, <2>4, <2>5 DEF Ending
<1>6. TmProgram
  BY DEF IInv
<1> QED  BY <1>1, <1>2, <1>3, <1>4, <1>5, <1>6 DEF TmProgram

\* A step that changes nothing keeps the invariant.
LEMMA StutterHolds ==
    ASSUME IInv, UNCHANGED vars
    PROVE  IInv'
<1>1. k' = k /\ threadList' = threadList /\ nextId' = nextId /\ todo' = todo
  BY DEF vars
<1>2. \A u : (Exists(u)' <=> Exists(u)) /\ (Fresh(u)' <=> Fresh(u))
  BY <1>1 DEF Exists, Fresh
<1>3. KernelSound(k) /\ todo \in [Thread -> Seq(Instruction)] /\ Programs
  BY DEF IInv, Typed
<1>4. Moves(k', k) /\ ~WaitsIn(k, k.sched.running)
  BY <1>1, <1>3, NothingMoves
<1>5. Programs'
  BY <1>1, <1>3 DEF Programs
<1>6. TmProgram'
  <2>1. \A x : Gone(x)' <=> Gone(x)
    BY <1>1, <1>2 DEF Gone
  <2>2. \A x, p : Visiting(x, p)' <=> Visiting(x, p)
    BY <1>1 DEF Visiting
  <2>3. \A p : Around(p)' <=> Around(p)
    BY <1>1 DEF Around
  <2>4. \A x, p : Ending(x, p)' <=> Ending(x, p)
    BY <1>1, <1>2, <2>1, <2>2, <2>3 DEF Ending
  <2>5. \A u, r : Starting(u, r)' <=> Starting(u, r)
    BY <1>1, <1>2, <2>3 DEF Starting
  <2> QED  BY <1>1, <2>4, <2>5 DEF TmProgram, IInv
<1>7. \A m \in Mail(k') : MailNames(m)
  BY <1>1 DEF IInv
<1>8. TmWaits'
  BY <1>1 DEF IInv, TmWaits
<1> QED  BY <1>1, <1>3, <1>4, <1>5, <1>6, <1>7, <1>8, Carry

\* Every step keeps the invariant.
LEMMA NextHolds ==
    ASSUME IInv, [Next]_vars
    PROVE  IInv'
<1>1. CASE ClockInterrupt
  BY <1>1, ClockStep
<1>2. CASE \E t \in Thread : Step(t)
  <2>1. PICK t \in Thread : Step(t)
    BY <1>2
  <2>2. CASE t = TM
    BY <2>1, <2>2, TmStepHolds
  <2>3. CASE t # TM
    BY <2>1, <2>3, OthersStep
  <2> QED  BY <2>2, <2>3
<1>3. CASE TmStep
  BY <1>3, TmStepHolds
<1>4. CASE UNCHANGED vars
  BY <1>4, StutterHolds
<1> QED  BY <1>1, <1>2, <1>3, <1>4 DEF Next

-----------------------------------------------------------------------------
(* The initial state *)

\* SetToSeq lists every member of a finite set once.
LEMMA SetToSeqLists ==
    ASSUME NEW S, IsFiniteSet(S)
    PROVE  /\ SetToSeq(S) \in Seq(S)
           /\ IsInjective(SetToSeq(S))
           /\ Range(SetToSeq(S)) = S
<1> DEFINE n == Cardinality(S)
           f == SetToSeq(S)
<1>1. n \in Nat /\ \E g \in [1 .. n -> S] : IsInjective(g)
  <2>1. n \in Nat /\ Bijection(1 .. n, S) # {}
    BY FS_CardinalityType DEF ExistsBijection
  <2> QED  BY <2>1 DEF Bijection, Injection
<1>2. f \in [1 .. n -> S] /\ IsInjective(f)
  BY <1>1 DEF SetToSeq
<1> HIDE DEF f
<1>3. f \in Seq(S)
  BY <1>1, <1>2, SeqDef
<1>4. f \in Surjection(1 .. n, S)
  <2>1. f \in Injection(1 .. n, S)
    BY <1>2 DEF Injection
  <2>2. IsFiniteSet(1 .. n) /\ Cardinality(1 .. n) = n
    <3>1. IsFiniteSet(1 .. n) /\ Cardinality(1 .. n) = IF 1 > n THEN 0 ELSE n - 1 + 1
      BY <1>1, FS_Interval
    <3> HIDE DEF n
    <3> QED  BY <1>1, <3>1
  <2> QED  BY <2>1, <2>2, FS_Injection
<1>5. Range(f) = S
  <2>1. f \in [1 .. n -> S] /\ \A t \in S : \E j \in 1 .. n : f[j] = t
    BY <1>4 DEF Surjection
  <2> HIDE DEF n
  <2> QED  BY <2>1 DEF Range
<1> QED  BY <1>2, <1>3, <1>5 DEF f

\* The first user is in front of the threads of the kernel.
LEMMA InitThreads ==
    ASSUME Init
    PROVE  /\ UserIds[1] \in Users
           /\ threadList \in Seq(Thread) /\ IsInjective(threadList)
           /\ Range(threadList) = {UserIds[1]} \cup Known
           /\ \A j \in 2 .. Len(UserIds) :
                 UserIds[j] \in Users /\ UserIds[j] # UserIds[1]
<1> DEFINE u == UserIds[1]
           l == SetToSeq(Known)
<1>1. /\ UserIds \in Seq(Thread) /\ IsInjective(UserIds) /\ UserIds # << >>
      /\ IsFiniteSet(Drivers)
  BY IPCAssumption
<1>2. Len(UserIds) \in Nat \ {0} /\ DOMAIN UserIds = 1 .. Len(UserIds)
  BY <1>1, EmptySeq, LenProperties
<1>3. \A j \in 1 .. Len(UserIds) : UserIds[j] \in Users
  BY <1>2 DEF Users, Range
<1>4. u \in Users /\ \A j \in 2 .. Len(UserIds) : UserIds[j] \in Users /\ UserIds[j] # u
  BY <1>1, <1>2, <1>3 DEF IsInjective
<1>5. IsFiniteSet(Known)
  <2>1. IsFiniteSet(Drivers \cup {TM})
    BY <1>1, FS_AddElement
  <2>2. IsFiniteSet((Drivers \cup {TM}) \cup {MM})
    BY <2>1, FS_AddElement
  <2>3. IsFiniteSet(((Drivers \cup {TM}) \cup {MM}) \cup {Idle})
    BY <2>2, FS_AddElement
  <2>4. Known = ((Drivers \cup {TM}) \cup {MM}) \cup {Idle}
    BY DEF Known
  <2> QED  BY <2>3, <2>4
<1>6. l \in Seq(Known) /\ IsInjective(l) /\ Range(l) = Known
  BY <1>5, SetToSeqLists
<1>7. u \in Thread /\ u \notin Known /\ Known \subseteq Thread
  BY <1>4, SystemThreads DEF Known
<1>8. threadList = Cons(u, l)
  BY DEF Init, Cons
<1> HIDE DEF u, l
<1>9. l \in Seq(Thread)
  BY <1>6, <1>7
<1>10. /\ threadList \in Seq(Thread) /\ IsInjective(threadList)
       /\ Range(threadList) = Known \cup {u}
  BY <1>6, <1>7, <1>8, <1>9, ConsDistinct
<1> QED  BY <1>4, <1>10 DEF u

Waiting == [status |-> "WAITING", from |-> ANY, id |-> "ANYMSGTYPE"]

\* The initial state, field by field.
LEMMA InitFields ==
    ASSUME Init
    PROVE  /\ k.sched.running = UserIds[1]
           /\ k.sched.status =
                [t \in Thread |-> CASE t = UserIds[1] -> "RUNNING"
                                    [] t = Idle -> "READY"
                                    [] t \in {TM, MM} \cup Drivers -> "BLOCKED"
                                    [] OTHER -> "ABSENT"]
           /\ k.sched.ready = [p \in Priority |-> CASE p = 1 -> <<UserIds[1]>>
                                                    [] p = 2 -> <<Idle>>
                                                    [] OTHER -> << >>]
           /\ k.sched.blocked =
                [p \in Priority |-> IF p = 0 THEN {t \in Thread : t \in {TM, MM} \cup Drivers}
                                             ELSE {}]
           /\ k.queue = [t \in Thread |-> << >>]
           /\ k.pend = [t \in Thread |-> IF t \in {TM, MM} \cup Drivers
                                         THEN Waiting ELSE NotWaiting]
           /\ k.inbox = [t \in Thread |-> Empty]
           /\ k.ret = [t \in Thread |-> "OK"]
           /\ k.sched = [running |-> k.sched.running, status |-> k.sched.status,
                         ready |-> k.sched.ready, blocked |-> k.sched.blocked]
           /\ k = [sched |-> k.sched, queue |-> k.queue, pend |-> k.pend,
                   inbox |-> k.inbox, ret |-> k.ret]
           /\ nextId = 2
           /\ todo = [t \in Thread |-> IF t \in {TM, MM} \cup Drivers
                                       THEN <<Serve>> ELSE << >>]
BY DEF Init, Waiting, Serve

\* Who runs, is ready or sleeps at the start, and who does not exist yet.
LEMMA InitStatus ==
    ASSUME Init, NEW t \in Thread
    PROVE  /\ k.sched.status[t] = "RUNNING" <=> t = UserIds[1]
           /\ k.sched.status[t] = "READY" <=> t = Idle
           /\ k.sched.status[t] = "BLOCKED" <=> t \in {TM, MM} \cup Drivers
           /\ k.sched.status[t] = "ABSENT" <=> t \in Users \ {UserIds[1]}
           /\ k.sched.status[t] \in SchedStatus
<1>1. UserIds[1] \in Users
  BY InitThreads
<1>2. k.sched.status[t] = CASE t = UserIds[1] -> "RUNNING"
                            [] t = Idle -> "READY"
                            [] t \in {TM, MM} \cup Drivers -> "BLOCKED"
                            [] OTHER -> "ABSENT"
  BY InitFields
<1>3. CASE t = UserIds[1]
  <2>1. t # Idle /\ t \notin {TM, MM} \cup Drivers
    BY <1>1, <1>3, SystemThreads
  <2>2. k.sched.status[t] = "RUNNING"
    BY <1>2, <1>3, <2>1
  <2> QED  BY <1>1, <1>3, <2>1, <2>2 DEF SchedStatus
<1>4. CASE t = Idle
  <2>1. t # UserIds[1] /\ t \notin {TM, MM} \cup Drivers /\ t \notin Users
    BY <1>1, <1>4, SystemThreads
  <2>2. k.sched.status[t] = "READY"
    BY <1>2, <1>4, <2>1
  <2> QED  BY <1>4, <2>1, <2>2 DEF SchedStatus
<1>5. CASE t \in {TM, MM} \cup Drivers
  <2>1. t # UserIds[1] /\ t # Idle /\ t \notin Users
    BY <1>1, <1>5, SystemThreads
  <2>2. k.sched.status[t] = "BLOCKED"
    BY <1>2, <1>5, <2>1
  <2> QED  BY <1>5, <2>1, <2>2 DEF SchedStatus
<1>6. CASE t \in Users \ {UserIds[1]}
  <2>1. t # Idle /\ t \notin {TM, MM} \cup Drivers
    BY <1>6, SystemThreads
  <2>2. k.sched.status[t] = "ABSENT"
    BY <1>2, <1>6, <2>1
  <2> QED  BY <1>6, <2>1, <2>2 DEF SchedStatus
<1> QED  BY <1>3, <1>4, <1>5, <1>6, SystemThreads

\* The scheduler's lists are sound at the start.
LEMMA InitLists ==
    ASSUME Init
    PROVE  SchedSound(k.sched)
<1> DEFINE s == k.sched
           u == UserIds[1]
           W == {TM, MM} \cup Drivers
<1>1. /\ u \in Users /\ u \in Thread /\ u # Idle /\ Idle \in Thread /\ W \subseteq Thread
      /\ \A t \in Thread : PriorityOf[t] = CASE t = Idle     -> 2
                                             [] t \in Users  -> 1
                                             [] OTHER        -> 0
  BY InitThreads, SystemThreads, IPCAssumption
<1>2. /\ \A t \in Thread : s.status[t] = "RUNNING" <=> t = u
      /\ \A t \in Thread : s.status[t] = "READY" <=> t = Idle
      /\ \A t \in Thread : s.status[t] = "BLOCKED" <=> t \in W
      /\ s.status \in [Thread -> SchedStatus] /\ s.running = u
  <2>1. \A t \in Thread : s.status[t] \in SchedStatus
    BY InitStatus
  <2>2. DOMAIN s.status = Thread /\ s.status = [t \in Thread |-> s.status[t]]
    BY InitFields
  <2>3. s.running = u
    BY InitFields
  <2> QED  BY <2>1, <2>2, <2>3, InitStatus
<1>3. /\ PriorityOf[u] = 1 /\ PriorityOf[Idle] = 2
      /\ \A t \in W : PriorityOf[t] = 0
  BY <1>1, SystemThreads, Levels
<1>4. /\ s.ready = [p \in Priority |-> CASE p = 1 -> <<u>>
                                         [] p = 2 -> <<Idle>>
                                         [] OTHER -> << >>]
      /\ s.blocked = [p \in Priority |-> IF p = 0 THEN {t \in Thread : t \in W} ELSE {}]
      /\ s = [running |-> s.running, status |-> s.status,
              ready |-> s.ready, blocked |-> s.blocked]
  BY InitFields
<1> HIDE DEF s, u, W
<1>5. s \in Scheduler
  <2>1. s.ready \in [Priority -> Seq(Thread)]
    BY <1>1, <1>4
  <2>2. s.blocked \in [Priority -> SUBSET Thread]
    BY <1>4
  <2> QED  BY <1>1, <1>2, <1>4, <2>1, <2>2 DEF Scheduler
<1>6. ASSUME NEW p \in Priority PROVE LevelAgrees(s, p)
  <2>1. /\ s.ready[p] = CASE p = 1 -> <<u>> [] p = 2 -> <<Idle>> [] OTHER -> << >>
        /\ s.blocked[p] = IF p = 0 THEN W ELSE {}
    <3>1. {t \in Thread : t \in W} = W
      BY <1>1
    <3>2. s.ready[p] = CASE p = 1 -> <<u>> [] p = 2 -> <<Idle>> [] OTHER -> << >>
      BY <1>4, Zenon
    <3> QED  BY <1>4, <3>1, <3>2
  <2>2. s.blocked[p] = {t \in Thread : s.status[t] = "BLOCKED" /\ PriorityOf[t] = p}
    BY <1>1, <1>2, <1>3, <2>1
  <2>3. \A t \in Thread : Active(s, t) <=> t \in {u, Idle}
    BY <1>2 DEF Active
  <2>4. IsInjective(s.ready[p]) /\ Range(s.ready[p]) =
            IF p = 1 THEN {u} ELSE IF p = 2 THEN {Idle} ELSE {}
    <3>1. CASE p = 1
      <4>1. s.ready[p] = <<u>>
        BY <2>1, <3>1
      <4> QED  BY <3>1, <4>1 DEF IsInjective, Range
    <3>2. CASE p = 2
      <4>1. s.ready[p] = <<Idle>>
        BY <2>1, <3>2
      <4> QED  BY <3>2, <4>1 DEF IsInjective, Range
    <3>3. CASE p # 1 /\ p # 2
      <4>1. s.ready[p] = << >>
        BY <2>1, <3>3
      <4> QED  BY <3>3, <4>1 DEF IsInjective, Range
    <3> QED  BY <3>1, <3>2, <3>3
  <2>5. Range(s.ready[p]) = {t \in Thread : Active(s, t) /\ PriorityOf[t] = p}
    BY <1>1, <1>3, <2>3, <2>4
  <2> QED  BY <2>2, <2>4, <2>5 DEF LevelAgrees
<1> QED  BY <1>1, <1>2, <1>3, <1>5, <1>6 DEF SchedSound, ListsAgree, Active, s

\* The invariant holds at the start.
LEMMA InitHolds ==
    ASSUME Init
    PROVE  IInv
<1>1. KernelSound(k)
  <2>1. k \in KernelState
    <3>1. k.sched \in Scheduler
      BY InitLists DEF SchedSound
    <3>2. k.queue \in [Thread -> Seq(Message)]
      <4>1. k.queue = [t \in Thread |-> << >>]
        BY InitFields
      <4> QED  BY <4>1
    <3>3. k.pend \in [Thread -> PendingRecord]
      <4>1. Waiting \in PendingRecord
        BY DEF Waiting, PendingRecord, MessageId
      <4> QED  BY <4>1, NotWaitingType, InitFields
    <3>4. k.inbox \in [Thread -> Message \cup {Empty}] /\ k.ret \in [Thread -> {"OK", "FAILED"}]
      BY InitFields
    <3>5. k = [sched |-> k.sched, queue |-> k.queue, pend |-> k.pend,
               inbox |-> k.inbox, ret |-> k.ret]
      BY InitFields
    <3> QED  BY <3>1, <3>2, <3>3, <3>4, <3>5 DEF KernelState, PendingRecord
  <2>2. \A t \in Thread : ~Active(k.sched, t) => WaitsIn(k, t) \/ k.pend[t] = NotWaiting
    BY InitStatus, InitFields DEF WaitsIn, Waiting, Active
  <2>3. \A t \in Thread : k.queue[t] = << >>
    BY InitFields
  <2>4. NoneMissed(k)
    BY <2>3 DEF NoneMissed
  <2> QED  BY <2>1, <2>2, <2>4, InitLists DEF KernelSound
<1>2. nextId = 2 /\ nextId \in Nat \ {0}
  BY InitFields
<1>t. todo = [t \in Thread |-> IF t \in {TM, MM} \cup Drivers THEN <<Serve>> ELSE << >>]
  BY InitFields
<1>3. Typed
  <2>1. todo \in [Thread -> Seq(Instruction)]
    <3>1. << >> \in Seq(Instruction)
      OBVIOUS
    <3> QED  BY <1>t, <3>1, MainLoopIs
  <2> QED  BY <1>1, <1>2, <2>1, InitThreads DEF Typed
<1>4. Programs
  <2>1. todo[Idle] = << >> /\ todo[MM] = <<Serve>> /\ \A d \in Drivers : todo[d] = <<Serve>>
    BY <1>t, SystemThreads
  <2>2. <<Serve>> \in Seq(DriverInstruction)
    BY DEF DriverInstruction, ServerInstruction
  <2> QED  BY <2>1, <2>2, MainLoopIs DEF Programs
<1>5. \A t \in Thread : /\ Exists(t) <=> t = UserIds[1] \/ t \in Known
                        /\ Absent(k, t) <=> ~(t = UserIds[1] \/ t \in Known)
  BY InitThreads, InitStatus, SystemThreads DEF Exists, Absent, Known
<1>6. KernelLives
  BY <1>5, SystemThreads DEF KernelLives, Known
<1>7. FreshUnseen
  <2>1. ASSUME NEW u \in Users, Fresh(u) PROVE ~Exists(u) /\ Absent(k, u)
    <3>1. u # UserIds[1]
      BY <1>2, <2>1, InitThreads DEF Fresh
    <3>2. u \in Thread /\ u \notin Known
      BY SystemThreads DEF Known
    <3> QED  BY <1>5, <3>1, <3>2
  <2> QED  BY <2>1 DEF FreshUnseen
<1>8. Listed
  BY <1>5 DEF Listed
<1>9. TmProgram
  BY InitFields, SystemThreads DEF TmProgram
<1>10. \A t \in Thread : WaitsIn(k, t) => k.pend[t] = Waiting /\ k.ret[t] = "OK"
  BY InitStatus, InitFields DEF WaitsIn, NotWaiting
<1>11. TmWaits
  BY <1>10, SystemThreads DEF TmWaits, Waiting
<1>12. FailedReady
  BY <1>10 DEF FailedReady
<1>13. NoWaitForDead
  BY <1>10 DEF NoWaitForDead, Waits, WaitsIn, Status, Waiting
<1>14. \A m \in Mail(k) : MailNames(m)
  BY InitFields, SystemThreads DEF Mail, MailNames, Empty, Range
<1> QED  BY <1>3, <1>4, <1>6, <1>7, <1>8, <1>9, <1>11, <1>12, <1>13, <1>14 DEF IInv

\* The invariant holds for ever.
THEOREM Inductive == Spec => []IInv
BY InitHolds, NextHolds, PTL DEF Spec

-----------------------------------------------------------------------------
(* The properties *)

\* A thread does not sleep on a message that is in its queue already (kRecv
\* looks there before it blocks, and kSend puts nothing there that the thread
\* waits for), for every number of threads and length of queues.
THEOREM NeverMissed == Spec => []NoLostWakeup
<1>1. ASSUME IInv PROVE NoLostWakeup
  <2> SUFFICES ASSUME NEW t \in Thread, WaitsIn(k, t)
               PROVE  FirstMatch(k.queue[t], k.pend[t].from, k.pend[t].id) = 0
    BY DEF NoLostWakeup, Waits, WaitsIn, Status
  <2>1. /\ k.queue[t] \in Seq(Message)
        /\ \A i \in 1 .. Len(k.queue[t]) :
              ~Matches(k.queue[t][i], k.pend[t].from, k.pend[t].id)
    BY <1>1, KernelFields DEF IInv, Typed, KernelSound, NoneMissed
  <2> DEFINE i == FirstMatch(k.queue[t], k.pend[t].from, k.pend[t].id)
  <2>2. i = 0 \/ (i \in 1 .. Len(k.queue[t]) /\
                    Matches(k.queue[t][i], k.pend[t].from, k.pend[t].id))
    BY <2>1, FirstMatchFinds
  <2> QED  BY <2>1, <2>2
<1> QED  BY <1>1, Inductive, PTL

\* Whoever waits for a thread that is gone is still to be told so by
\* ipcFreeBlockedThreads.
THEOREM NobodyForgotten == Spec => []NoWaitForDead
<1>1. IInv => NoWaitForDead
  BY DEF IInv
<1> QED  BY <1>1, Inductive, PTL

\* Nothing that user threads ask TM for ends a thread of the kernel, TM itself
\* included (threadKill, threadDestroy and threadExit).
THEOREM KernelSurvives == Spec => []KernelLives
<1>1. IInv => KernelLives
  BY DEF IInv
<1> QED  BY <1>1, Inductive, PTL

\* The scheduler knows no thread that is not in threadList, but for the moment
\* between the two removals of threadDestroy.
THEOREM ListsMatch == Spec => []Listed
<1>1. IInv => Listed
  BY DEF IInv
<1> QED  BY <1>1, Inductive, PTL

\* Each system call wakes none but a thread that asked for its message, or
\* leaves the lists alone.
LEMMA StepMoves ==
    ASSUME IInv, NEW t \in Thread, Step(t)
    PROVE  Moves(k', k)
<1>1. k.sched.running = t
  BY DEF Step, running
<1>2. PICK i \in NextInstr(t) :
          \/ SendStep(t, i) \/ RecvStep(t, i) \/ ExitStep(t, i)
          \/ FaultStep(t, i) \/ YieldStep(t, i) \/ ServeStep(t, i)
  BY DEF Step
<1>3. i \in Instruction /\ t # Idle
  <2>1. CASE t = TM
    <3>1. todo[TM] \in Seq(Instruction) /\ TM \notin Users \cup Drivers
      BY SystemThreads DEF IInv, Typed
    <3>2. todo[TM] # << >> /\ i = Head(todo[TM])
      BY <1>2, <2>1, <3>1 DEF NextInstr
    <3> QED  BY <2>1, <3>1, <3>2, HeadTailProperties, SystemThreads
  <2>2. CASE t # TM
    BY <1>2, <2>2, Executes
  <2> QED  BY <2>1, <2>2
<1>4. /\ i.id \in MessageId /\ i.arg \in Thread \cup {NULL}
      /\ i.do = "recv" => i.to \in Thread \cup {ANY}
  BY <1>3 DEF Instruction
<1>5. KernelSound(k)
  BY DEF IInv, Typed
<1>6. CASE SendStep(t, i)
  <2> DEFINE m == [from |-> t, id |-> i.id, arg |-> i.arg]
  <2>1. m \in Message /\ m.from = k.sched.running
    BY <1>1, <1>4 DEF Message
  <2>2. k' = kSend(k, i.to, m)
    BY <1>6 DEF SendStep
  <2> HIDE DEF m
  <2> QED  BY <2>1, <2>2, SendMoves
<1>7. CASE RecvStep(t, i)
  <2>1. k' = kRecv(k, t, i.to, i.id) /\ i.do = "recv"
    BY <1>7 DEF RecvStep
  <2> QED  BY <1>1, <1>3, <1>4, <1>5, <2>1, RecvMoves
<1>8. CASE ExitStep(t, i)
  <2> DEFINE m == [from |-> t, id |-> "TM_EXIT", arg |-> NULL]
  <2>1. m \in Message /\ m.from = k.sched.running
    BY <1>1 DEF Message, MessageId
  <2>2. k' = kSend(k, TM, m)
    BY <1>8 DEF ExitStep
  <2> HIDE DEF m
  <2> QED  BY <2>1, <2>2, SendMoves
<1>9. CASE FaultStep(t, i)
  <2>1. PICK f \in {TM, MM} :
            k' = kSend(k, TM, [from |-> f, id |-> "TM_KILL", arg |-> t])
    BY <1>9 DEF FaultStep
  <2> DEFINE m == [from |-> f, id |-> "TM_KILL", arg |-> t]
  <2>2. m \in Message /\ m.id = "TM_KILL"
    BY SystemThreads DEF Message, MessageId
  <2>3. k' = kSend(k, TM, m)
    BY <2>1
  <2> HIDE DEF m
  <2> QED  BY <2>2, <2>3, SendMoves
<1>10. CASE YieldStep(t, i)
  <2>1. k' = Reschedule(k)
    BY <1>10 DEF YieldStep
  <2> QED  BY <1>5, <2>1, TickMoves
<1>11. CASE ServeStep(t, i)
  <2>1. k' = [k EXCEPT !.inbox[t] = Empty]
    BY <1>11 DEF ServeStep
  <2> QED  BY <1>1, <1>5, <2>1, ServeMoves
<1> QED  BY <1>2, <1>6, <1>7, <1>8, <1>9, <1>10, <1>11

\* Of TM's programs that start with "ready", one wakes a waiting thread: it has
\* been told that the thread it waits for is gone.
LEMMA ReadyForm ==
    ASSUME IInv, NEW t \in Thread, WaitsIn(k, t),
           Head(todo[TM]).do = "ready", Head(todo[TM]).to = t
    PROVE  /\ k.ret[t] = "FAILED"
           /\ k.pend[t].from # ANY /\ ~Exists(k.pend[t].from)
<1>0. Head(todo[TM]).do = "ready" /\ Head(todo[TM]).to = t
  OBVIOUS
<1>1. \A i \in Instruction, q \in Seq(Instruction) :
          todo[TM] = Then(i, q) => i.do = "ready" /\ i.to = t
  BY <1>0, ThenProperties
<1>2. todo[TM] # <<Serve>> /\ todo[TM] # MainLoop
  <2>1. Listen.do = "recv" /\ Serve.do = "serve"
    BY DEF Listen, Recv, Serve, Own, Instr
  <2> QED  BY <1>0, <2>1, MainLoopIs
<1>3. ASSUME NEW r \in Thread \cup {NULL}, NEW id \in AnswerId
      PROVE  todo[TM] # Answer(r, id)
  <2>1. Send(r, id, NULL) \in Instruction
    <3>1. id \in MessageId
      BY DEF AnswerId, MessageId
    <3> QED  BY <3>1, Instructions
  <2>2. Send(r, id, NULL).do = "send"
    BY DEF Send, Instr
  <2> QED  BY <1>1, <2>1, <2>2, MainLoopIs DEF Answer
<1>4. ASSUME NEW p \in Post PROVE todo[TM] # p
  BY <1>2, <1>3 DEF Post, AnswerId
<1>5. ASSUME NEW p \in Seq(Instruction)
      PROVE  todo[TM] \notin {Then(CallMM, p), Then(RecvMM, p)}
  <2>1. CallMM.do = "call" /\ RecvMM.do = "recv"
    BY DEF CallMM, Call, RecvMM, Recv, Instr
  <2> QED  BY <1>1, <2>1, Instructions
<1>6. ASSUME NEW u \in Users, NEW r \in Thread PROVE ~Starting(u, r)
  <2>1. /\ u \in Thread
        /\ HashThen(u, r) \in Seq(Instruction) /\ BuildThen(u, r) \in Seq(Instruction)
        /\ Then(CallMM, BuildThen(u, r)) \in Seq(Instruction)
        /\ ReadyThen(u, r) \in Seq(Instruction)
        /\ Answer(r, "TM_STARTREPLY") \in Seq(Instruction)
    BY SystemThreads, Forms DEF AnswerId
  <2>2. /\ Own("hash", u) \in Instruction /\ Own("build", u) \in Instruction
        /\ Own("ready", u) \in Instruction
    BY <2>1, Instructions
  <2>3. /\ Own("hash", u).do = "hash" /\ Own("build", u).do = "build"
        /\ Own("ready", u).to = u
    BY DEF Own, Instr
  <2>4. todo[TM] # HashThen(u, r)
    BY <1>1, <2>1, <2>2, <2>3 DEF HashThen
  <2>5. todo[TM] # BuildThen(u, r)
    BY <1>1, <2>1, <2>2, <2>3 DEF BuildThen
  <2>6. todo[TM] = ReadyThen(u, r) => u = t
    BY <1>1, <2>1, <2>2, <2>3 DEF ReadyThen
  <2> QED  BY <1>5, <2>1, <2>4, <2>5, <2>6 DEF Starting, Around
<1>7. PICK x \in Mortal, p \in Post : Ending(x, p)
  BY <1>2, <1>3, <1>6 DEF IInv, TmProgram
<1>8. /\ x \in Thread /\ x # ANY /\ p \in Seq(Instruction)
      /\ Visits(x) \subseteq Instruction
      /\ CleanThen(x, p) \in Seq(Instruction) /\ FreeThen(x, p) \in Seq(Instruction)
      /\ Then(CallMM, CleanThen(x, p)) \in Seq(Instruction)
      /\ UnschedThen(x, p) \in Seq(Instruction)
  BY MortalThreads, Forms, Instructions
<1>9. /\ Own("unhash", x) \in Instruction /\ Own("unschedule", x) \in Instruction
      /\ Own("freeblocked", x) \in Instruction
      /\ Send(MM, "VM_CLEANUP", NULL) \in Instruction
      /\ Own("unhash", x).do = "unhash" /\ Own("unschedule", x).do = "unschedule"
      /\ Own("freeblocked", x).do = "freeblocked"
      /\ Send(MM, "VM_CLEANUP", NULL).do = "send"
  <2>1. /\ Own("unhash", x).do = "unhash" /\ Own("unschedule", x).do = "unschedule"
        /\ Own("freeblocked", x).do = "freeblocked"
        /\ Send(MM, "VM_CLEANUP", NULL).do = "send"
    BY DEF Own, Send, Instr
  <2> QED  BY <1>8, <2>1, Instructions
<1>10. todo[TM] # UnhashThen(x, p)
  BY <1>1, <1>8, <1>9 DEF UnhashThen
<1>11. todo[TM] # UnschedThen(x, p)
  BY <1>1, <1>8, <1>9 DEF UnschedThen
<1>12. todo[TM] # FreeThen(x, p)
  BY <1>1, <1>8, <1>9 DEF FreeThen
<1>13. ~Around(CleanThen(x, p))
  <2>1. todo[TM] # CleanThen(x, p)
    BY <1>1, <1>8, <1>9 DEF CleanThen
  <2> QED  BY <1>5, <1>8, <2>1 DEF Around
<1>14. Gone(x) /\ Visiting(x, p)
  BY <1>7, <1>10, <1>11, <1>12, <1>13 DEF Ending
<1>15. ASSUME NEW v \in Seq(Visits(x)) PROVE todo[TM] # v \o p
  <2>1. CASE v = << >>
    <3>1. << >> \o p = p
      BY <1>8, ConcatEmptySeq
    <3> QED  BY <1>4, <2>1, <3>1
  <2>2. CASE v # << >>
    <3>1. Head(v) \in Visits(x)
      BY <2>2, HeadTailProperties
    <3>2. \A h \in Visits(x) : h.do = "visit"
      BY DEF Visits, Instr
    <3>3. v \in Seq(Instruction)
      BY <1>8
    <3>4. Head(v \o p) = Head(v)
      BY <1>8, <2>2, <3>3, HeadTailConcat
    <3> QED  BY <1>0, <3>1, <3>2, <3>4
  <2> QED  BY <2>1, <2>2
<1>16. PICK v \in Seq(Visits(x)), y \in Thread :
          /\ todo[TM] = Then(Own("ready", y), v \o p)
          /\ k.ret[y] = "FAILED" /\ k.pend[y].from = x
  BY <1>14, <1>15 DEF Visiting
<1>17. y = t
  <2>1. v \in Seq(Instruction)
    BY <1>8
  <2>2. v \o p \in Seq(Instruction)
    BY <1>8, <2>1, ConcatProperties
  <2>3. Own("ready", y) \in Instruction /\ Own("ready", y).to = y
    BY Instructions DEF Own, Instr
  <2> QED  BY <1>1, <1>16, <2>2, <2>3
<1> QED  BY <1>8, <1>14, <1>16, <1>17 DEF Gone

Reason(t) ==
    \/ /\ k'.ret[t] = "OK"
       /\ Matches(k'.inbox[t], k.pend[t].from, k.pend[t].id)
    \/ /\ k'.ret[t] = "FAILED"
       /\ k.pend[t].from # ANY /\ ~Exists(k.pend[t].from)

\* A handler wakes a thread with a message that it asked for.
LEMMA MovesGiveReason ==
    ASSUME IInv, Moves(k', k),
           NEW t \in Thread, WaitsIn(k, t), Active(k'.sched, t)
    PROVE  Reason(t)
<1>1. /\ k'.ret[t] = k.ret[t]
      /\ k.pend[t].from \in {ANY, k.sched.running}
      /\ Matches(k'.inbox[t], k.pend[t].from, k.pend[t].id)
  BY DEF Moves, WaitsIn, Active
<1>2. k.ret[t] \in {"OK", "FAILED"}
  BY KernelFields DEF IInv, Typed, KernelSound
<1>3. CASE k.ret[t] = "OK"
  BY <1>1, <1>3 DEF Reason
<1>4. CASE k.ret[t] = "FAILED"
  <2>1. k.pend[t].from \in Mortal /\ ~Exists(k.pend[t].from)
    BY <1>4 DEF IInv, FailedReady
  <2> QED  BY <1>1, <1>4, <2>1, MortalThreads DEF Reason
<1> QED  BY <1>2, <1>3, <1>4

\* TM wakes a waiting thread only to tell it of a failure.
LEMMA TmGivesReason ==
    ASSUME IInv, TmStep, NEW t \in Thread, WaitsIn(k, t), Active(k'.sched, t)
    PROVE  Reason(t)
<1>1. PICK i \in NextInstr(TM) :
        \/ Hash(i) \/ Build(i) \/ Ready(i) \/ Unhash(i) \/ Unschedule(i)
        \/ FreeBlocked(i) \/ Visit(i)
  BY DEF TmStep
<1>2. i = Head(todo[TM]) /\ i \in Instruction
  <2>1. todo[TM] \in Seq(Instruction) /\ TM \notin Users \cup Drivers
    BY SystemThreads DEF IInv, Typed
  <2>2. todo[TM] # << >> /\ i = Head(todo[TM])
    BY <1>1, <2>1 DEF NextInstr
  <2> QED  BY <2>1, <2>2, HeadTailProperties
<1>3. /\ k \in KernelState /\ k.sched \in Scheduler
      /\ k.sched.status \in [Thread -> SchedStatus]
      /\ k.sched.status[t] = "BLOCKED"
  BY KernelFields DEF IInv, Typed, KernelSound, Scheduler, WaitsIn
<1>4. k'.sched.status[t] # "BLOCKED" /\ k'.sched.status[t] # "ABSENT"
  BY DEF Active
<1>5. k' # k
  BY <1>3, <1>4
<1>6. ~Build(i)
  <2>1. SUFFICES ASSUME Build(i) PROVE FALSE
    OBVIOUS
  <2>2. k'.sched = schedulerInsert(k.sched, i.to)
    BY <1>3, <2>1 DEF Build, KernelState
  <2>3. k'.sched.status = [k.sched.status EXCEPT ![i.to] = "BLOCKED"]
    BY <1>3, <2>2 DEF schedulerInsert, Scheduler
  <2> QED  BY <1>3, <1>4, <2>3
<1>7. ~Unschedule(i)
  <2>1. SUFFICES ASSUME Unschedule(i) PROVE FALSE
    OBVIOUS
  <2>2. k' = Unscheduled(k, i.to)
    BY <2>1 DEF Unschedule, Unscheduled
  <2>3. k'.sched = schedulerRemove(k.sched, i.to)
    BY <1>3, <2>2 DEF Unscheduled, KernelState
  <2>4. \/ k'.sched.status = k.sched.status
        \/ k'.sched.status = [k.sched.status EXCEPT ![i.to] = "ABSENT"]
    BY <1>3, <2>3 DEF schedulerRemove, Scheduler
  <2> QED  BY <1>3, <1>4, <2>4
<1>8. ~Visit(i)
  <2>1. Visit(i) => k' = k \/ k' = [k EXCEPT !.ret[i.to] = "FAILED"]
    BY DEF Visit
  <2>2. ~(k' = [k EXCEPT !.ret[i.to] = "FAILED"])
    <3>1. [k EXCEPT !.ret[i.to] = "FAILED"].sched = k.sched
      BY <1>3 DEF KernelState
    <3> QED  BY <1>3, <1>4, <3>1
  <2> QED  BY <1>5, <2>1, <2>2
<1>9. Ready(i)
  BY <1>1, <1>5, <1>6, <1>7, <1>8 DEF Hash, Unhash, FreeBlocked
<1>10. /\ i.do = "ready" /\ k' = [k EXCEPT !.sched = schedulerSetReady(@, i.to)]
  BY <1>9 DEF Ready
<1>11. /\ k'.sched = schedulerSetReady(k.sched, i.to) /\ k'.ret = k.ret
  BY <1>3, <1>10 DEF KernelState
<1>12. i.to = t
  <2>1. \/ k'.sched = k.sched
        \/ k'.sched.status = [k.sched.status EXCEPT ![i.to] = "READY"]
    BY <1>3, <1>11 DEF schedulerSetReady, SwapToReady, Scheduler
  <2> QED  BY <1>3, <1>4, <2>1
<1> QED  BY <1>2, <1>10, <1>11, <1>12, ReadyForm DEF Reason

\* A thread that waits is woken with a message that it asked for, or because
\* the thread it waited for is gone: the handlers and ipcFreeBlockedThreads
\* leave no third way.
THEOREM WokenRightly == Spec => WokenForAReason
<1>1. ASSUME IInv, [Next]_vars,
             NEW t \in Thread, WaitsIn(k, t), Active(k'.sched, t)
      PROVE  Reason(t)
  <2>1. CASE ClockInterrupt
    <3>1. Moves(k', k)
      BY <1>1, <2>1, TickMoves DEF ClockInterrupt, IInv, Typed
    <3> QED  BY <1>1, <3>1, MovesGiveReason
  <2>2. CASE \E u \in Thread : Step(u)
    BY <1>1, <2>2, StepMoves, MovesGiveReason
  <2>3. CASE TmStep
    BY <1>1, <2>3, TmGivesReason
  <2>4. CASE UNCHANGED vars
    BY <1>1, <2>4 DEF vars, WaitsIn, Active
  <2> QED  BY <1>1, <2>1, <2>2, <2>3, <2>4 DEF Next
<1>2. IInv /\ [Next]_vars =>
        [\A t \in Thread :
            Waits(t) /\ Status(t)' \in {"READY", "RUNNING"} =>
                \/ /\ k'.ret[t] = "OK"
                   /\ Matches(k'.inbox[t], k.pend[t].from, k.pend[t].id)
                \/ /\ k'.ret[t] = "FAILED"
                   /\ k.pend[t].from # ANY /\ ~Exists(k.pend[t].from)]_vars
  <2> SUFFICES ASSUME IInv, [Next]_vars,
                      NEW t \in Thread, Waits(t), Status(t)' \in {"READY", "RUNNING"}
               PROVE  Reason(t)
    BY DEF Reason
  <2>1. WaitsIn(k, t) /\ Active(k'.sched, t)
    BY DEF Waits, WaitsIn, Status, Active
  <2> QED  BY <1>1, <2>1
<1> QED  BY <1>2, Inductive, PTL DEF Spec, WokenForAReason

-----------------------------------------------------------------------------
(* TM and the servers before the users: the invariant *)

\* No driver has faulted.
NoDriverFaults == \A d \in Drivers : todo[d] # <<Own("fault", NULL)>>

Sleeps(t)  == k.sched.status[t] = "BLOCKED"
Resting(t) == /\ Sleeps(t) /\ k.pend[t] = Waiting
              /\ todo[t] = <<Serve>> /\ k.queue[t] = << >>
\* t has been given a message that it is about to look at.
Holds(t)   == ~Sleeps(t) /\ todo[t] = <<Serve>>

\* MM's and the drivers' programs: the main loop, and an answer before it.
ReplyId(s)    == IF s = MM THEN "VM_REPLY" ELSE "IO_REPLY"
Returns(s, r) == Then(Send(r, ReplyId(s), NULL), MainLoop)

\* What TM sends to MM, and what any server is asked for.
FromTm(m) == m.from = TM /\ m.id \in {"VM_CALL", "VM_CLEANUP", "TM_KILLREPLY"}
Request(s, m) ==
    \/ s = MM /\ FromTm(m)
    \/ m.from \in Users /\ m.id = (IF s = MM THEN "VM_CALL" ELSE "IO_CALL")

\* Only TM finds a server at work.
ServerSound(s) ==
    \/ Resting(s)
    \/ /\ ~Sleeps(s)
       /\ \A j \in 1 .. Len(k.queue[s]) : s = MM /\ FromTm(k.queue[s][j])
       /\ \/ todo[s] = MainLoop
          \/ todo[s] = <<Serve>> /\ Request(s, k.inbox[s])
          \/ s = MM /\ todo[s] = Returns(s, TM)
          \/ \E u \in Users : todo[s] = Returns(s, u)

\* What TM can find in its own queue, and what it is asked for.
OfTm(m) == /\ m.from = TM
           /\ m.id = "TM_KILLREPLY" \/ (m.id = "TM_KILL" /\ m.arg \in Users)
TmRequest(m) ==
    \/ m.from \in Users /\ m.id \in {"DATA", "TM_START", "TM_KILL", "TM_EXIT"}
    \/ m.from = MM /\ m.id = "TM_KILL" /\ m.arg \in Users
    \/ OfTm(m)

\* What TM does about user threads, and how its work ends.
OwnWork ==
    {Own(op, u) : op \in {"hash", "build", "ready", "unhash", "unschedule",
                          "freeblocked"}, u \in Users}
        \cup {Instr("visit", t, "ANYMSGTYPE", u) : t \in Thread, u \in Users}
Work == {CallMM, Send(MM, "VM_CLEANUP", NULL)} \cup OwnWork
Answers(r, id) == \/ r \in Users /\ id \in AnswerId
                  \/ r \in {TM, MM} /\ id = "TM_KILLREPLY"
Finish(p) == \/ p = MainLoop
             \/ \E r \in Thread, id \in AnswerId : Answers(r, id) /\ p = Answer(r, id)
Works(p) == \E v \in Seq(Work), f \in Seq(Instruction) : Finish(f) /\ p = v \o f

\* TM's question to MM: in MM's queue, in its hands, or answered next.
InQueue   == \E j \in 1 .. Len(k.queue[MM]) : k.queue[MM][j].id = "VM_CALL"
OnceInQueue ==
    \E j \in 1 .. Len(k.queue[MM]) : \A n \in 1 .. Len(k.queue[MM]) :
        k.queue[MM][n].id = "VM_CALL" <=> n = j
Taken     == Holds(MM) /\ k.inbox[MM].from = TM /\ k.inbox[MM].id = "VM_CALL"
Answering == todo[MM] = Returns(MM, TM)
MmFree == ~InQueue /\ ~Taken /\ ~Answering
MmOwes == \/ OnceInQueue /\ ~Taken /\ ~Answering
          \/ ~InQueue /\ (Taken \/ Answering)
Reply == [from |-> MM, id |-> "VM_REPLY", arg |-> NULL]
Question == [from |-> TM, id |-> "VM_CALL", arg |-> NULL]
AwaitsReply == [status |-> "WAITING", from |-> MM, id |-> "VM_REPLY"]

\* TM rests, looks at a request, has found a message of its own, works, is
\* about to receive MM's answer, or sleeps until it comes.
TmLooks == Holds(TM) /\ TmRequest(k.inbox[TM]) /\ k.queue[TM] = << >> /\ MmFree
TmFinds == /\ ~Sleeps(TM) /\ todo[TM] = MainLoop /\ MmFree
           /\ Len(k.queue[TM]) = 1 /\ OfTm(k.queue[TM][1])
TmWorks == ~Sleeps(TM) /\ Works(todo[TM]) /\ k.queue[TM] = << >> /\ MmFree
TmAsked == /\ ~Sleeps(TM)
           /\ \E p \in Seq(Instruction) : Works(p) /\ todo[TM] = Then(RecvMM, p)
           /\ \/ k.queue[TM] = << >> /\ MmOwes
              \/ k.queue[TM] = <<Reply>> /\ MmFree
TmSleeps == /\ Sleeps(TM) /\ k.pend[TM] = AwaitsReply
            /\ Works(todo[TM]) /\ k.queue[TM] = << >> /\ MmOwes
TmPhase == \/ Resting(TM) /\ MmFree
           \/ TmLooks \/ TmFinds \/ TmWorks \/ TmAsked \/ TmSleeps

\* A server that works for a user is the only one that works.
UserJob(s) == /\ ~Sleeps(s)
              /\ \/ todo[s] = <<Serve>> /\ k.inbox[s].from \in Users
                 \/ \E u \in Users : todo[s] = Returns(s, u)
UserFirst ==
    \A s \in Servers : UserJob(s) =>
        \A t \in ({TM} \cup Servers) \ {s} : Resting(t)

DriversLive == \A d \in Drivers : Exists(d) /\ ~Absent(k, d)
UserNext == {Own("exit", NULL), Own("fault", NULL), Beyond,
             Recv(TM, "TM_STARTREPLY"), Recv(TM, "TM_KILLREPLY"),
             Recv(MM, "VM_REPLY")} \cup {Recv(d, "IO_REPLY") : d \in Drivers}
UserPrograms == \A u \in Users : todo[u] = << >> \/ \E i \in UserNext : todo[u] = <<i>>

Kernel == {TM} \cup Servers
SInv == /\ \A s \in Servers : ServerSound(s)
        /\ TmPhase /\ UserFirst /\ DriversLive /\ UserPrograms

-----------------------------------------------------------------------------
(* Programs *)

\* The threads of the kernel, and their level in the scheduler.
LEMMA KernelThreads ==
    /\ Kernel \subseteq Thread /\ Servers \subseteq Thread
    /\ Kernel \cap Users = {} /\ Idle \notin Kernel
    /\ TM \notin Servers /\ MM \in Servers /\ Servers = {MM} \cup Drivers
    /\ Thread = Kernel \cup Users \cup {Idle}
    /\ \A t \in Kernel : PriorityOf[t] = 0
<1>1. /\ Kernel \subseteq Thread /\ Servers \subseteq Thread
      /\ Kernel \cap Users = {} /\ Idle \notin Kernel
      /\ TM \notin Servers /\ MM \in Servers
      /\ Thread = Kernel \cup Users \cup {Idle}
  BY SystemThreads DEF Kernel, Servers
<1>2. \A t \in Kernel : PriorityOf[t] = 0
  <2>1. \A t \in Thread : PriorityOf[t] = CASE t = Idle     -> 2
                                           [] t \in Users  -> 1
                                           [] OTHER        -> 0
    BY IPCAssumption
  <2> QED  BY <1>1, <2>1
<1> QED  BY <1>1, <1>2 DEF Servers

\* The programs of a server are different ones.
LEMMA ServerPrograms ==
    ASSUME NEW s \in Servers, NEW r \in Thread
    PROVE  /\ Returns(s, r) \in Seq(Instruction) /\ Returns(s, r) # << >>
           /\ Head(Returns(s, r)) = Send(r, ReplyId(s), NULL)
           /\ Tail(Returns(s, r)) = MainLoop
           /\ Returns(s, r) # MainLoop /\ Returns(s, r) # <<Serve>>
           /\ MainLoop # <<Serve>>
           /\ \A q \in Thread : Returns(s, r) = Returns(s, q) => r = q
<1>0. ReplyId(s) \in MessageId
  BY DEF ReplyId, MessageId
<1>1. \A q \in Thread : Send(q, ReplyId(s), NULL) \in Instruction
  BY <1>0, Instructions
<1>2. MainLoop \in Seq(Instruction) /\ Head(MainLoop) = Listen /\ Head(<<Serve>>) = Serve
  BY MainLoopIs
<1>3. \A q \in Thread : /\ Returns(s, q) \in Seq(Instruction) /\ Returns(s, q) # << >>
                        /\ Head(Returns(s, q)) = Send(q, ReplyId(s), NULL)
                        /\ Tail(Returns(s, q)) = MainLoop
  <2> TAKE q \in Thread
  <2>1. Send(q, ReplyId(s), NULL) \in Instruction
    BY <1>1
  <2>2. Returns(s, q) = Then(Send(q, ReplyId(s), NULL), MainLoop)
    BY DEF Returns
  <2>3. /\ Then(Send(q, ReplyId(s), NULL), MainLoop) \in Seq(Instruction)
        /\ Then(Send(q, ReplyId(s), NULL), MainLoop) # << >>
        /\ Head(Then(Send(q, ReplyId(s), NULL), MainLoop)) = Send(q, ReplyId(s), NULL)
        /\ Tail(Then(Send(q, ReplyId(s), NULL), MainLoop)) = MainLoop
    BY <2>1, <1>2, ThenProperties
  <2> QED  BY <2>2, <2>3
<1>4. /\ Send(r, ReplyId(s), NULL).do = "send" /\ Listen.do = "recv" /\ Serve.do = "serve"
      /\ \A q \in Thread : Send(q, ReplyId(s), NULL).to = q
  BY DEF Send, Listen, Recv, Serve, Own, Instr
<1>5. Returns(s, r) # MainLoop /\ Returns(s, r) # <<Serve>> /\ MainLoop # <<Serve>>
  BY <1>2, <1>3, <1>4
<1>6. ASSUME NEW q \in Thread, Returns(s, r) = Returns(s, q) PROVE r = q
  BY <1>3, <1>4, <1>6
<1> QED  BY <1>3, <1>5, <1>6

\* TM's work and its answers are programs.
LEMMA WorkIs ==
    /\ Work \subseteq Instruction
    /\ \A v \in Seq(Work) : v \in Seq(Instruction)
    /\ \A r \in Thread, id \in AnswerId :
          Answer(r, id) \in Seq(Instruction)
    /\ \A p \in Seq(Instruction) : Finish(p) => Works(p)
<1>1. OwnWork \subseteq Instruction
  <2>1. ASSUME NEW u \in Users, NEW op \in {"hash", "build", "ready", "unhash",
                                            "unschedule", "freeblocked"}
        PROVE  Own(op, u) \in Instruction
    <3>1. u \in Thread
      BY SystemThreads
    <3> QED  BY <3>1, <2>1, Instructions
  <2>2. ASSUME NEW u \in Users, NEW t \in Thread
        PROVE  Instr("visit", t, "ANYMSGTYPE", u) \in Instruction
    <3>1. u \in Thread
      BY SystemThreads
    <3>2. Visits(u) \subseteq Instruction
      BY <3>1, Instructions
    <3> QED  BY <3>2 DEF Visits
  <2> QED  BY <2>1, <2>2 DEF OwnWork
<1>2. Work \subseteq Instruction
  BY <1>1, Instructions DEF Work
<1>3. \A v \in Seq(Work) : v \in Seq(Instruction)
  BY <1>2
<1>4. \A r \in Thread, id \in AnswerId : Answer(r, id) \in Seq(Instruction)
  BY Forms
<1>5. ASSUME NEW p \in Seq(Instruction), Finish(p) PROVE Works(p)
  <2>1. << >> \in Seq(Work) /\ p = << >> \o p
    BY ConcatEmptySeq
  <2> QED  BY <1>5, <2>1 DEF Works
<1> QED  BY <1>2, <1>3, <1>4, <1>5

-----------------------------------------------------------------------------
(* What a step does to one thread of the kernel *)

\* It is not touched, given a message, or sent one.
Same(t) == /\ Sleeps(t)' <=> Sleeps(t)
           /\ Sleeps(t) => k'.pend[t] = k.pend[t]
           /\ k'.queue[t] = k.queue[t] /\ k'.inbox[t] = k.inbox[t]
Took(t, m) == ~Sleeps(t)' /\ k'.inbox[t] = m /\ k'.queue[t] = k.queue[t]
Queued(t, m) == /\ Sleeps(t)' <=> Sleeps(t)
                /\ Sleeps(t) => k'.pend[t] = k.pend[t]
                /\ k'.queue[t] = Append(k.queue[t], m) /\ k'.inbox[t] = k.inbox[t]
Still(t) == Same(t) /\ todo'[t] = todo[t]

\* A send to one thread is nothing to the others.
LEMMA Delivers ==
    ASSUME KernelSound(k), NEW to \in Thread, NEW m \in Message, Passed(k', k, to, m)
    PROVE  /\ \A t \in Thread \ {to} : Same(t)
           /\ Expected(k, to, m) => Sleeps(to) /\ Took(to, m)
           /\ ~Expected(k, to, m) => Queued(to, m)
<1>1. /\ k.queue \in [Thread -> Seq(Message)]
      /\ k.inbox \in [Thread -> Message \cup {Empty}]
      /\ k.sched.status \in [Thread -> SchedStatus]
  <2>1. k \in KernelState /\ k.sched \in Scheduler
    BY KernelFields DEF KernelSound
  <2> QED  BY <2>1, KernelFields DEF Scheduler
<1>2. \A t \in Thread : ~Active(k'.sched, t) => k'.pend[t] = k.pend[t]
  BY DEF Passed
<1>3. k' \in KernelState /\ k'.sched.status \in [Thread -> SchedStatus]
  <2>1. k' \in KernelState /\ k'.sched \in Scheduler
    BY KernelFields DEF Passed
  <2> QED  BY <2>1 DEF Scheduler
<1>4. \A t \in Thread : /\ Sleeps(t) => ~Active(k.sched, t)
                        /\ Sleeps(t)' => ~Active(k'.sched, t)
  BY DEF Sleeps, Active
<1>5. CASE Expected(k, to, m)
  <2>1. /\ Woke(k'.sched, k.sched, to)
        /\ k'.inbox = [k.inbox EXCEPT ![to] = m] /\ k'.queue = k.queue
    BY <1>5 DEF Passed
  <2>2. /\ \A t \in Thread \ {to} : Sleeps(t)' <=> Sleeps(t)
        /\ ~Sleeps(to)'
    BY <2>1, <1>4 DEF Woke, Changed, Sleeps, Active
  <2>3. \A t \in Thread \ {to} : Same(t)
    <3> TAKE t \in Thread \ {to}
    <3>1. Sleeps(t) => k'.pend[t] = k.pend[t]
      BY <1>2, <1>4, <2>2
    <3>2. k'.queue[t] = k.queue[t] /\ k'.inbox[t] = k.inbox[t]
      BY <1>1, <2>1
    <3> QED  BY <2>2, <3>1, <3>2 DEF Same
  <2>4. Sleeps(to)
    BY <1>5 DEF Expected, Sleeps
  <2>5. Took(to, m)
    BY <1>1, <2>1, <2>2 DEF Took
  <2> QED  BY <1>5, <2>3, <2>4, <2>5
<1>6. CASE ~Expected(k, to, m)
  <2>1. /\ Ticked(k'.sched, k.sched)
        /\ k'.inbox = k.inbox /\ k'.queue = [k.queue EXCEPT ![to] = Append(@, m)]
    BY <1>6 DEF Passed
  <2>2. \A t \in Thread : Sleeps(t)' <=> Sleeps(t)
    BY <2>1, <1>4 DEF Ticked, Changed, Sleeps, Active
  <2>3. \A t \in Thread : Sleeps(t) => k'.pend[t] = k.pend[t]
    BY <1>2, <1>4, <2>2
  <2>4. \A t \in Thread \ {to} : Same(t)
    BY <1>1, <2>1, <2>2, <2>3 DEF Same
  <2>5. Queued(to, m)
    BY <1>1, <2>1, <2>2, <2>3 DEF Queued
  <2> QED  BY <1>6, <2>4, <2>5
<1> QED  BY <1>5, <1>6

\* Who rests takes any message.
LEMMA RestingTakes ==
    ASSUME NEW t \in Thread, Resting(t), NEW m
    PROVE  Expected(k, t, m)
BY DEF Resting, Sleeps, Waiting, Expected

\* A receive, and the clock, are nothing to other threads.
LEMMA ReceiveEffect ==
    ASSUME KernelSound(k), NEW t \in Thread \ {Idle}, k.sched.running = t,
           NEW from \in Thread \cup {ANY}, NEW id \in MessageId,
           k' = kRecv(k, t, from, id)
    PROVE  /\ \A u \in Thread \ {t} : Same(u)
           /\ \/ /\ from # ANY /\ ~Exists(from)
              \/ \E j \in 1 .. Len(k.queue[t]) :
                    /\ Matches(k.queue[t][j], from, id)
                    /\ ~Sleeps(t)'
                    /\ k'.inbox[t] = k.queue[t][j]
                    /\ k'.queue[t] = RemoveAt(k.queue[t], j)
              \/ /\ \A j \in 1 .. Len(k.queue[t]) : ~Matches(k.queue[t][j], from, id)
                 /\ Sleeps(t)'
                 /\ k'.pend[t] = [status |-> "WAITING", from |-> from, id |-> id]
                 /\ k'.queue[t] = k.queue[t]
<1>1. /\ k.queue \in [Thread -> Seq(Message)]
      /\ k.inbox \in [Thread -> Message \cup {Empty}]
      /\ k.sched.status \in [Thread -> SchedStatus]
      /\ SchedSound(k.sched) /\ k \in KernelState
  <2>1. k \in KernelState /\ k.sched \in Scheduler /\ SchedSound(k.sched)
    BY KernelFields DEF KernelSound
  <2> QED  BY <2>1, KernelFields DEF Scheduler
<1>2. t \in Thread /\ k.sched.status[t] = "RUNNING"
  BY <1>1 DEF SchedSound
<1>3. /\ k' \in KernelState
      /\ \/ RecvFails(k', k, t, from)
         \/ \E j \in 1 .. Len(k.queue[t]) : RecvGets(k', k, t, from, id, j)
         \/ RecvSleeps(k', k, t, from, id)
  BY <1>1, RecvOutcome
<1>4. \A u \in Thread : /\ Sleeps(u) => ~Active(k.sched, u)
                        /\ Sleeps(u)' => ~Active(k'.sched, u)
  BY DEF Sleeps, Active
<1>5. ~Sleeps(t)
  BY <1>2 DEF Sleeps
<1>6. CASE RecvFails(k', k, t, from)
  <2>1. /\ k'.sched = k.sched /\ k'.queue = k.queue /\ k'.pend = k.pend
        /\ k'.inbox = [k.inbox EXCEPT ![t] = Empty]
        /\ from # ANY /\ ~Exists(from)
    BY <1>6 DEF RecvFails
  <2>2. \A u \in Thread \ {t} : Same(u)
    BY <2>1, <1>1 DEF Same, Sleeps
  <2> QED  BY <2>1, <2>2
<1>7. CASE \E j \in 1 .. Len(k.queue[t]) : RecvGets(k', k, t, from, id, j)
  <2>1. PICK j \in 1 .. Len(k.queue[t]) : RecvGets(k', k, t, from, id, j)
    BY <1>7
  <2>2. /\ k'.sched = k.sched /\ k'.pend = k.pend
        /\ k'.queue = [k.queue EXCEPT ![t] = RemoveAt(k.queue[t], j)]
        /\ k'.inbox = [k.inbox EXCEPT ![t] = k.queue[t][j]]
        /\ Matches(k.queue[t][j], from, id)
    BY <2>1 DEF RecvGets
  <2>3. \A u \in Thread \ {t} : Same(u)
    BY <2>2, <1>1 DEF Same, Sleeps
  <2>4. /\ ~Sleeps(t)' /\ k'.inbox[t] = k.queue[t][j]
        /\ k'.queue[t] = RemoveAt(k.queue[t], j)
    BY <2>2, <1>1, <1>2, <1>5 DEF Sleeps
  <2> QED  BY <2>2, <2>3, <2>4
<1>8. CASE RecvSleeps(k', k, t, from, id)
  <2>1. /\ \A j \in 1 .. Len(k.queue[t]) : ~Matches(k.queue[t][j], from, id)
        /\ Slept(k'.sched, k.sched, t)
        /\ k'.queue = k.queue /\ k'.inbox = [k.inbox EXCEPT ![t] = Empty]
        /\ k'.pend[t] = [status |-> "WAITING", from |-> from, id |-> id]
        /\ \A u \in Thread \ {t} : ~Active(k'.sched, u) => k'.pend[u] = k.pend[u]
    BY <1>8 DEF RecvSleeps
  <2>2. /\ \A u \in Thread \ {t} : Sleeps(u)' <=> Sleeps(u)
        /\ Sleeps(t)'
    <3>1. k'.sched.status \in [Thread -> SchedStatus]
      BY <1>3, KernelFields DEF Scheduler
    <3> QED  BY <2>1, <3>1, <1>1, <1>4 DEF Slept, Changed, Sleeps, Active
  <2>3. \A u \in Thread \ {t} : Same(u)
    <3> TAKE u \in Thread \ {t}
    <3>1. Sleeps(u) => k'.pend[u] = k.pend[u]
      BY <1>4, <2>1, <2>2
    <3> QED  BY <1>1, <2>1, <2>2, <3>1 DEF Same
  <2> QED  BY <2>1, <2>2, <2>3
<1> QED  BY <1>3, <1>6, <1>7, <1>8

\* The clock is nothing to any thread's messages.
LEMMA TickEffect ==
    ASSUME KernelSound(k), k' = Reschedule(k)
    PROVE  \A t \in Thread : Same(t)
<1>1. LET r == Reschedule(k)
      IN  /\ Moves(r, k)
          /\ Ticked(r.sched, k.sched)
          /\ r.queue = k.queue /\ r.inbox = k.inbox /\ r.ret = k.ret
          /\ \A u \in Thread : ~Active(r.sched, u) => r.pend[u] = k.pend[u]
  BY TickMoves
<1>2. /\ Moves(k', k) /\ Ticked(k'.sched, k.sched)
      /\ k'.queue = k.queue /\ k'.inbox = k.inbox
      /\ \A u \in Thread : ~Active(k'.sched, u) => k'.pend[u] = k.pend[u]
  BY <1>1
<1>3. \A t \in Thread : Sleeps(t)' <=> Sleeps(t)
  <2>1. /\ k'.sched.status \in [Thread -> SchedStatus]
        /\ k.sched.status \in [Thread -> SchedStatus]
    BY <1>2, KernelFields DEF Scheduler, Moves, KernelSound
  <2> QED  BY <1>2, <2>1 DEF Ticked, Changed, Sleeps, Active
<1>4. \A t \in Thread : Sleeps(t) => k'.pend[t] = k.pend[t]
  BY <1>2, <1>3 DEF Sleeps, Active
<1> QED  BY <1>2, <1>3, <1>4 DEF Same

-----------------------------------------------------------------------------
(* How the invariant follows *)

\* A thread that is left alone stands as it stood.
LEMMA StillStands ==
    ASSUME NEW t \in Thread, Still(t)
    PROVE  /\ Resting(t)' <=> Resting(t)
           /\ Holds(t)' <=> Holds(t)
           /\ Sleeps(t)' <=> Sleeps(t)
           /\ t \in Servers /\ ServerSound(t) => ServerSound(t)'
           /\ UserJob(t)' <=> UserJob(t)
<1>1. /\ Sleeps(t)' <=> Sleeps(t)
      /\ Sleeps(t) => k'.pend[t] = k.pend[t]
      /\ k'.queue[t] = k.queue[t] /\ k'.inbox[t] = k.inbox[t]
      /\ todo'[t] = todo[t]
  BY DEF Still, Same
<1>2. Resting(t)' <=> Resting(t)
  BY <1>1 DEF Resting
<1>3. Holds(t)' <=> Holds(t)
  BY <1>1 DEF Holds
<1>4. UserJob(t)' <=> UserJob(t)
  BY <1>1 DEF UserJob, Returns, ReplyId
<1>5. ServerSound(t) => ServerSound(t)'
  BY <1>1, <1>2 DEF ServerSound, Returns, ReplyId, Request, FromTm
<1> QED  BY <1>1, <1>2, <1>3, <1>4, <1>5

\* What MM owes TM stays the same while MM is left alone.
LEMMA StillMM ==
    ASSUME Still(MM)
    PROVE  (MmFree' <=> MmFree) /\ (MmOwes' <=> MmOwes)
<1>1. Holds(MM)' <=> Holds(MM)
  BY StillStands, SystemThreads
<1>2. /\ k'.queue[MM] = k.queue[MM] /\ k'.inbox[MM] = k.inbox[MM] /\ todo'[MM] = todo[MM]
  BY DEF Still, Same
<1>3. /\ InQueue' <=> InQueue
      /\ OnceInQueue' <=> OnceInQueue
      /\ Taken' <=> Taken
      /\ Answering' <=> Answering
  BY <1>1, <1>2 DEF InQueue, OnceInQueue, Taken, Answering, Returns, ReplyId
<1> QED  BY <1>3 DEF MmFree, MmOwes

\* TM stays where it is while what MM owes it stays the same.
LEMMA PhaseKept ==
    ASSUME TmPhase, Still(TM), MmFree => MmFree', MmOwes => MmOwes'
    PROVE  TmPhase'
<1>1. /\ Resting(TM)' <=> Resting(TM)
      /\ Holds(TM)' <=> Holds(TM)
      /\ Sleeps(TM)' <=> Sleeps(TM)
  BY StillStands, SystemThreads
<1>2. /\ k'.queue[TM] = k.queue[TM] /\ k'.inbox[TM] = k.inbox[TM] /\ todo'[TM] = todo[TM]
      /\ Sleeps(TM) => k'.pend[TM] = k.pend[TM]
  BY DEF Still, Same
<1>3. TmLooks => TmLooks'
  BY <1>1, <1>2 DEF TmLooks
<1>4. TmFinds => TmFinds'
  BY <1>1, <1>2 DEF TmFinds
<1>5. TmWorks => TmWorks'
  BY <1>1, <1>2 DEF TmWorks
<1>6. TmAsked => TmAsked'
  BY <1>1, <1>2 DEF TmAsked, Reply
<1>7. TmSleeps => TmSleeps'
  BY <1>1, <1>2 DEF TmSleeps, AwaitsReply
<1> QED  BY <1>1, <1>3, <1>4, <1>5, <1>6, <1>7 DEF TmPhase

\* Nothing happens to the threads of the kernel.
LEMMA KernelStill ==
    ASSUME SInv, \A t \in Kernel : Still(t), DriversLive', UserPrograms'
    PROVE  SInv'
<1>1. TM \in Kernel /\ MM \in Kernel /\ Kernel \subseteq Thread /\ Servers \subseteq Kernel
  BY KernelThreads DEF Kernel
<1>2. \A t \in Kernel : /\ Resting(t)' <=> Resting(t)
                        /\ UserJob(t)' <=> UserJob(t)
                        /\ t \in Servers /\ ServerSound(t) => ServerSound(t)'
  BY <1>1, StillStands
<1>3. TmPhase'
  BY <1>1, StillMM, PhaseKept DEF SInv
<1>4. UserFirst'
  BY <1>1, <1>2 DEF UserFirst, SInv, Kernel
<1> QED  BY <1>1, <1>2, <1>3, <1>4 DEF SInv

-----------------------------------------------------------------------------
(* The steps of user threads *)

\* Whoever runs is as urgent as anybody who could.
LEMMA UsersRun ==
    ASSUME IInv, SInv, running \in Users \cup {Idle}
    PROVE  \A t \in Kernel : Resting(t)
<1>1. SchedSound(k.sched) /\ k.sched \in Scheduler
  BY DEF IInv, Typed, KernelSound, SchedSound
<1>2. /\ k.sched.running \in Users \cup {Idle}
      /\ PriorityOf[k.sched.running] \in {1, 2}
  BY Levels DEF running
<1>3. \A t \in Kernel : ~Absent(k, t)
  BY KernelThreads DEF Kernel, SInv, DriversLive, IInv, KernelLives
<1>4. \A t \in Kernel : Sleeps(t)
  <2> TAKE t \in Kernel
  <2>1. t \in Thread /\ PriorityOf[t] = 0 /\ t # k.sched.running
    BY <1>2, KernelThreads
  <2>2. k.sched.status[t] # "RUNNING" /\ k.sched.status[t] # "READY"
    BY <1>1, <1>2, <2>1 DEF SchedSound
  <2>3. k.sched.status[t] \in SchedStatus
    BY <1>1, <2>1 DEF Scheduler
  <2> QED  BY <1>3, <2>2, <2>3 DEF Absent, Sleeps, SchedStatus
<1>5. \A s \in Servers : Resting(s)
  BY <1>4 DEF SInv, ServerSound, Kernel
<1>6. Resting(TM)
  <2>1. Sleeps(TM) /\ Resting(MM)
    BY <1>4, <1>5, KernelThreads DEF Kernel
  <2>2. ~TmSleeps
    <3>1. k.queue[MM] = << >> /\ ~Holds(MM) /\ todo[MM] = <<Serve>>
      BY <2>1 DEF Resting, Holds
    <3>2. ~OnceInQueue
      BY <3>1 DEF OnceInQueue
    <3>3. ~Taken /\ ~Answering
      BY <3>1, ServerPrograms, KernelThreads, SystemThreads DEF Taken, Answering
    <3> QED  BY <3>2, <3>3 DEF TmSleeps, MmOwes
  <2> QED  BY <2>1, <2>2 DEF SInv, TmPhase, TmLooks, TmFinds, TmWorks, TmAsked, Holds
<1> QED  BY <1>5, <1>6 DEF Kernel

\* MM at rest owes TM nothing.
LEMMA RestingFree ==
    /\ Resting(MM) => MmFree
    /\ Resting(MM)' => MmFree'
<1>1. <<Serve>> # Returns(MM, TM)
  BY ServerPrograms, KernelThreads, SystemThreads
<1>2. Resting(MM) => MmFree
  BY <1>1 DEF Resting, MmFree, InQueue, Taken, Holds, Answering
<1>3. Resting(MM)' => MmFree'
  BY <1>1 DEF Resting, MmFree, InQueue, Taken, Holds, Answering, Returns, ReplyId
<1> QED  BY <1>2, <1>3

\* What a thread of the kernel may be given while they all rest.
Fits(s, m) == \/ s = TM /\ TmRequest(m)
              \/ s \in Servers /\ m.from \in Users /\ Request(s, m)

\* A thread of the kernel is given a request while all of them rest.
LEMMA Woken ==
    ASSUME SInv, \A t \in Kernel : Resting(t),
           NEW s \in Kernel, NEW m, Fits(s, m), Took(s, m), todo'[s] = todo[s],
           \A t \in Kernel \ {s} : Still(t), DriversLive', UserPrograms'
    PROVE  SInv'
<1>1. /\ TM \in Kernel /\ MM \in Kernel /\ Kernel \subseteq Thread
      /\ Kernel = {TM} \cup Servers /\ TM \notin Servers
  BY KernelThreads DEF Kernel
<1>2. /\ ~Sleeps(s)' /\ k'.inbox[s] = m /\ k'.queue[s] = << >> /\ todo'[s] = <<Serve>>
  BY DEF Took, Resting
<1>3. \A t \in Kernel \ {s} : Resting(t)'
  BY <1>1, StillStands
<1>4. \A t \in Servers : ServerSound(t)'
  <2>1. s \in Servers => Request(s, m)
    BY <1>1 DEF Fits
  <2>2. s \in Servers => ServerSound(s)'
    BY <1>2, <2>1 DEF ServerSound, Request, FromTm
  <2> QED  BY <1>1, <1>3, <2>2 DEF ServerSound
<1>5. \A t \in Kernel : ~Sleeps(t)' => t = s
  BY <1>3 DEF Resting
<1>6. UserFirst'
  BY <1>1, <1>3, <1>5 DEF UserFirst, UserJob
<1>7. MmFree'
  <2>1. CASE s = MM
    <3>1. m.from # TM
      BY <1>1, <2>1, SystemThreads DEF Fits
    <3>2. todo'[MM] # Returns(MM, TM)
      BY <1>2, <2>1, ServerPrograms, KernelThreads, SystemThreads
    <3> QED  BY <1>2, <2>1, <3>1, <3>2
          DEF MmFree, InQueue, Taken, Answering, Returns, ReplyId
  <2>2. CASE s # MM
    BY <1>1, <2>2, StillMM, RestingFree
  <2> QED  BY <2>1, <2>2
<1>8. TmPhase'
  <2>1. CASE s = TM
    <3>1. TmRequest(m)
      BY <1>1, <2>1 DEF Fits
    <3>2. TmLooks'
      BY <1>2, <1>7, <2>1, <3>1 DEF TmLooks, Holds, TmRequest, OfTm
    <3> QED  BY <3>2 DEF TmPhase
  <2>2. CASE s # TM
    BY <1>1, <1>3, <1>7, <2>2 DEF TmPhase
  <2> QED  BY <2>1, <2>2
<1> QED  BY <1>4, <1>6, <1>8 DEF SInv

\* What a user thread executes is a program's first instruction, or any.
LEMMA UserDoes ==
    ASSUME UserPrograms, NEW u \in Users, NEW i \in NextInstr(u)
    PROVE  /\ i \in UserInstr \cup UserNext /\ Rest(u) = << >>
<1>1. u \notin Drivers
  BY SystemThreads
<1>2. CASE todo[u] = << >>
  BY <1>1, <1>2 DEF NextInstr, Rest
<1>3. CASE todo[u] # << >>
  <2>1. PICK j \in UserNext : todo[u] = <<j>>
    BY <1>3 DEF UserPrograms
  <2>2. Head(todo[u]) = j /\ Tail(todo[u]) = << >>
    BY <2>1
  <2> QED  BY <1>1, <1>3, <2>2 DEF NextInstr, Rest
<1> QED  BY <1>2, <1>3

\* What user threads send, call and wait for.
LEMMA UserKinds ==
    ASSUME NEW i \in UserInstr \cup UserNext
    PROVE  /\ i.do \in {"send", "call"} =>
                 /\ i.to \in Thread /\ i.arg \in Thread \cup {NULL} /\ i.id \in MessageId
                 /\ \/ i.to \in Users
                    \/ i.to = TM /\ i.id \in {"DATA", "TM_KILL", "TM_START"}
                    \/ i.to = MM /\ i.id = "VM_CALL"
                    \/ i.to \in Drivers /\ i.id = "IO_CALL"
           /\ i.do = "call" => Recv(i.to, ReplyTo[i.id]) \in UserNext
           /\ i.do = "recv" => i.to \in Thread \cup {ANY} /\ i.id \in MessageId
           /\ i.do = "exit" => i = Own("exit", NULL)
           /\ i.do = "fault" => i = Own("fault", NULL)
           /\ i.do # "serve"
<1>0. /\ TM \in Thread /\ MM \in Thread /\ Users \subseteq Thread /\ Drivers \subseteq Thread
  BY SystemThreads
<1>1. CASE i \in UserNext
  BY <1>0, <1>1 DEF UserNext, Own, Beyond, Recv, Instr, MessageId
<1>2. CASE i \in UserInstr
  <2>1. \/ i \in {Send(u, "DATA", NULL) : u \in Users \cup {TM}}
        \/ i \in {Recv(f, "DATA") : f \in Users \cup {ANY}}
        \/ i = Recv(ANY, "ANYMSGTYPE")
        \/ i \in {Call(TM, "TM_KILL", x) : x \in Users \cup {MM}}
        \/ i = Call(TM, "TM_START", NULL)
        \/ i = Call(MM, "VM_CALL", NULL)
        \/ i \in {Call(d, "IO_CALL", NULL) : d \in Drivers}
        \/ i = Own("exit", NULL) \/ i = Own("fault", NULL) \/ i = Own("yield", NULL)
    BY <1>2 DEF UserInstr
  <2>2. CASE i \in {Send(u, "DATA", NULL) : u \in Users \cup {TM}}
    BY <1>0, <2>2 DEF Send, Instr, MessageId
  <2>3. CASE i \in {Recv(f, "DATA") : f \in Users \cup {ANY}} \/ i = Recv(ANY, "ANYMSGTYPE")
    BY <1>0, <2>3 DEF Recv, Instr, MessageId
  <2>4. CASE i \in {Call(TM, "TM_KILL", x) : x \in Users \cup {MM}}
    BY <1>0, <2>4 DEF Call, Instr, MessageId, ReplyTo, UserNext
  <2>5. CASE i = Call(TM, "TM_START", NULL) \/ i = Call(MM, "VM_CALL", NULL)
    BY <1>0, <2>5 DEF Call, Instr, MessageId, ReplyTo, UserNext
  <2>6. CASE i \in {Call(d, "IO_CALL", NULL) : d \in Drivers}
    BY <1>0, <2>6 DEF Call, Instr, MessageId, ReplyTo, UserNext
  <2>7. CASE i = Own("exit", NULL) \/ i = Own("fault", NULL) \/ i = Own("yield", NULL)
    BY <2>7 DEF Own, Instr
  <2> QED  BY <2>1, <2>2, <2>3, <2>4, <2>5, <2>6, <2>7
<1> QED  BY <1>1, <1>2

\* A message that a user thread sends, or that is sent because of it, finds the
\* threads of the kernel at rest.
LEMMA UserSends ==
    ASSUME IInv, SInv, \A t \in Kernel : Resting(t),
           NEW to \in Thread, NEW m \in Message, to \in Users \/ Fits(to, m),
           k' = kSend(k, to, m), \A t \in Kernel : todo'[t] = todo[t],
           DriversLive', UserPrograms'
    PROVE  SInv'
<1>1. /\ KernelSound(k) /\ k \in KernelState /\ SchedSound(k.sched)
      /\ Range(threadList) \subseteq Thread
  BY LenProperties DEF IInv, Typed, KernelSound, Range
<1>2. /\ Sent(k, to, m) => Passed(k', k, to, m)
      /\ ~Sent(k, to, m) => \/ k' = k
                            \/ to \in Users /\ Passed(k', k, TM, Kill(to))
  BY <1>1, SendOutcome
<1>3. /\ Kernel \subseteq Thread /\ Kernel \cap Users = {} /\ TM \in Kernel
      /\ Kernel = {TM} \cup Servers
  BY KernelThreads DEF Kernel
<1>4. ASSUME NEW s \in Kernel, NEW x \in Message, Fits(s, x), Passed(k', k, s, x)
      PROVE  SInv'
  <2>1. Expected(k, s, x) /\ s \in Thread
    BY <1>3, RestingTakes
  <2>2. /\ \A t \in Thread \ {s} : Same(t)
        /\ Took(s, x)
    BY <1>1, <1>4, <2>1, Delivers
  <2>3. \A t \in Kernel \ {s} : Still(t)
    BY <1>3, <2>2 DEF Still
  <2> QED  BY <1>4, <2>2, <2>3, Woken
<1>5. CASE k' = k
  <2>1. \A t \in Kernel : Still(t)
    BY <1>5 DEF Still, Same, Sleeps
  <2> QED  BY <2>1, KernelStill
<1>6. CASE Passed(k', k, to, m)
  <2>1. CASE to \in Kernel
    <3>1. Fits(to, m)
      BY <1>3, <2>1
    <3> QED  BY <1>4, <1>6, <2>1, <3>1
  <2>2. CASE to \notin Kernel
    <3>1. \A t \in Thread \ {to} : Same(t)
      BY <1>1, <1>6, Delivers
    <3>2. \A t \in Kernel : Still(t)
      BY <1>3, <2>2, <3>1 DEF Still
    <3> QED  BY <3>2, KernelStill
  <2> QED  BY <2>1, <2>2
<1>7. CASE to \in Users /\ Passed(k', k, TM, Kill(to))
  <2>1. Kill(to) \in Message /\ Fits(TM, Kill(to))
    BY <1>7, SystemThreads DEF Kill, Message, MessageId, Fits, TmRequest, OfTm
  <2> QED  BY <1>3, <1>4, <1>7, <2>1
<1> QED  BY <1>2, <1>5, <1>6, <1>7

\* Every step of a user thread keeps the invariant.
LEMMA UserStep ==
    ASSUME IInv, SInv, NEW u \in Users, Step(u)
    PROVE  SInv'
<1>1. running = u /\ k.sched.running = u /\ u \in Thread /\ u \notin Kernel /\ u # Idle
  BY SystemThreads, KernelThreads DEF Step, running
<1>2. \A t \in Kernel : Resting(t)
  BY <1>1, UsersRun
<1>3. PICK i \in NextInstr(u) :
          \/ SendStep(u, i) \/ RecvStep(u, i) \/ ExitStep(u, i)
          \/ FaultStep(u, i) \/ YieldStep(u, i) \/ ServeStep(u, i)
  BY DEF Step
<1>4. i \in UserInstr \cup UserNext /\ Rest(u) = << >>
  BY UserDoes DEF SInv
<1>5. /\ KernelSound(k) /\ todo \in [Thread -> Seq(Instruction)] /\ Kernel \subseteq Thread
  BY KernelThreads DEF IInv, Typed
<1>6. UNCHANGED <<threadList, nextId>>
  BY <1>3 DEF SendStep, RecvStep, ExitStep, FaultStep, YieldStep, ServeStep
<1>7. DriversLive'
  <2>1. \A t \in Thread : Absent(k', t) <=> Absent(k, t)
    BY <1>1, StepMoves DEF Moves
  <2> QED  BY <1>6, <2>1, SystemThreads DEF SInv, DriversLive, Exists
<1>8. ASSUME NEW q, todo' = [todo EXCEPT ![u] = q],
             q = << >> \/ \E j \in UserNext : q = <<j>>
      PROVE  UserPrograms' /\ \A t \in Kernel : todo'[t] = todo[t]
  <2>1. \A t \in Thread : todo'[t] = IF t = u THEN q ELSE todo[t]
    BY <1>5, <1>8
  <2>2. \A t \in Users : t \in Thread
    BY SystemThreads
  <2> QED  BY <1>1, <1>5, <1>8, <2>1, <2>2 DEF UserPrograms, SInv, UserNext, Beyond
<1>9. TM \in Thread /\ TM \notin Users
  BY SystemThreads
<1>10. CASE SendStep(u, i)
  <2> DEFINE m == [from |-> u, id |-> i.id, arg |-> i.arg]
             q == IF i.do = "call" /\ Sent(k, i.to, m)
                  THEN <<Recv(i.to, ReplyTo[i.id])>> \o << >> ELSE << >>
  <2>1. /\ i.do \in {"send", "call"}
        /\ k' = kSend(k, i.to, m) /\ todo' = [todo EXCEPT ![u] = q]
    BY <1>4, <1>10 DEF SendStep
  <2>2. /\ i.to \in Thread /\ i.arg \in Thread \cup {NULL} /\ i.id \in MessageId
        /\ \/ i.to \in Users
           \/ i.to = TM /\ i.id \in {"DATA", "TM_KILL", "TM_START"}
           \/ i.to = MM /\ i.id = "VM_CALL"
           \/ i.to \in Drivers /\ i.id = "IO_CALL"
        /\ i.do = "call" => Recv(i.to, ReplyTo[i.id]) \in UserNext
    BY <1>4, <2>1, UserKinds
  <2>3. q = << >> \/ \E j \in UserNext : q = <<j>>
    <3>1. <<Recv(i.to, ReplyTo[i.id])>> \o << >> = <<Recv(i.to, ReplyTo[i.id])>>
      OBVIOUS
    <3> QED  BY <2>2, <3>1
  <2>4. m \in Message
    BY <1>1, <2>2 DEF Message
  <2>5. i.to \in Users \/ Fits(i.to, m)
    <3>1. MM \in Servers /\ Drivers \subseteq Servers /\ MM \notin Drivers
      BY SystemThreads DEF Servers
    <3> QED  BY <2>2, <3>1 DEF Fits, TmRequest, Request
  <2> HIDE DEF m, q
  <2>6. UserPrograms' /\ \A t \in Kernel : todo'[t] = todo[t]
    BY <1>8, <2>1, <2>3
  <2> QED  BY <1>2, <1>7, <2>1, <2>2, <2>4, <2>5, <2>6, UserSends
<1>11. CASE RecvStep(u, i)
  <2>1. /\ i.do = "recv" /\ k' = kRecv(k, u, i.to, i.id)
        /\ todo' = [todo EXCEPT ![u] = << >>]
    BY <1>4, <1>11 DEF RecvStep
  <2>2. i.to \in Thread \cup {ANY} /\ i.id \in MessageId
    BY <1>4, <2>1, UserKinds
  <2>3. \A t \in Thread \ {u} : Same(t)
    BY <1>1, <1>5, <2>1, <2>2, ReceiveEffect
  <2>4. UserPrograms' /\ \A t \in Kernel : todo'[t] = todo[t]
    BY <1>8, <2>1
  <2>5. \A t \in Kernel : Still(t)
    BY <1>1, <1>5, <2>3, <2>4 DEF Still
  <2> QED  BY <1>7, <2>4, <2>5, KernelStill
<1>12. CASE ExitStep(u, i)
  <2> DEFINE m == [from |-> u, id |-> "TM_EXIT", arg |-> NULL]
             q == IF Sent(k, TM, m) THEN <<Beyond>> ELSE <<i>>
  <2>1. /\ i.do = "exit" /\ k' = kSend(k, TM, m) /\ todo' = [todo EXCEPT ![u] = q]
    BY <1>12 DEF ExitStep
  <2>2. i = Own("exit", NULL)
    BY <1>4, <2>1, UserKinds
  <2>3. q = << >> \/ \E j \in UserNext : q = <<j>>
    BY <2>2 DEF UserNext
  <2>4. m \in Message /\ Fits(TM, m)
    BY <1>1 DEF Message, MessageId, Fits, TmRequest
  <2> HIDE DEF m, q
  <2>5. UserPrograms' /\ \A t \in Kernel : todo'[t] = todo[t]
    BY <1>8, <2>1, <2>3
  <2> QED  BY <1>2, <1>7, <1>9, <2>1, <2>4, <2>5, UserSends
<1>13. CASE FaultStep(u, i)
  <2>1. /\ i.do = "fault" /\ todo' = [todo EXCEPT ![u] = <<i>>]
        /\ \E from \in {TM, MM} :
              k' = kSend(k, TM, [from |-> from, id |-> "TM_KILL", arg |-> u])
    BY <1>13 DEF FaultStep
  <2>2. PICK from \in {TM, MM} :
              k' = kSend(k, TM, [from |-> from, id |-> "TM_KILL", arg |-> u])
    BY <2>1
  <2> DEFINE m == [from |-> from, id |-> "TM_KILL", arg |-> u]
  <2>3. i = Own("fault", NULL)
    BY <1>4, <2>1, UserKinds
  <2>4. m \in Message /\ Fits(TM, m)
    BY <1>1, SystemThreads DEF Message, MessageId, Fits, TmRequest, OfTm
  <2>5. k' = kSend(k, TM, m)
    BY <2>2
  <2> HIDE DEF m
  <2>6. \E j \in UserNext : <<i>> = <<j>>
    BY <2>3 DEF UserNext
  <2>7. UserPrograms' /\ \A t \in Kernel : todo'[t] = todo[t]
    BY <1>8, <2>1, <2>6
  <2> QED  BY <1>2, <1>7, <1>9, <2>4, <2>5, <2>7, UserSends
<1>14. CASE YieldStep(u, i)
  <2>1. k' = Reschedule(k) /\ todo' = [todo EXCEPT ![u] = << >>]
    BY <1>4, <1>14 DEF YieldStep
  <2>2. \A t \in Thread : Same(t)
    BY <1>5, <2>1, TickEffect
  <2>3. UserPrograms' /\ \A t \in Kernel : todo'[t] = todo[t]
    BY <1>8, <2>1
  <2>4. \A t \in Kernel : Still(t)
    BY <1>5, <2>2, <2>3 DEF Still
  <2> QED  BY <1>7, <2>3, <2>4, KernelStill
<1>15. CASE ServeStep(u, i)
  <2>1. i.do = "serve"
    BY <1>15 DEF ServeStep
  <2> QED  BY <1>4, <2>1, UserKinds
<1> QED  BY <1>3, <1>10, <1>11, <1>12, <1>13, <1>14, <1>15

-----------------------------------------------------------------------------
(* The steps of the servers *)

\* The server s works on; no server but s has a new job for a user.
LEMMA JobsKept ==
    ASSUME SInv, NEW s \in Servers, ~Sleeps(s),
           \A t \in Servers \ {s} : Still(t),
           UserJob(s)' => UserJob(s) /\ Still(TM)
    PROVE  UserFirst'
<1>1. Kernel \subseteq Thread /\ Kernel = {TM} \cup Servers /\ TM \notin Servers
  BY KernelThreads DEF Kernel
<1>2. SUFFICES ASSUME NEW t \in Servers, UserJob(t)', NEW x \in Kernel \ {t}
               PROVE  Resting(x)'
  BY <1>1 DEF UserFirst
<1>3. CASE t = s
  <2>1. UserJob(s) /\ Still(TM)
    BY <1>2, <1>3
  <2>2. Resting(x)
    BY <1>1, <1>2, <1>3, <2>1 DEF SInv, UserFirst
  <2>3. Still(x)
    BY <1>1, <1>2, <1>3, <2>1
  <2> QED  BY <1>1, <2>2, <2>3, StillStands
<1>4. CASE t # s
  <2>1. UserJob(t)
    BY <1>1, <1>2, <1>4, StillStands
  <2>2. Resting(s)
    BY <1>1, <1>4, <2>1 DEF SInv, UserFirst
  <2> QED  BY <2>2 DEF Resting
<1> QED  BY <1>3, <1>4

\* What MM owes TM as MM goes through its loop.
LEMMA MmTakes ==
    ASSUME k.queue[MM] \in Seq(Message), todo[MM] = MainLoop,
           \A n \in 1 .. Len(k.queue[MM]) : FromTm(k.queue[MM][n]),
           NEW j \in 1 .. Len(k.queue[MM]),
           ~Sleeps(MM)', todo'[MM] = <<Serve>>, k'.inbox[MM] = k.queue[MM][j],
           k'.queue[MM] = RemoveAt(k.queue[MM], j)
    PROVE  (MmFree => MmFree') /\ (MmOwes => MmOwes')
<1>1. PICK q : q = k.queue[MM]
  OBVIOUS
<1>2. PICK r : r = k'.queue[MM]
  OBVIOUS
<1>3. /\ q \in Seq(Message) /\ j \in 1 .. Len(q) /\ r = RemoveAt(q, j)
      /\ \A n \in 1 .. Len(q) : FromTm(q[n])
      /\ k'.inbox[MM] = q[j]
  BY <1>1, <1>2
<1>4. /\ Len(q) \in Nat /\ Len(r) = Len(q) - 1
      /\ \A n \in 1 .. Len(q) - 1 : r[n] = IF n < j THEN q[n] ELSE q[n + 1]
  <2>1. /\ Len(RemoveAt(q, j)) = Len(q) - 1
        /\ \A n \in 1 .. Len(q) - 1 :
              RemoveAt(q, j)[n] = IF n < j THEN q[n] ELSE q[n + 1]
    BY <1>3, RemoveAtLeaves
  <2> QED  BY <1>3, <2>1
<1>5. MainLoop # <<Serve>> /\ <<Serve>> # Returns(MM, TM) /\ MainLoop # Returns(MM, TM)
  BY ServerPrograms, KernelThreads, SystemThreads
<1>6. ~Taken /\ ~Answering /\ ~Answering'
  BY <1>5 DEF Taken, Holds, Answering, Returns, ReplyId
<1>7. Taken' <=> q[j].id = "VM_CALL"
  BY <1>3 DEF Taken, Holds, FromTm
<1>8. /\ InQueue <=> \E n \in 1 .. Len(q) : q[n].id = "VM_CALL"
      /\ InQueue' <=> \E n \in 1 .. Len(r) : r[n].id = "VM_CALL"
  BY <1>1, <1>2 DEF InQueue
<1>9. /\ OnceInQueue <=> \E o \in 1 .. Len(q) : \A n \in 1 .. Len(q) :
                              q[n].id = "VM_CALL" <=> n = o
      /\ OnceInQueue' <=> \E o \in 1 .. Len(r) : \A n \in 1 .. Len(r) :
                              r[n].id = "VM_CALL" <=> n = o
  BY <1>1, <1>2 DEF OnceInQueue
<1>10. MmFree => MmFree'
  <2> SUFFICES ASSUME MmFree PROVE MmFree'
    OBVIOUS
  <2>1. \A n \in 1 .. Len(q) : q[n].id # "VM_CALL"
    BY <1>8 DEF MmFree
  <2>2. \A n \in 1 .. Len(r) : r[n].id # "VM_CALL"
    BY <1>3, <1>4, <2>1
  <2> QED  BY <1>3, <1>6, <1>7, <1>8, <2>1, <2>2 DEF MmFree
<1>11. MmOwes => MmOwes'
  <2> SUFFICES ASSUME MmOwes PROVE MmOwes'
    OBVIOUS
  <2>1. PICK o \in 1 .. Len(q) : \A n \in 1 .. Len(q) : q[n].id = "VM_CALL" <=> n = o
    BY <1>6, <1>9 DEF MmOwes
  <2>2. CASE o = j
    <3>1. \A n \in 1 .. Len(r) : r[n].id # "VM_CALL"
      BY <1>3, <1>4, <2>1, <2>2
    <3> QED  BY <1>3, <1>7, <1>8, <2>1, <2>2, <3>1 DEF MmOwes
  <2>3. CASE o < j
    <3>1. /\ o \in 1 .. Len(r)
          /\ \A n \in 1 .. Len(r) : r[n].id = "VM_CALL" <=> n = o
      BY <1>3, <1>4, <2>1, <2>3
    <3>2. OnceInQueue'
      BY <1>9, <3>1
    <3>3. ~Taken'
      BY <1>3, <1>7, <2>1, <2>3
    <3> QED  BY <1>6, <3>2, <3>3 DEF MmOwes
  <2>4. CASE o > j
    <3>1. /\ o - 1 \in 1 .. Len(r)
          /\ \A n \in 1 .. Len(r) : r[n].id = "VM_CALL" <=> n = o - 1
      BY <1>3, <1>4, <2>1, <2>4
    <3>2. OnceInQueue'
      BY <1>9, <3>1
    <3>3. ~Taken'
      BY <1>3, <1>7, <2>1, <2>4
    <3> QED  BY <1>6, <3>2, <3>3 DEF MmOwes
  <2>5. o \in Int /\ j \in Int
    BY <1>3
  <2> QED  BY <2>2, <2>3, <2>4, <2>5
<1> QED  BY <1>10, <1>11

\* MM's queue is left alone while MM works.
LEMMA MmWorks ==
    ASSUME k'.queue[MM] = k.queue[MM], ~Holds(MM)', Answering' <=> Taken, ~Answering
    PROVE  (MmFree => MmFree') /\ (MmOwes => MmOwes')
<1>1. (InQueue' <=> InQueue) /\ (OnceInQueue' <=> OnceInQueue) /\ ~Taken'
  BY DEF InQueue, OnceInQueue, Taken
<1> QED  BY <1>1 DEF MmFree, MmOwes

\* The program of a server that has looked at a request.
LEMMA ServeRequest ==
    ASSUME NEW s \in Servers, NEW m \in Message, Request(s, m)
    PROVE  LET p == ServerServe(m) \o MainLoop
           IN  \/ p = MainLoop /\ m.from = TM /\ m.id # "VM_CALL"
               \/ s = MM /\ p = Returns(MM, TM) /\ m.from = TM /\ m.id = "VM_CALL"
               \/ m.from \in Users /\ p = Returns(s, m.from)
<1>1. \/ s = MM /\ m.from = TM /\ m.id \in {"VM_CALL", "VM_CLEANUP", "TM_KILLREPLY"}
      \/ m.from \in Users /\ m.id = (IF s = MM THEN "VM_CALL" ELSE "IO_CALL")
  BY DEF Request, FromTm
<1>2. MainLoop \in Seq(Instruction)
  BY MainLoopIs
<1>3. CASE m.from = TM /\ m.id \in {"VM_CLEANUP", "TM_KILLREPLY"}
  <2>1. ServerServe(m) = << >>
    BY <1>3 DEF ServerServe
  <2> QED  BY <1>2, <1>3, <2>1, ConcatEmptySeq
<1>4. CASE s = MM /\ m.from = TM /\ m.id = "VM_CALL"
  <2>1. ServerServe(m) = <<Send(TM, "VM_REPLY", NULL)>>
    BY <1>4 DEF ServerServe, ReplyTo
  <2> QED  BY <1>4, <2>1 DEF Returns, Then, ReplyId
<1>5. CASE m.from \in Users /\ m.id = (IF s = MM THEN "VM_CALL" ELSE "IO_CALL")
  <2>1. ServerServe(m) = <<Send(m.from, ReplyId(s), NULL)>>
    BY <1>5 DEF ServerServe, ReplyTo, ReplyId
  <2> QED  BY <1>5, <2>1 DEF Returns, Then
<1> QED  BY <1>1, <1>3, <1>4, <1>5

\* TM at rest waits for nothing from MM.
LEMMA RestingPhase ==
    ASSUME TmPhase, Resting(TM)
    PROVE  MmFree
<1>1. Waiting # AwaitsReply
  BY SystemThreads DEF Waiting, AwaitsReply
<1> QED  BY <1>1 DEF TmPhase, Resting, TmLooks, TmFinds, TmWorks, TmAsked, TmSleeps, Holds

\* s receives in its main loop.
LEMMA ServerReceives ==
    ASSUME IInv, SInv, NEW s \in Servers, k.sched.running = s, todo[s] = MainLoop,
           k' = kRecv(k, s, ANY, "ANYMSGTYPE"), todo'[s] = <<Serve>>,
           \A t \in Kernel \ {s} : todo'[t] = todo[t], DriversLive', UserPrograms'
    PROVE  SInv'
<1>1. /\ KernelSound(k) /\ s \in Thread \ {Idle} /\ Kernel \subseteq Thread
      /\ Kernel = {TM} \cup Servers /\ TM \notin Servers /\ MM \in Servers
      /\ \A t \in Servers : t \in Thread
  BY KernelThreads DEF IInv, Typed, Kernel
<1>2. "ANYMSGTYPE" \in MessageId /\ ANY \in Thread \cup {ANY}
  BY DEF MessageId
<1>3. /\ \A u \in Thread \ {s} : Same(u)
      /\ \/ \E j \in 1 .. Len(k.queue[s]) :
               /\ ~Sleeps(s)' /\ k'.inbox[s] = k.queue[s][j]
               /\ k'.queue[s] = RemoveAt(k.queue[s], j)
         \/ /\ \A j \in 1 .. Len(k.queue[s]) : ~Matches(k.queue[s][j], ANY, "ANYMSGTYPE")
            /\ Sleeps(s)' /\ k'.queue[s] = k.queue[s]
            /\ k'.pend[s] = [status |-> "WAITING", from |-> ANY, id |-> "ANYMSGTYPE"]
  BY <1>1, <1>2, ReceiveEffect
<1>4. \A t \in Kernel \ {s} : Still(t)
  BY <1>1, <1>3 DEF Still
<1>5. k.queue[s] \in Seq(Message)
  BY <1>1, KernelFields DEF KernelSound
<1>6. MainLoop # <<Serve>> /\ \A r \in Thread : Returns(s, r) # <<Serve>>
  BY ServerPrograms, SystemThreads
<1>7. /\ ~Sleeps(s)
      /\ \A j \in 1 .. Len(k.queue[s]) : s = MM /\ FromTm(k.queue[s][j])
  BY <1>6 DEF SInv, ServerSound, Resting
<1>8. /\ ServerSound(s)'
      /\ ~UserJob(s)'
      /\ s = MM => (MmFree => MmFree') /\ (MmOwes => MmOwes')
  <2>0. \A u \in Users : todo'[s] # Returns(s, u)
    BY <1>6, SystemThreads
  <2>1. CASE \E j \in 1 .. Len(k.queue[s]) :
               /\ ~Sleeps(s)' /\ k'.inbox[s] = k.queue[s][j]
               /\ k'.queue[s] = RemoveAt(k.queue[s], j)
    <3>1. PICK j \in 1 .. Len(k.queue[s]) :
               /\ ~Sleeps(s)' /\ k'.inbox[s] = k.queue[s][j]
               /\ k'.queue[s] = RemoveAt(k.queue[s], j)
      BY <2>1
    <3>2. s = MM /\ FromTm(k.queue[s][j])
      BY <1>7
    <3>3. \A n \in 1 .. Len(k'.queue[s]) : FromTm(k'.queue[s][n])
      <4>1. /\ Len(k'.queue[s]) = Len(k.queue[s]) - 1
            /\ \A n \in 1 .. Len(k.queue[s]) - 1 :
                  k'.queue[s][n] = IF n < j THEN k.queue[s][n] ELSE k.queue[s][n + 1]
        <5>1. PICK q : q = k.queue[s]
          OBVIOUS
        <5>2. PICK r : r = k'.queue[s]
          OBVIOUS
        <5>3. q \in Seq(Message) /\ j \in 1 .. Len(q) /\ r = RemoveAt(q, j)
          BY <1>5, <3>1, <5>1, <5>2
        <5>4. /\ Len(RemoveAt(q, j)) = Len(q) - 1
              /\ \A n \in 1 .. Len(q) - 1 :
                    RemoveAt(q, j)[n] = IF n < j THEN q[n] ELSE q[n + 1]
          BY <5>3, RemoveAtLeaves
        <5> QED  BY <5>1, <5>2, <5>3, <5>4
      <4>2. Len(k.queue[s]) \in Nat
        BY <1>5
      <4> QED  BY <1>7, <4>1, <4>2
    <3>4. ServerSound(s)'
      BY <3>1, <3>2, <3>3 DEF ServerSound, Request, FromTm
    <3>5. ~UserJob(s)'
      <4>1. k'.inbox[s].from = TM /\ TM \notin Users
        BY <3>1, <3>2, SystemThreads DEF FromTm
      <4> QED  BY <2>0, <4>1 DEF UserJob, Returns, ReplyId
    <3>6. (MmFree => MmFree') /\ (MmOwes => MmOwes')
      BY <1>5, <1>7, <3>1, <3>2, MmTakes
    <3> QED  BY <3>4, <3>5, <3>6
  <2>2. CASE /\ \A j \in 1 .. Len(k.queue[s]) : ~Matches(k.queue[s][j], ANY, "ANYMSGTYPE")
             /\ Sleeps(s)' /\ k'.queue[s] = k.queue[s]
             /\ k'.pend[s] = [status |-> "WAITING", from |-> ANY, id |-> "ANYMSGTYPE"]
    <3>1. \A j \in 1 .. Len(k.queue[s]) : FALSE
      BY <2>2 DEF Matches
    <3>2. k.queue[s] = << >>
      <4>1. Len(k.queue[s]) = 0
        BY <1>5, <3>1
      <4> QED  BY <1>5, <4>1
    <3>3. Resting(s)'
      BY <2>2, <3>2 DEF Resting, Waiting
    <3>4. ~UserJob(s)'
      BY <2>2 DEF UserJob
    <3>5. s = MM => (MmFree => MmFree') /\ (MmOwes => MmOwes')
      <4>1. ASSUME s = MM PROVE (MmFree => MmFree') /\ ~MmOwes
        <5>1. ~Taken /\ ~Answering
          BY <1>6, <4>1, ServerPrograms, SystemThreads DEF Taken, Holds, Answering
        <5>2. ~OnceInQueue
          BY <3>1, <4>1 DEF OnceInQueue
        <5>3. MmFree'
          BY <3>3, <4>1, RestingFree
        <5> QED  BY <5>1, <5>2, <5>3 DEF MmOwes
      <4> QED  BY <4>1
    <3> QED  BY <3>3, <3>4, <3>5 DEF ServerSound
  <2> QED  BY <1>3, <2>1, <2>2
<1>9. UserFirst'
  BY <1>1, <1>4, <1>7, <1>8, JobsKept
<1>10. TmPhase'
  BY <1>1, <1>4, <1>8, StillMM, PhaseKept DEF SInv
<1>11. \A t \in Servers : ServerSound(t)'
  BY <1>1, <1>4, <1>8, StillStands DEF SInv
<1> QED  BY <1>9, <1>10, <1>11 DEF SInv

\* s looks at a request.
LEMMA ServerServes ==
    ASSUME IInv, SInv, NEW s \in Servers, k.sched.running = s, todo[s] = <<Serve>>,
           k' = [k EXCEPT !.inbox[s] = Empty],
           todo'[s] = ServerServe(k.inbox[s]) \o MainLoop,
           \A t \in Kernel \ {s} : todo'[t] = todo[t], DriversLive', UserPrograms'
    PROVE  SInv'
<1>1. /\ KernelSound(k) /\ s \in Thread /\ Kernel \subseteq Thread
      /\ Kernel = {TM} \cup Servers /\ TM \notin Servers /\ MM \in Servers
      /\ TM \in Thread /\ TM \notin Users
      /\ \A u \in Users : u \in Thread
  BY KernelThreads, SystemThreads DEF IInv, Typed, Kernel
<1>2. /\ MainLoop # <<Serve>>
      /\ \A r \in Thread : Returns(s, r) # <<Serve>> /\ Returns(s, r) # MainLoop
      /\ \A r, q \in Thread : Returns(s, r) = Returns(s, q) => r = q
  BY <1>1, ServerPrograms
<1>3. k.sched.status[s] = "RUNNING" /\ ~Sleeps(s)
  BY <1>1 DEF KernelSound, SchedSound, Sleeps
<1>4. /\ \A j \in 1 .. Len(k.queue[s]) : s = MM /\ FromTm(k.queue[s][j])
      /\ Request(s, k.inbox[s])
  BY <1>1, <1>2, <1>3 DEF SInv, ServerSound, Resting
<1>5. k.inbox[s] \in Message
  <2>1. k.inbox[s] \in Message \cup {Empty}
    BY <1>1, KernelFields DEF KernelSound
  <2>2. Empty.from \notin Thread
    BY SystemThreads DEF Empty
  <2>3. k.inbox[s].from \in Thread
    BY <1>1, <1>4 DEF Request, FromTm
  <2> QED  BY <2>1, <2>2, <2>3
<1>6. PICK m : m = k.inbox[s]
  OBVIOUS
<1>7. \/ todo'[s] = MainLoop /\ m.from = TM /\ m.id # "VM_CALL"
      \/ s = MM /\ todo'[s] = Returns(MM, TM) /\ m.from = TM /\ m.id = "VM_CALL"
      \/ m.from \in Users /\ todo'[s] = Returns(s, m.from)
  BY <1>4, <1>5, <1>6, ServeRequest
<1>8. /\ k'.sched = k.sched /\ k'.queue = k.queue /\ k'.pend = k.pend
      /\ \A t \in Thread \ {s} : k'.inbox[t] = k.inbox[t]
  BY <1>1, KernelFields DEF KernelSound
<1>9. \A t \in Kernel \ {s} : Still(t)
  BY <1>1, <1>8 DEF Still, Same, Sleeps
<1>10. ~Sleeps(s)' /\ k'.queue[s] = k.queue[s] /\ todo'[s] # <<Serve>>
  BY <1>1, <1>2, <1>3, <1>7, <1>8 DEF Sleeps
<1>11. ServerSound(s)'
  BY <1>4, <1>7, <1>10 DEF ServerSound, FromTm, Returns, ReplyId
<1>12. UserJob(s)' => UserJob(s)
  <2> SUFFICES ASSUME UserJob(s)' PROVE UserJob(s)
    OBVIOUS
  <2>1. PICK u \in Users : todo'[s] = Returns(s, u)
    BY <1>10 DEF UserJob, Returns, ReplyId
  <2>2. m.from \in Users
    BY <1>1, <1>2, <1>7, <2>1
  <2> QED  BY <1>3, <1>6, <2>2 DEF UserJob
<1>13. s = MM => (MmFree => MmFree') /\ (MmOwes => MmOwes')
  <2> SUFFICES ASSUME s = MM PROVE (MmFree => MmFree') /\ (MmOwes => MmOwes')
    OBVIOUS
  <2>1. ~Answering
    BY <1>1, <1>2 DEF Answering
  <2>2. Taken <=> m.from = TM /\ m.id = "VM_CALL"
    BY <1>3, <1>6 DEF Taken, Holds
  <2>3. Answering' <=> todo'[s] = Returns(MM, TM)
    BY DEF Answering, Returns, ReplyId
  <2>4. Answering' <=> Taken
    BY <1>1, <1>2, <1>7, <2>2, <2>3
  <2>5. ~Holds(MM)'
    BY <1>10 DEF Holds
  <2> QED  BY <1>10, <2>1, <2>4, <2>5, MmWorks
<1>14. UserFirst'
  BY <1>1, <1>3, <1>9, <1>12, JobsKept
<1>15. TmPhase'
  BY <1>1, <1>9, <1>13, StillMM, PhaseKept DEF SInv
<1>16. \A t \in Servers : ServerSound(t)'
  BY <1>1, <1>9, <1>11, StillStands DEF SInv
<1> QED  BY <1>14, <1>15, <1>16 DEF SInv

\* What is the same about every answer: s goes back to its main loop.
LEMMA ServerBack ==
    ASSUME SInv, NEW s \in Servers, NEW r \in Thread, ~Sleeps(s),
           todo[s] = Returns(s, r), todo'[s] = MainLoop, Same(s),
           \A t \in Servers \ {s} : Still(t)
    PROVE  /\ \A t \in Servers : ServerSound(t)'
           /\ UserFirst'
           /\ s = MM /\ r \in Users => (MmFree => MmFree') /\ (MmOwes => MmOwes')
           /\ s = MM /\ r = TM => MmOwes /\ MmFree'
<1>1. /\ s \in Thread /\ TM \in Thread /\ TM \notin Users /\ MM \in Servers
      /\ \A t \in Servers : t \in Thread
      /\ \A u \in Users : u \in Thread
  BY KernelThreads, SystemThreads
<1>2. /\ MainLoop # <<Serve>>
      /\ \A q \in Thread : Returns(s, q) # <<Serve>> /\ Returns(s, q) # MainLoop
      /\ \A q \in Thread : Returns(s, r) = Returns(s, q) => r = q
  BY <1>1, ServerPrograms
<1>3. ~Sleeps(s)' /\ k'.queue[s] = k.queue[s]
  BY DEF Same
<1>4. \A j \in 1 .. Len(k.queue[s]) : s = MM /\ FromTm(k.queue[s][j])
  BY DEF SInv, ServerSound, Resting
<1>5. ServerSound(s)'
  BY <1>3, <1>4 DEF ServerSound, FromTm
<1>6. ~UserJob(s)'
  BY <1>1, <1>2 DEF UserJob, Returns, ReplyId
<1>7. UserFirst'
  BY <1>6, JobsKept
<1>8. \A t \in Servers : ServerSound(t)'
  BY <1>1, <1>5, StillStands DEF SInv
<1>9. s = MM => ~Taken /\ ~Taken' /\ ~Answering' /\ ~Holds(MM)'
  BY <1>1, <1>2 DEF Taken, Holds, Answering, Returns, ReplyId
<1>10. s = MM /\ r \in Users => (MmFree => MmFree') /\ (MmOwes => MmOwes')
  <2>1. s = MM /\ r \in Users => ~Answering
    BY <1>1, <1>2 DEF Answering
  <2> QED  BY <1>3, <1>9, <2>1, MmWorks
<1>11. ASSUME s = MM, r = TM PROVE MmOwes /\ MmFree'
  <2>1. Answering /\ ~MmFree
    BY <1>11 DEF Answering, MmFree
  <2>2. MmOwes
    BY <2>1 DEF SInv, TmPhase, TmLooks, TmFinds, TmWorks, TmAsked, TmSleeps
  <2>3. ~InQueue'
    BY <1>3, <1>11, <2>1, <2>2 DEF MmOwes, InQueue
  <2> QED  BY <1>9, <1>11, <2>2, <2>3 DEF MmFree
<1> QED  BY <1>7, <1>8, <1>10, <1>11

\* s answers a user thread.  If it has no room for the answer, TM is told to
\* kill it, and TM rests.
LEMMA ServerReturns ==
    ASSUME IInv, SInv, NEW s \in Servers, k.sched.running = s,
           NEW u \in Users, todo[s] = Returns(s, u), todo'[s] = MainLoop,
           k' = kSend(k, u, [from |-> s, id |-> ReplyId(s), arg |-> NULL]),
           \A t \in Kernel \ {s} : todo'[t] = todo[t], DriversLive', UserPrograms'
    PROVE  SInv'
<1> DEFINE m == [from |-> s, id |-> ReplyId(s), arg |-> NULL]
<1>1. /\ KernelSound(k) /\ k \in KernelState /\ SchedSound(k.sched)
      /\ Range(threadList) \subseteq Thread
      /\ Kernel \subseteq Thread /\ Kernel = {TM} \cup Servers /\ TM \notin Servers
      /\ TM \in Kernel /\ MM \in Servers /\ s \in Thread /\ u \in Thread /\ u \notin Kernel
  BY KernelThreads, LenProperties, SystemThreads DEF IInv, Typed, KernelSound, Range, Kernel
<1>2. m \in Message
  BY <1>1 DEF Message, MessageId, ReplyId
<1> HIDE DEF m
<1>3. /\ Sent(k, u, m) => Passed(k', k, u, m)
      /\ ~Sent(k, u, m) => \/ k' = k
                           \/ Passed(k', k, TM, Kill(u))
  BY <1>1, <1>2, SendOutcome DEF m
<1>4. ~Sleeps(s)
  BY <1>1 DEF SchedSound, Sleeps
<1>5. Resting(TM) /\ MmFree
  <2>1. UserJob(s)
    BY <1>4 DEF UserJob
  <2>2. Resting(TM)
    BY <1>1, <2>1 DEF SInv, UserFirst, Kernel
  <2> QED  BY <2>2, RestingPhase DEF SInv
<1>6. ASSUME \A t \in Servers : Same(t)
      PROVE  /\ \A t \in Servers : ServerSound(t)'
             /\ UserFirst' /\ MmFree'
  <2>1. Same(s) /\ \A t \in Servers \ {s} : Still(t)
    BY <1>1, <1>6 DEF Still
  <2>2. /\ \A t \in Servers : ServerSound(t)'
        /\ UserFirst'
        /\ s = MM => (MmFree => MmFree')
    BY <1>1, <1>4, <2>1, ServerBack
  <2>3. MmFree'
    BY <1>1, <1>5, <2>1, <2>2, StillMM
  <2> QED  BY <2>2, <2>3
<1>7. CASE \A t \in Kernel : Same(t)
  <2>1. Still(TM)
    BY <1>1, <1>7 DEF Still
  <2>2. Resting(TM)'
    BY <1>1, <1>5, <2>1, StillStands
  <2>3. TmPhase'
    BY <1>1, <1>6, <1>7, <2>2 DEF TmPhase
  <2> QED  BY <1>1, <1>6, <1>7, <2>3 DEF SInv
<1>8. CASE k' = k
  <2>1. \A t \in Kernel : Same(t)
    BY <1>8 DEF Same, Sleeps
  <2> QED  BY <1>7, <2>1
<1>9. CASE Passed(k', k, u, m)
  <2>1. \A t \in Thread \ {u} : Same(t)
    BY <1>1, <1>2, <1>9, Delivers
  <2> QED  BY <1>1, <1>7, <2>1
<1>10. CASE Passed(k', k, TM, Kill(u))
  <2>1. Kill(u) \in Message /\ TmRequest(Kill(u))
    BY <1>1, SystemThreads DEF Kill, Message, MessageId, TmRequest, OfTm
  <2>2. Expected(k, TM, Kill(u))
    BY <1>1, <1>5, RestingTakes
  <2>3. Took(TM, Kill(u)) /\ \A t \in Servers : Same(t)
    BY <1>1, <1>10, <2>1, <2>2, Delivers
  <2>4. TmLooks'
    <3>1. MmFree'
      BY <1>6, <2>3
    <3>2. todo'[TM] = <<Serve>> /\ k.queue[TM] = << >>
      BY <1>1, <1>5 DEF Resting
    <3>3. TmRequest(k'.inbox[TM]) /\ ~Sleeps(TM)' /\ k'.queue[TM] = << >>
      BY <2>1, <2>3, <3>2 DEF Took
    <3> QED  BY <3>1, <3>2, <3>3 DEF TmLooks, Holds, TmRequest, OfTm
  <2> QED  BY <1>6, <2>3, <2>4 DEF SInv, TmPhase
<1> QED  BY <1>3, <1>8, <1>9, <1>10

\* MM answers TM, which sleeps until then or is about to receive.
LEMMA MmReturns ==
    ASSUME IInv, SInv, k.sched.running = MM,
           todo[MM] = Returns(MM, TM), todo'[MM] = MainLoop, k' = kSend(k, TM, Reply),
           \A t \in Kernel \ {MM} : todo'[t] = todo[t], DriversLive', UserPrograms'
    PROVE  SInv'
<1>1. /\ KernelSound(k) /\ k \in KernelState /\ SchedSound(k.sched)
      /\ Range(threadList) \subseteq Thread
      /\ Kernel \subseteq Thread /\ Kernel = {TM} \cup Servers /\ TM \notin Servers
      /\ TM \in Kernel /\ MM \in Servers /\ MM \in Thread /\ TM \in Thread
      /\ TM \notin Users /\ Exists(TM)
  BY KernelThreads, LenProperties, SystemThreads
  DEF IInv, Typed, KernelSound, Range, Kernel, KernelLives
<1>2. Reply \in Message
  BY <1>1 DEF Message, MessageId, Reply
<1>3. ~Sleeps(MM)
  BY <1>1 DEF SchedSound, Sleeps
<1>4. /\ Sent(k, TM, Reply) => Passed(k', k, TM, Reply)
      /\ ~Sent(k, TM, Reply) => k' = k
  BY <1>1, <1>2, SendOutcome
<1>5. ~MmFree
  BY DEF MmFree, Answering
<1>6. TmAsked \/ TmSleeps
  BY <1>5 DEF SInv, TmPhase, TmLooks, TmFinds, TmWorks
<1>7. ASSUME Passed(k', k, TM, Reply)
      PROVE  /\ \A t \in Servers : ServerSound(t)'
             /\ UserFirst' /\ MmFree'
  <2>1. \A t \in Thread \ {TM} : Same(t)
    BY <1>1, <1>2, <1>7, Delivers
  <2>2. Same(MM) /\ \A t \in Servers \ {MM} : Still(t)
    BY <1>1, <2>1 DEF Still
  <2> QED  BY <1>1, <1>3, <2>2, ServerBack
<1>8. CASE TmSleeps
  <2>1. Expected(k, TM, Reply)
    BY <1>8 DEF TmSleeps, Sleeps, AwaitsReply, Expected, Reply
  <2>2. Passed(k', k, TM, Reply)
    BY <1>1, <1>4, <2>1 DEF Sent, Accepts
  <2>3. Took(TM, Reply)
    BY <1>1, <1>2, <2>1, <2>2, Delivers
  <2>4. TmWorks'
    BY <1>1, <1>7, <1>8, <2>2, <2>3 DEF TmSleeps, TmWorks, Took
  <2> QED  BY <1>7, <2>2, <2>4 DEF SInv, TmPhase
<1>9. CASE TmAsked
  <2>1. ~Sleeps(TM) /\ k.queue[TM] = << >>
    BY <1>5, <1>9 DEF TmAsked
  <2>2. ~Expected(k, TM, Reply)
    BY <2>1 DEF Expected, Sleeps
  <2>3. Sent(k, TM, Reply)
    <3>1. Len(k.queue[TM]) = 0
      BY <2>1
    <3> QED  BY <1>1, <3>1, IPCAssumption DEF Sent, Accepts
  <2>4. Passed(k', k, TM, Reply) /\ Queued(TM, Reply)
    BY <1>1, <1>2, <1>4, <2>2, <2>3, Delivers
  <2>5. ~Sleeps(TM)' /\ k'.queue[TM] = <<Reply>>
    BY <2>1, <2>4 DEF Queued
  <2>6. TmAsked'
    <3>1. PICK p \in Seq(Instruction) : Works(p) /\ todo[TM] = Then(RecvMM, p)
      BY <1>9 DEF TmAsked
    <3>2. todo'[TM] = Then(RecvMM, p)
      BY <1>1, <3>1
    <3> QED  BY <1>7, <2>4, <2>5, <3>1, <3>2 DEF TmAsked, Reply
  <2> QED  BY <1>7, <2>4, <2>6 DEF SInv, TmPhase
<1> QED  BY <1>6, <1>8, <1>9

\* What a server executes, which is the first instruction of its program unless
\* it is a driver that faults.
LEMMA ServerDoes ==
    ASSUME IInv, SInv, NoDriverFaults', NEW s \in Servers, Step(s)
    PROVE  /\ k.sched.running = s /\ ~Sleeps(s)
           /\ UNCHANGED <<threadList, nextId>> /\ \A t \in Thread \ {s} : todo'[t] = todo[t]
           /\ DriversLive' /\ UserPrograms'
           /\ \/ /\ todo[s] = MainLoop /\ todo'[s] = <<Serve>>
                 /\ k' = kRecv(k, s, ANY, "ANYMSGTYPE")
              \/ /\ todo[s] = <<Serve>> /\ todo'[s] = ServerServe(k.inbox[s]) \o MainLoop
                 /\ k' = [k EXCEPT !.inbox[s] = Empty]
              \/ \E r \in Users \cup {TM} :
                    /\ todo[s] = Returns(s, r) /\ todo'[s] = MainLoop
                    /\ r = TM => s = MM
                    /\ k' = kSend(k, r, [from |-> s, id |-> ReplyId(s), arg |-> NULL])
<1>1. /\ k.sched.running = s /\ s \in Thread /\ s # TM /\ s # Idle /\ s \notin Users
      /\ KernelSound(k) /\ SchedSound(k.sched) /\ todo \in [Thread -> Seq(Instruction)]
      /\ Kernel \subseteq Thread /\ Kernel = {TM} \cup Servers /\ TM \notin Servers
      /\ \A u \in Users : u \in Thread
      /\ s \in Drivers \/ s = MM
  BY KernelThreads, SystemThreads DEF Step, running, IInv, Typed, KernelSound, Kernel
<1>2. PICK i \in NextInstr(s) :
          \/ SendStep(s, i) \/ RecvStep(s, i) \/ ExitStep(s, i)
          \/ FaultStep(s, i) \/ YieldStep(s, i) \/ ServeStep(s, i)
  BY DEF Step
<1>3. UNCHANGED <<threadList, nextId>>
  BY <1>2 DEF SendStep, RecvStep, ExitStep, FaultStep, YieldStep, ServeStep
<1>4. DriversLive'
  <2>1. \A t \in Thread : Absent(k', t) <=> Absent(k, t)
    BY <1>1, StepMoves DEF Moves
  <2> QED  BY <1>3, <2>1, SystemThreads DEF SInv, DriversLive, Exists
<1>5. ~Sleeps(s)
  BY <1>1 DEF SchedSound, Sleeps
<1>6. ASSUME NEW q, todo' = [todo EXCEPT ![s] = q]
      PROVE  /\ todo'[s] = q /\ UserPrograms'
             /\ \A t \in Thread \ {s} : todo'[t] = todo[t]
  <2>1. \A t \in Thread : todo'[t] = IF t = s THEN q ELSE todo[t]
    BY <1>1, <1>6
  <2> QED  BY <1>1, <2>1 DEF UserPrograms, SInv, UserNext, Beyond
<1>7. /\ Listen.do = "recv" /\ Serve.do = "serve"
      /\ Listen.to = ANY /\ Listen.id = "ANYMSGTYPE"
      /\ Own("fault", NULL).do = "fault"
      /\ \A r : /\ Send(r, ReplyId(s), NULL).do = "send"
                /\ Send(r, ReplyId(s), NULL).to = r
                /\ Send(r, ReplyId(s), NULL).id = ReplyId(s)
                /\ Send(r, ReplyId(s), NULL).arg = NULL
  BY DEF Listen, Recv, Serve, Own, Send, Instr
<1>8. ~FaultStep(s, Own("fault", NULL)) \/ s \notin Drivers
  <2> SUFFICES ASSUME FaultStep(s, Own("fault", NULL)), s \in Drivers PROVE FALSE
    OBVIOUS
  <2>1. todo'[s] = <<Own("fault", NULL)>>
    BY <1>1 DEF FaultStep
  <2> QED  BY <2>1 DEF NoDriverFaults
<1>9. /\ i = Head(todo[s]) \/ (i = Own("fault", NULL) /\ s \in Drivers)
      /\ Rest(s) = Tail(todo[s])
  <2>1. todo[s] # << >>
    <3>1. MainLoop # << >> /\ <<Serve>> # << >> /\ \A r \in Thread : Returns(s, r) # << >>
      BY MainLoopIs, ServerPrograms
    <3> QED  BY <1>1, <1>5, <3>1, SystemThreads DEF SInv, ServerSound, Resting
  <2>2. i = Head(todo[s]) \/ (s \in Drivers /\ i = Own("fault", NULL))
    BY <2>1 DEF NextInstr
  <2>3. Rest(s) = Tail(todo[s])
    BY <2>1 DEF Rest
  <2> QED  BY <2>2, <2>3
<1>10. i # Own("fault", NULL) \/ s \notin Drivers
  BY <1>2, <1>7, <1>8
       DEF SendStep, RecvStep, ExitStep, FaultStep, YieldStep, ServeStep
<1>11. i = Head(todo[s]) /\ Rest(s) = Tail(todo[s])
  BY <1>9, <1>10
<1>12. CASE todo[s] = MainLoop
  <2>1. i = Listen /\ Rest(s) = <<Serve>>
    BY <1>11, <1>12, MainLoopIs
  <2>2. RecvStep(s, Listen)
    BY <1>2, <1>7, <2>1 DEF SendStep, RecvStep, ExitStep, FaultStep, YieldStep, ServeStep
  <2>3. k' = kRecv(k, s, ANY, "ANYMSGTYPE") /\ todo' = [todo EXCEPT ![s] = <<Serve>>]
    BY <1>7, <2>1, <2>2 DEF RecvStep
  <2> QED  BY <1>1, <1>3, <1>4, <1>5, <1>6, <1>12, <2>3
<1>13. CASE todo[s] = <<Serve>>
  <2>1. i = Serve
    BY <1>11, <1>13, MainLoopIs
  <2>2. ServeStep(s, Serve)
    BY <1>2, <1>7, <2>1 DEF SendStep, RecvStep, ExitStep, FaultStep, YieldStep, ServeStep
  <2>3. /\ k' = [k EXCEPT !.inbox[s] = Empty]
        /\ todo' = [todo EXCEPT ![s] = ServerServe(k.inbox[s]) \o MainLoop]
    BY <1>1, <2>2 DEF ServeStep
  <2> QED  BY <1>1, <1>3, <1>4, <1>5, <1>6, <1>13, <2>3
<1>14. ASSUME NEW r \in Users \cup {TM}, todo[s] = Returns(s, r), r = TM => s = MM
       PROVE  /\ todo'[s] = MainLoop /\ UserPrograms'
              /\ \A t \in Thread \ {s} : todo'[t] = todo[t]
              /\ k' = kSend(k, r, [from |-> s, id |-> ReplyId(s), arg |-> NULL])
  <2>1. i = Send(r, ReplyId(s), NULL) /\ Rest(s) = MainLoop
    BY <1>1, <1>11, <1>14, ServerPrograms, SystemThreads
  <2>2. SendStep(s, Send(r, ReplyId(s), NULL))
    BY <1>2, <1>7, <2>1 DEF SendStep, RecvStep, ExitStep, FaultStep, YieldStep, ServeStep
  <2>3. /\ k' = kSend(k, r, [from |-> s, id |-> ReplyId(s), arg |-> NULL])
        /\ todo' = [todo EXCEPT ![s] = MainLoop]
    BY <1>7, <2>1, <2>2 DEF SendStep
  <2> QED  BY <1>6, <2>3
<1>15. CASE \E r \in Users \cup {TM} : todo[s] = Returns(s, r) /\ (r = TM => s = MM)
  BY <1>1, <1>3, <1>4, <1>5, <1>14, <1>15
<1>16. \/ todo[s] = MainLoop \/ todo[s] = <<Serve>>
       \/ \E r \in Users \cup {TM} : todo[s] = Returns(s, r) /\ (r = TM => s = MM)
  <2>1. TM \notin Users
    BY SystemThreads
  <2> QED  BY <1>5, <2>1 DEF SInv, ServerSound, Resting
<1> QED  BY <1>12, <1>13, <1>15, <1>16

\* Every step of a server keeps the invariant.
LEMMA ServerStep ==
    ASSUME IInv, SInv, NoDriverFaults', NEW s \in Servers, Step(s)
    PROVE  SInv'
<1>1. /\ k.sched.running = s /\ \A t \in Thread \ {s} : todo'[t] = todo[t]
      /\ DriversLive' /\ UserPrograms'
      /\ \/ /\ todo[s] = MainLoop /\ todo'[s] = <<Serve>>
            /\ k' = kRecv(k, s, ANY, "ANYMSGTYPE")
         \/ /\ todo[s] = <<Serve>> /\ todo'[s] = ServerServe(k.inbox[s]) \o MainLoop
            /\ k' = [k EXCEPT !.inbox[s] = Empty]
         \/ \E r \in Users \cup {TM} :
               /\ todo[s] = Returns(s, r) /\ todo'[s] = MainLoop
               /\ r = TM => s = MM
               /\ k' = kSend(k, r, [from |-> s, id |-> ReplyId(s), arg |-> NULL])
  BY ServerDoes
<1>2. \A t \in Kernel \ {s} : todo'[t] = todo[t]
  BY <1>1, KernelThreads
<1>3. CASE todo[s] = MainLoop /\ todo'[s] = <<Serve>> /\ k' = kRecv(k, s, ANY, "ANYMSGTYPE")
  BY <1>1, <1>2, <1>3, ServerReceives
<1>4. CASE /\ todo[s] = <<Serve>> /\ todo'[s] = ServerServe(k.inbox[s]) \o MainLoop
           /\ k' = [k EXCEPT !.inbox[s] = Empty]
  BY <1>1, <1>2, <1>4, ServerServes
<1>5. ASSUME NEW r \in Users \cup {TM}, todo[s] = Returns(s, r), todo'[s] = MainLoop,
             r = TM => s = MM,
             k' = kSend(k, r, [from |-> s, id |-> ReplyId(s), arg |-> NULL])
      PROVE  SInv'
  <2>1. CASE r \in Users
    BY <1>1, <1>2, <1>5, <2>1, ServerReturns
  <2>2. CASE r = TM
    <3>1. s = MM /\ [from |-> s, id |-> ReplyId(s), arg |-> NULL] = Reply
      BY <1>5, <2>2 DEF Reply, ReplyId
    <3> QED  BY <1>1, <1>2, <1>5, <2>2, <3>1, MmReturns
  <2> QED  BY <2>1, <2>2
<1> QED  BY <1>1, <1>3, <1>4, <1>5

-----------------------------------------------------------------------------
(* TM's steps *)

\* A program of TM's work is over but for its last answer, or has an
\* instruction to do first.
LEMMA WorksStarts ==
    ASSUME NEW p, Works(p)
    PROVE  /\ p \in Seq(Instruction)
           /\ \/ Finish(p)
              \/ \E i \in Work, q \in Seq(Instruction) : Works(q) /\ p = Then(i, q)
<1>1. PICK v \in Seq(Work), f \in Seq(Instruction) : Finish(f) /\ p = v \o f
  BY DEF Works
<1>2. v \in Seq(Instruction) /\ Work \subseteq Instruction
  BY WorkIs
<1>3. p \in Seq(Instruction)
  BY <1>1, <1>2, ConcatProperties
<1>4. CASE v = << >>
  BY <1>1, <1>3, <1>4, ConcatEmptySeq
<1>5. CASE v # << >>
  <2>1. v \o f = Then(Head(v), Tail(v) \o f)
    BY <1>2, <1>5, HeadTailConcat
  <2>2. Head(v) \in Work /\ Tail(v) \in Seq(Work)
    BY <1>5, HeadTailProperties
  <2>3. Tail(v) \o f \in Seq(Instruction)
    BY <2>2, WorkIs, ConcatProperties
  <2>4. Works(Tail(v) \o f)
    BY <1>1, <2>2 DEF Works
  <2> QED  BY <1>1, <1>3, <2>1, <2>2, <2>3, <2>4
<1> QED  BY <1>4, <1>5

\* More work before work is work.
LEMMA WorksOn ==
    ASSUME NEW v \in Seq(Work), NEW p, Works(p)
    PROVE  Works(v \o p) /\ v \o p \in Seq(Instruction)
<1>1. PICK w \in Seq(Work), f \in Seq(Instruction) : Finish(f) /\ p = w \o f
  BY DEF Works
<1>2. v \in Seq(Instruction) /\ w \in Seq(Instruction)
  BY WorkIs
<1>3. v \o (w \o f) = (v \o w) \o f
  BY <1>1, <1>2, Reassociate
<1>4. v \o w \in Seq(Work)
  BY <1>1, ConcatProperties
<1>5. Works(v \o p)
  BY <1>1, <1>3, <1>4 DEF Works
<1> QED  BY <1>5, WorksStarts

\* What TM does about a request is work, and never on a thread of the kernel.
LEMMA ServeWorks ==
    ASSUME IInv, NEW m \in Message, TmRequest(m)
    PROVE  Works(TmServe(m) \o MainLoop)
<1>1. /\ MainLoop \in Seq(Instruction) /\ Finish(MainLoop) /\ Works(MainLoop)
  BY MainLoopIs, WorkIs DEF Finish
<1>2. \A u \in Users : threadDestroy(u) \in Seq(Work)
  <2> TAKE u \in Users
  <2>1. /\ Own("unhash", u) \in Work /\ Own("unschedule", u) \in Work
        /\ Call(MM, "VM_CALL", NULL) \in Work /\ Send(MM, "VM_CLEANUP", NULL) \in Work
        /\ Own("freeblocked", u) \in Work
    BY DEF Work, OwnWork, CallMM
  <2>2. CASE Exists(u)
    BY <2>1, <2>2 DEF threadDestroy
  <2>3. CASE ~Exists(u)
    BY <2>3 DEF threadDestroy
  <2> QED  BY <2>2, <2>3
<1>3. threadStart \in Seq(Work)
  <2>1. CASE nextId > Len(UserIds)
    BY <2>1 DEF threadStart
  <2>2. CASE ~(nextId > Len(UserIds))
    <3>1. nextId \in 1 .. Len(UserIds)
      <4>1. nextId \in Nat \ {0} /\ Len(UserIds) \in Nat
        BY LenProperties, IPCAssumption DEF IInv, Typed
      <4> QED  BY <4>1, <2>2
    <3>2. UserIds[nextId] \in Users
      BY <3>1, IPCAssumption DEF Users, Range
    <3>3. PICK u \in Users : u = UserIds[nextId]
      BY <3>2
    <3>4. /\ Own("hash", u) \in Work /\ Own("build", u) \in Work /\ Own("ready", u) \in Work
          /\ Call(MM, "VM_CALL", NULL) \in Work
      BY DEF Work, OwnWork, CallMM
    <3>5. threadStart = <<Call(MM, "VM_CALL", NULL), Own("hash", u),
                          Call(MM, "VM_CALL", NULL), Own("build", u), Own("ready", u)>>
      BY <2>2, <3>3 DEF threadStart
    <3> QED  BY <3>4, <3>5
  <2> QED  BY <2>1, <2>2
<1>4. ASSUME NEW v \in Seq(Work), NEW r \in Thread, NEW id \in AnswerId, Answers(r, id)
      PROVE  Works((v \o <<Send(r, id, NULL)>>) \o MainLoop)
  <2>1. Send(r, id, NULL) \in Instruction
    <3>1. id \in MessageId
      BY DEF AnswerId, MessageId
    <3> QED  BY <3>1, Instructions
  <2>2. <<Send(r, id, NULL)>> \in Seq(Instruction) /\ v \in Seq(Instruction)
    BY <2>1, WorkIs
  <2>3. (v \o <<Send(r, id, NULL)>>) \o MainLoop = v \o (<<Send(r, id, NULL)>> \o MainLoop)
    BY <1>1, <2>2, Reassociate
  <2>4. <<Send(r, id, NULL)>> \o MainLoop = Answer(r, id)
    BY DEF Answer, Then
  <2>5. Works(Answer(r, id))
    BY <1>4, WorkIs DEF Finish
  <2> QED  BY <2>3, <2>4, <2>5, WorksOn
<1>5. ASSUME NEW r \in Thread, NEW id \in AnswerId, Answers(r, id)
      PROVE  Works(<<Send(r, id, NULL)>> \o MainLoop)
  <2>1. <<Send(r, id, NULL)>> \o MainLoop = Answer(r, id)
    BY DEF Answer, Then
  <2> QED  BY <2>1, <1>5, WorkIs DEF Finish
<1>6. \A u \in Users : u \in Thread
  BY SystemThreads
<1>7. TM \in Thread /\ MM \in Thread /\ MM \notin Users /\ TM \notin Users
  BY SystemThreads
<1>8. CASE m.from \in Users /\ m.id = "TM_START"
  <2>1. TmServe(m) = threadStart \o <<Send(m.from, "TM_STARTREPLY", NULL)>>
    BY <1>8 DEF TmServe
  <2>2. Answers(m.from, "TM_STARTREPLY") /\ "TM_STARTREPLY" \in AnswerId
    BY <1>8 DEF Answers, AnswerId
  <2> QED  BY <1>3, <1>4, <1>6, <1>8, <2>1, <2>2
<1>9. CASE m.from \in Users /\ m.id = "TM_EXIT"
  <2>1. TmServe(m) = threadDestroy(m.from)
    BY <1>9 DEF TmServe
  <2> QED  BY <1>1, <1>2, <1>9, <2>1, WorksOn
<1>10. CASE m.id = "TM_KILL"
  <2>1. TmServe(m) = threadKill(m.arg, m.from) \o <<Send(m.from, "TM_KILLREPLY", NULL)>>
    BY <1>10 DEF TmServe
  <2>2. m.from \in Users \/ (m.from \in {TM, MM} /\ m.arg \in Users)
    BY <1>10 DEF TmRequest, OfTm
  <2>3. threadKill(m.arg, m.from) \in Seq(Work)
    BY <1>2, <1>7, <2>2 DEF threadKill
  <2>4. Answers(m.from, "TM_KILLREPLY") /\ "TM_KILLREPLY" \in AnswerId /\ m.from \in Thread
    BY <1>6, <1>7, <2>2 DEF Answers, AnswerId
  <2> QED  BY <1>4, <2>1, <2>3, <2>4
<1>11. CASE m.id = "TM_KILLREPLY"
  <2>1. TmServe(m) = << >>
    BY <1>11 DEF TmServe
  <2> QED  BY <1>1, <2>1, ConcatEmptySeq
<1>12. CASE m.from \in Users /\ m.id = "DATA"
  <2>1. TmServe(m) = <<Send(m.from, "UNKNOWN_SYSCALL", NULL)>>
    BY <1>12 DEF TmServe
  <2>2. Answers(m.from, "UNKNOWN_SYSCALL") /\ "UNKNOWN_SYSCALL" \in AnswerId
    BY <1>12 DEF Answers, AnswerId
  <2> QED  BY <1>5, <1>6, <1>12, <2>1, <2>2
<1> QED  BY <1>8, <1>9, <1>10, <1>11, <1>12 DEF TmRequest, OfTm

\* While TM does not sleep no server works for a user.
LEMMA TmAlone ==
    ASSUME SInv, ~Sleeps(TM)
    PROVE  \A s \in Servers : ~UserJob(s)
BY KernelThreads DEF SInv, UserFirst, Resting

\* The servers are left alone.
LEMMA TmKeeps ==
    ASSUME SInv, ~Sleeps(TM), \A t \in Servers : Still(t),
           TmPhase', DriversLive', UserPrograms'
    PROVE  SInv'
<1>1. \A t \in Servers : t \in Thread
  BY KernelThreads
<1>2. \A t \in Servers : ServerSound(t)' /\ ~UserJob(t)'
  BY <1>1, StillStands, TmAlone DEF SInv
<1> QED  BY <1>2 DEF SInv, UserFirst

\* TM sends a message to MM.
LEMMA TmTells ==
    ASSUME IInv, SInv, k.sched.running = TM, MmFree,
           NEW m \in Message, FromTm(m), k' = kSend(k, MM, m),
           \A t \in Servers : todo'[t] = todo[t]
    PROVE  /\ \A t \in Servers : ServerSound(t)' /\ ~UserJob(t)'
           /\ Same(TM)
           /\ Sent(k, MM, m) /\ m.id = "VM_CALL" => MmOwes'
           /\ ~(Sent(k, MM, m) /\ m.id = "VM_CALL") => MmFree'
<1>1. /\ KernelSound(k) /\ k \in KernelState /\ SchedSound(k.sched)
      /\ Range(threadList) \subseteq Thread
      /\ Kernel \subseteq Thread /\ Kernel = {TM} \cup Servers /\ TM \notin Servers
      /\ MM \in Servers /\ MM \in Thread /\ TM \in Thread /\ MM \notin Users
      /\ TM \notin Users /\ TM # MM
      /\ \A t \in Servers : t \in Thread
  BY KernelThreads, LenProperties, SystemThreads
  DEF IInv, Typed, KernelSound, Range, Kernel
<1>2. /\ Sent(k, MM, m) => Passed(k', k, MM, m)
      /\ ~Sent(k, MM, m) => k' = k
  BY <1>1, SendOutcome
<1>3. ~Sleeps(TM)
  BY <1>1 DEF SchedSound, Sleeps
<1>4. \A s \in Servers : ~UserJob(s)
  BY <1>3, TmAlone
<1>5. CASE ~Sent(k, MM, m)
  <2>1. \A t \in Kernel : Same(t)
    BY <1>2, <1>5 DEF Same, Sleeps
  <2>2. \A t \in Servers : Still(t)
    BY <1>1, <2>1 DEF Still
  <2>3. \A t \in Servers : ServerSound(t)' /\ ~UserJob(t)'
    BY <1>1, <1>4, <2>2, StillStands DEF SInv
  <2>4. MmFree'
    BY <1>1, <2>2, StillMM
  <2> QED  BY <1>1, <1>5, <2>1, <2>3, <2>4
<1>6. CASE Sent(k, MM, m)
  <2>1. /\ \A t \in Thread \ {MM} : Same(t)
        /\ Expected(k, MM, m) => Sleeps(MM) /\ Took(MM, m)
        /\ ~Expected(k, MM, m) => Queued(MM, m)
    BY <1>1, <1>2, <1>6, Delivers
  <2>2. \A t \in Servers \ {MM} : Still(t)
    BY <1>1, <2>1 DEF Still
  <2>3. \A t \in Servers \ {MM} : ServerSound(t)' /\ ~UserJob(t)'
    BY <1>1, <1>4, <2>2, StillStands DEF SInv
  <2>4. <<Serve>> # Returns(MM, TM) /\ \A u \in Users : <<Serve>> # Returns(MM, u)
    BY <1>1, ServerPrograms, SystemThreads
  <2>5. /\ ServerSound(MM)' /\ ~UserJob(MM)'
        /\ m.id = "VM_CALL" => MmOwes'
        /\ m.id # "VM_CALL" => MmFree'
    <3>1. CASE Expected(k, MM, m)
      <4>1. Resting(MM)
        BY <1>1, <2>1, <3>1 DEF SInv, ServerSound
      <4>2. /\ ~Sleeps(MM)' /\ k'.inbox[MM] = m /\ k'.queue[MM] = << >>
            /\ todo'[MM] = <<Serve>>
        BY <1>1, <2>1, <3>1, <4>1 DEF Took, Resting
      <4>3. ServerSound(MM)'
        BY <4>2 DEF ServerSound, Request, FromTm
      <4>4. ~UserJob(MM)'
        BY <1>1, <2>4, <4>2 DEF UserJob, FromTm, Returns, ReplyId
      <4>5. ~InQueue' /\ ~Answering' /\ (Taken' <=> m.id = "VM_CALL")
        BY <2>4, <4>2 DEF InQueue, Answering, Taken, Holds, FromTm, Returns, ReplyId
      <4> QED  BY <4>3, <4>4, <4>5 DEF MmOwes, MmFree
    <3>2. CASE ~Expected(k, MM, m)
      <4>1. ~Resting(MM)
        BY <1>1, <3>2, RestingTakes
      <4>2. /\ ~Sleeps(MM)
            /\ \A j \in 1 .. Len(k.queue[MM]) : FromTm(k.queue[MM][j])
        BY <1>1, <4>1 DEF SInv, ServerSound
      <4>3. /\ ~Sleeps(MM)' /\ k'.inbox[MM] = k.inbox[MM] /\ todo'[MM] = todo[MM]
            /\ k'.queue[MM] = Append(k.queue[MM], m)
        BY <1>1, <2>1, <3>2, <4>2 DEF Queued
      <4>4. PICK q : q = k.queue[MM]
        OBVIOUS
      <4>5. PICK r : r = k'.queue[MM]
        OBVIOUS
      <4>6. q \in Seq(Message) /\ r = Append(q, m)
        BY <1>1, <4>3, <4>4, <4>5, KernelFields
      <4>7. /\ Len(q) \in Nat /\ Len(r) = Len(q) + 1 /\ r[Len(q) + 1] = m
            /\ \A j \in 1 .. Len(q) : r[j] = q[j]
        BY <4>6
      <4>8. \A j \in 1 .. Len(r) : FromTm(r[j])
        BY <4>2, <4>4, <4>7
      <4>9. ServerSound(MM)'
        <5>1. \A j \in 1 .. Len(k'.queue[MM]) : FromTm(k'.queue[MM][j])
          BY <4>5, <4>8
        <5>2. \/ todo[MM] = MainLoop
              \/ todo[MM] = <<Serve>> /\ Request(MM, k.inbox[MM])
              \/ todo[MM] = Returns(MM, TM)
              \/ \E u \in Users : todo[MM] = Returns(MM, u)
          BY <1>1, <4>1 DEF SInv, ServerSound
        <5> QED  BY <4>3, <5>1, <5>2 DEF ServerSound, Request, FromTm, Returns, ReplyId
      <4>10. ~UserJob(MM)'
        BY <1>1, <1>4, <4>2, <4>3 DEF UserJob, Returns, ReplyId
      <4>11. ~Taken /\ ~Answering /\ ~Taken' /\ ~Answering'
        BY <4>2, <4>3 DEF MmFree, Taken, Answering, Holds, Returns, ReplyId
      <4>12. \A j \in 1 .. Len(q) : q[j].id # "VM_CALL"
        BY <4>4 DEF MmFree, InQueue
      <4>13. ASSUME m.id = "VM_CALL" PROVE OnceInQueue'
        <5>1. Len(q) + 1 \in 1 .. Len(r)
          BY <4>7
        <5>2. \A n \in 1 .. Len(r) : r[n].id = "VM_CALL" <=> n = Len(q) + 1
          BY <4>7, <4>12, <4>13
        <5> QED  BY <4>5, <5>1, <5>2 DEF OnceInQueue
      <4>14. ASSUME m.id # "VM_CALL" PROVE ~InQueue'
        <5>1. \A n \in 1 .. Len(r) : r[n].id # "VM_CALL"
          BY <4>7, <4>12, <4>14
        <5> QED  BY <4>5, <5>1 DEF InQueue
      <4> QED  BY <4>9, <4>10, <4>11, <4>13, <4>14 DEF MmOwes, MmFree
    <3> QED  BY <3>1, <3>2
  <2> QED  BY <1>1, <1>6, <2>1, <2>3, <2>5
<1> QED  BY <1>5, <1>6

\* A queue of one message is empty without it.
LEMMA OneLeaves ==
    ASSUME NEW q \in Seq(Message), Len(q) = 1
    PROVE  RemoveAt(q, 1) = << >>
<1>1. PICK j \in 1 .. Len(q) : j = 1
  OBVIOUS
<1>2. RemoveAt(q, j) \in Seq(Message) /\ Len(RemoveAt(q, j)) = Len(q) - 1
  BY RemoveAtLeaves
<1>3. Len(RemoveAt(q, j)) = 0
  BY <1>2
<1> QED  BY <1>1, <1>2, <1>3

\* TM looks at a request.
LEMMA TmServes ==
    ASSUME IInv, SInv, IInv', TmLooks, Step(TM) \/ TmStep
    PROVE  SInv'
<1>1. /\ k.sched.running = TM /\ ServeStep(TM, Serve)
  <2>1. todo[TM] = Then(Serve, << >>) /\ << >> \in Seq(Instruction) /\ Serve \in Instruction
    BY MainLoopIs, Instructions DEF TmLooks, Holds
  <2>2. Serve.do = "serve"
    BY DEF Serve, Own, Instr
  <2> QED  BY <2>1, <2>2, TmDoes
<1>2. /\ k' = [k EXCEPT !.inbox[TM] = Empty]
      /\ todo' = [todo EXCEPT ![TM] = TmServe(k.inbox[TM]) \o MainLoop]
      /\ UNCHANGED <<threadList, nextId>>
  BY <1>1 DEF ServeStep
<1>3. /\ KernelSound(k) /\ todo \in [Thread -> Seq(Instruction)]
      /\ Kernel \subseteq Thread /\ Kernel = {TM} \cup Servers /\ TM \notin Servers
      /\ MM \in Servers /\ TM \in Thread /\ TM \notin Users
      /\ \A u \in Users : u \in Thread
  BY KernelThreads, SystemThreads DEF IInv, Typed, Kernel
<1>4. /\ k'.sched = k.sched /\ k'.queue = k.queue /\ k'.pend = k.pend
      /\ \A t \in Thread \ {TM} : k'.inbox[t] = k.inbox[t]
  BY <1>2, <1>3, KernelFields DEF KernelSound
<1>5. \A t \in Servers : Still(t)
  BY <1>2, <1>3, <1>4 DEF Still, Same, Sleeps
<1>6. k.inbox[TM] \in Message
  <2>1. k.inbox[TM] \in Message \cup {Empty}
    BY <1>3, KernelFields DEF KernelSound
  <2>2. TmRequest(k.inbox[TM])
    BY DEF TmLooks
  <2>3. k.inbox[TM].from \in Thread
    BY <1>3, <2>2, SystemThreads DEF TmRequest, OfTm
  <2>4. Empty.from \notin Thread
    BY SystemThreads DEF Empty
  <2> QED  BY <2>1, <2>3, <2>4
<1>7. Works(TmServe(k.inbox[TM]) \o MainLoop)
  BY <1>6, ServeWorks DEF TmLooks
<1>8. todo'[TM] = TmServe(k.inbox[TM]) \o MainLoop
  BY <1>2, <1>3
<1>9. TmWorks'
  <2>1. ~Sleeps(TM)' /\ k'.queue[TM] = << >>
    BY <1>4 DEF TmLooks, Holds, Sleeps
  <2>2. MmFree'
    BY <1>3, <1>5, StillMM DEF TmLooks
  <2>3. Works(todo'[TM])
    BY <1>7, <1>8
  <2> QED  BY <2>1, <2>2, <2>3 DEF TmWorks
<1>10. DriversLive'
  BY <1>2, <1>4 DEF SInv, DriversLive, Exists, Absent
<1>11. UserPrograms'
  BY <1>2, <1>3 DEF SInv, UserPrograms, UserNext, Beyond
<1>12. ~Sleeps(TM)
  BY DEF TmLooks, Holds
<1> QED  BY <1>5, <1>9, <1>10, <1>11, <1>12, TmKeeps DEF TmPhase

\* What is the same in all of TM's receives.
LEMMA TmReceives ==
    ASSUME IInv, SInv, NEW i \in {Listen, RecvMM}, NEW q \in Seq(Instruction),
           todo[TM] = Then(i, q), Step(TM) \/ TmStep
    PROVE  /\ \A t \in Servers : Still(t)
           /\ todo'[TM] = q /\ DriversLive' /\ UserPrograms' /\ ~Sleeps(TM)
           /\ k.queue[TM] \in Seq(Message)
           /\ \/ \E j \in 1 .. Len(k.queue[TM]) :
                    /\ Matches(k.queue[TM][j], i.to, i.id)
                    /\ ~Sleeps(TM)'
                    /\ k'.inbox[TM] = k.queue[TM][j]
                    /\ k'.queue[TM] = RemoveAt(k.queue[TM], j)
              \/ /\ \A j \in 1 .. Len(k.queue[TM]) : ~Matches(k.queue[TM][j], i.to, i.id)
                 /\ Sleeps(TM)'
                 /\ k'.pend[TM] = [status |-> "WAITING", from |-> i.to, id |-> i.id]
                 /\ k'.queue[TM] = k.queue[TM]
<1>1. /\ i \in Instruction /\ i.do = "recv"
      /\ \/ i.to = ANY /\ i.id = "ANYMSGTYPE"
         \/ i.to = MM /\ i.id = "VM_REPLY"
  BY Instructions DEF Listen, RecvMM, Recv, Instr
<1>2. /\ k.sched.running = TM /\ Rest(TM) = q /\ RecvStep(TM, i)
  BY <1>1, TmDoes
<1>3. /\ k' = kRecv(k, TM, i.to, i.id) /\ todo' = [todo EXCEPT ![TM] = q]
      /\ UNCHANGED <<threadList, nextId>>
  BY <1>2 DEF RecvStep
<1>4. /\ KernelSound(k) /\ todo \in [Thread -> Seq(Instruction)]
      /\ Kernel \subseteq Thread /\ Kernel = {TM} \cup Servers /\ TM \notin Servers
      /\ TM \in Thread \ {Idle} /\ TM \notin Users /\ Exists(MM)
      /\ \A u \in Users : u \in Thread
      /\ k.queue[TM] \in Seq(Message) /\ SchedSound(k.sched)
  BY KernelThreads, SystemThreads, KernelFields
  DEF IInv, Typed, Kernel, KernelLives, KernelSound
<1>5. i.to \in Thread \cup {ANY} /\ i.id \in MessageId
  BY <1>1, SystemThreads DEF MessageId
<1>6. /\ \A u \in Thread \ {TM} : Same(u)
      /\ \/ /\ i.to # ANY /\ ~Exists(i.to)
         \/ \E j \in 1 .. Len(k.queue[TM]) :
                    /\ Matches(k.queue[TM][j], i.to, i.id)
                    /\ ~Sleeps(TM)'
                    /\ k'.inbox[TM] = k.queue[TM][j]
                    /\ k'.queue[TM] = RemoveAt(k.queue[TM], j)
         \/ /\ \A j \in 1 .. Len(k.queue[TM]) : ~Matches(k.queue[TM][j], i.to, i.id)
            /\ Sleeps(TM)'
            /\ k'.pend[TM] = [status |-> "WAITING", from |-> i.to, id |-> i.id]
            /\ k'.queue[TM] = k.queue[TM]
  <2>1. PICK f \in Thread \cup {ANY}, h \in MessageId : f = i.to /\ h = i.id
    BY <1>5
  <2>2. k' = kRecv(k, TM, f, h) /\ k.sched.running = TM /\ TM \in Thread \ {Idle}
    BY <1>2, <1>3, <1>4, <2>1
  <2>3. /\ \A u \in Thread \ {TM} : Same(u)
        /\ \/ /\ f # ANY /\ ~Exists(f)
           \/ \E j \in 1 .. Len(k.queue[TM]) :
                    /\ Matches(k.queue[TM][j], f, h)
                    /\ ~Sleeps(TM)'
                    /\ k'.inbox[TM] = k.queue[TM][j]
                    /\ k'.queue[TM] = RemoveAt(k.queue[TM], j)
           \/ /\ \A j \in 1 .. Len(k.queue[TM]) : ~Matches(k.queue[TM][j], f, h)
              /\ Sleeps(TM)'
              /\ k'.pend[TM] = [status |-> "WAITING", from |-> f, id |-> h]
              /\ k'.queue[TM] = k.queue[TM]
    <3>1. PICK t \in Thread \ {Idle} : t = TM
      BY <2>2
    <3>2. k' = kRecv(k, t, f, h) /\ k.sched.running = t /\ KernelSound(k)
      BY <1>4, <2>2, <3>1
    <3>3. /\ \A u \in Thread \ {t} : Same(u)
          /\ \/ /\ f # ANY /\ ~Exists(f)
             \/ \E j \in 1 .. Len(k.queue[t]) :
                      /\ Matches(k.queue[t][j], f, h)
                      /\ ~Sleeps(t)'
                      /\ k'.inbox[t] = k.queue[t][j]
                      /\ k'.queue[t] = RemoveAt(k.queue[t], j)
             \/ /\ \A j \in 1 .. Len(k.queue[t]) : ~Matches(k.queue[t][j], f, h)
                /\ Sleeps(t)'
                /\ k'.pend[t] = [status |-> "WAITING", from |-> f, id |-> h]
                /\ k'.queue[t] = k.queue[t]
      BY <3>2, ReceiveEffect
    <3> QED  BY <3>1, <3>3
  <2> QED  BY <2>1, <2>3
<1>7. ~(i.to # ANY /\ ~Exists(i.to))
  BY <1>1, <1>4
<1>8. \A t \in Thread : todo'[t] = IF t = TM THEN q ELSE todo[t]
  BY <1>3, <1>4
<1>9. \A t \in Servers : Still(t)
  BY <1>4, <1>6, <1>8 DEF Still
<1>10. UserPrograms'
  BY <1>4, <1>8 DEF SInv, UserPrograms, UserNext, Beyond
<1>11. DriversLive'
  <2>1. \A t \in Thread : Absent(k', t) <=> Absent(k, t)
    BY Receiving DEF Moves
  <2> QED  BY <1>3, <2>1, SystemThreads DEF SInv, DriversLive, Exists
<1>12. ~Sleeps(TM)
  BY <1>2, <1>4 DEF SchedSound, Sleeps
<1> QED  BY <1>4, <1>6, <1>7, <1>8, <1>9, <1>10, <1>11, <1>12

\* TM finds a message of its own in its main loop.
LEMMA TmFindsStep ==
    ASSUME IInv, SInv, TmFinds, Step(TM) \/ TmStep
    PROVE  SInv'
<1>1. /\ todo[TM] = Then(Listen, <<Serve>>) /\ <<Serve>> \in Seq(Instruction)
      /\ Listen.to = ANY /\ Listen.id = "ANYMSGTYPE"
  BY MainLoopIs DEF TmFinds, Listen, Recv, Instr
<1>2. /\ \A t \in Servers : Still(t)
      /\ todo'[TM] = <<Serve>> /\ DriversLive' /\ UserPrograms' /\ ~Sleeps(TM)
      /\ k.queue[TM] \in Seq(Message)
      /\ \/ \E j \in 1 .. Len(k.queue[TM]) :
                 /\ Matches(k.queue[TM][j], Listen.to, Listen.id)
                 /\ ~Sleeps(TM)'
                 /\ k'.inbox[TM] = k.queue[TM][j]
                 /\ k'.queue[TM] = RemoveAt(k.queue[TM], j)
         \/ \A j \in 1 .. Len(k.queue[TM]) :
                 ~Matches(k.queue[TM][j], Listen.to, Listen.id)
  BY <1>1, TmReceives
<1>3. Len(k.queue[TM]) = 1 /\ OfTm(k.queue[TM][1])
  BY DEF TmFinds
<1>4. PICK q : q = k.queue[TM]
  OBVIOUS
<1>5. /\ ~Sleeps(TM)' /\ k'.inbox[TM] = q[1] /\ k'.queue[TM] = RemoveAt(q, 1)
  BY <1>1, <1>2, <1>3, <1>4 DEF Matches
<1>6. k'.queue[TM] = << >>
  <2>1. q \in Seq(Message) /\ Len(q) = 1 /\ 1 \in 1 .. Len(q)
    BY <1>2, <1>3, <1>4
  <2>2. RemoveAt(q, 1) = << >>
    BY <2>1, OneLeaves
  <2> QED  BY <1>5, <2>2
<1>7. MmFree'
  BY <1>2, KernelThreads, StillMM DEF TmFinds
<1>8. TmLooks'
  BY <1>2, <1>3, <1>4, <1>5, <1>6, <1>7 DEF TmLooks, Holds, TmRequest, OfTm
<1> QED  BY <1>2, <1>8, TmKeeps DEF TmPhase

\* TM goes to rest in its main loop.
LEMMA TmRests ==
    ASSUME IInv, SInv, TmWorks, todo[TM] = MainLoop, Step(TM) \/ TmStep
    PROVE  SInv'
<1>1. /\ todo[TM] = Then(Listen, <<Serve>>) /\ <<Serve>> \in Seq(Instruction)
      /\ Listen.to = ANY /\ Listen.id = "ANYMSGTYPE"
  BY MainLoopIs DEF Listen, Recv, Instr
<1>2. k.queue[TM] = << >> /\ Len(k.queue[TM]) = 0
  BY DEF TmWorks
<1>3. /\ \A t \in Servers : Still(t)
      /\ todo'[TM] = <<Serve>> /\ DriversLive' /\ UserPrograms' /\ ~Sleeps(TM)
      /\ \/ \E j \in 1 .. Len(k.queue[TM]) : TRUE
         \/ /\ Sleeps(TM)'
            /\ k'.pend[TM] = [status |-> "WAITING", from |-> Listen.to, id |-> Listen.id]
            /\ k'.queue[TM] = k.queue[TM]
  BY <1>1, TmReceives
<1>4. Resting(TM)'
  BY <1>1, <1>2, <1>3 DEF Resting, Waiting
<1>5. MmFree'
  BY <1>3, KernelThreads, StillMM DEF TmWorks
<1> QED  BY <1>3, <1>4, <1>5, TmKeeps DEF TmPhase

\* TM receives MM's answer, or sleeps until it comes.
LEMMA TmAsks ==
    ASSUME IInv, SInv, TmAsked, Step(TM) \/ TmStep
    PROVE  SInv'
<1>1. PICK p \in Seq(Instruction) : Works(p) /\ todo[TM] = Then(RecvMM, p)
  BY DEF TmAsked
<1>2. RecvMM.to = MM /\ RecvMM.id = "VM_REPLY"
  BY DEF RecvMM, Recv, Instr
<1>3. /\ \A t \in Servers : Still(t)
      /\ todo'[TM] = p /\ DriversLive' /\ UserPrograms' /\ ~Sleeps(TM)
      /\ k.queue[TM] \in Seq(Message)
      /\ \/ \E j \in 1 .. Len(k.queue[TM]) :
                    /\ ~Sleeps(TM)'
                    /\ k'.queue[TM] = RemoveAt(k.queue[TM], j)
         \/ /\ \A j \in 1 .. Len(k.queue[TM]) :
                    ~Matches(k.queue[TM][j], RecvMM.to, RecvMM.id)
            /\ Sleeps(TM)'
            /\ k'.pend[TM] = [status |-> "WAITING", from |-> RecvMM.to, id |-> RecvMM.id]
            /\ k'.queue[TM] = k.queue[TM]
  BY <1>1, TmReceives
<1>4. (MmFree' <=> MmFree) /\ (MmOwes' <=> MmOwes)
  BY <1>3, KernelThreads, StillMM
<1>5. CASE k.queue[TM] = << >> /\ MmOwes
  <2>1. Len(k.queue[TM]) = 0
    BY <1>5
  <2>2. TmSleeps'
    BY <1>1, <1>2, <1>3, <1>4, <1>5, <2>1 DEF TmSleeps, AwaitsReply
  <2> QED  BY <1>3, <2>2, TmKeeps DEF TmPhase
<1>6. CASE k.queue[TM] = <<Reply>> /\ MmFree
  <2>1. Len(k.queue[TM]) = 1 /\ k.queue[TM][1] = Reply
    BY <1>6
  <2>2. Matches(k.queue[TM][1], MM, "VM_REPLY")
    BY <2>1 DEF Matches, Reply
  <2>3. ~Sleeps(TM)' /\ k'.queue[TM] = RemoveAt(k.queue[TM], 1)
    BY <1>2, <1>3, <2>1, <2>2
  <2>4. k'.queue[TM] = << >>
    <3>1. PICK q : q = k.queue[TM]
      OBVIOUS
    <3>2. q \in Seq(Message) /\ Len(q) = 1 /\ 1 \in 1 .. Len(q)
      BY <1>3, <2>1, <3>1
    <3>3. RemoveAt(q, 1) = << >>
      BY <3>2, OneLeaves
    <3> QED  BY <2>3, <3>1, <3>3
  <2>5. TmWorks'
    BY <1>1, <1>3, <1>4, <1>6, <2>3, <2>4 DEF TmWorks
  <2> QED  BY <1>3, <2>5, TmKeeps DEF TmPhase
<1> QED  BY <1>5, <1>6 DEF TmAsked

\* What is the same in all of TM's sends.
LEMMA TmSends ==
    ASSUME IInv, SInv, NEW i \in Instruction, NEW q \in Seq(Instruction),
           todo[TM] = Then(i, q), Step(TM) \/ TmStep,
           i.do \in {"send", "call"}, i.id \notin {"TM_KILL", "TM_EXIT"},
           NEW m, m = [from |-> TM, id |-> i.id, arg |-> i.arg]
    PROVE  /\ k' = kSend(k, i.to, m) /\ m \in Message
           /\ k.sched.running = TM /\ ~Sleeps(TM)
           /\ todo'[TM] = IF i.do = "call" /\ Sent(k, i.to, m)
                          THEN Then(Recv(i.to, ReplyTo[i.id]), q) ELSE q
           /\ \A t \in Thread \ {TM} : todo'[t] = todo[t]
           /\ DriversLive' /\ UserPrograms'
<1>1. k.sched.running = TM /\ Rest(TM) = q /\ SendStep(TM, i)
  BY TmDoes
<1>2. /\ k' = kSend(k, i.to, m)
      /\ todo' = [todo EXCEPT ![TM] = IF i.do = "call" /\ Sent(k, i.to, m)
                                      THEN <<Recv(i.to, ReplyTo[i.id])>> \o q ELSE q]
      /\ UNCHANGED <<threadList, nextId>>
  BY <1>1 DEF SendStep
<1>3. m \in Message
  BY SystemThreads DEF Message, Instruction
<1>4. todo \in [Thread -> Seq(Instruction)] /\ TM \in Thread
  BY SystemThreads DEF IInv, Typed
<1>5. /\ todo'[TM] = IF i.do = "call" /\ Sent(k, i.to, m)
                     THEN Then(Recv(i.to, ReplyTo[i.id]), q) ELSE q
      /\ \A t \in Thread \ {TM} : todo'[t] = todo[t]
  BY <1>2, <1>4 DEF Then
<1>6. UserPrograms'
  <2>1. \A u \in Users : u \in Thread \ {TM}
    BY SystemThreads
  <2> QED  BY <1>5, <2>1 DEF SInv, UserPrograms, UserNext, Beyond
<1>7. DriversLive'
  <2>1. \A t \in Thread : Absent(k', t) <=> Absent(k, t)
    BY Sending DEF Moves
  <2> QED  BY <1>2, <2>1, SystemThreads DEF SInv, DriversLive, Exists
<1>8. ~Sleeps(TM)
  BY <1>1, <1>4 DEF IInv, Typed, KernelSound, SchedSound, Sleeps
<1> QED  BY <1>1, <1>2, <1>3, <1>5, <1>6, <1>7, <1>8

\* TM asks MM, or tells it something.
LEMMA TmTellsMM ==
    ASSUME IInv, SInv, TmWorks, NEW i \in Instruction, NEW q \in Seq(Instruction),
           \/ i = CallMM
           \/ \E id \in {"VM_CLEANUP", "TM_KILLREPLY"} : i = Send(MM, id, NULL),
           todo[TM] = Then(i, q), Works(q), Step(TM) \/ TmStep
    PROVE  SInv'
<1>1. /\ i.do \in {"send", "call"} /\ i.to = MM /\ i.arg = NULL
      /\ i.id \in {"VM_CALL", "VM_CLEANUP", "TM_KILLREPLY"}
      /\ i.do = "call" <=> i.id = "VM_CALL"
      /\ i.do = "call" => Recv(i.to, ReplyTo[i.id]) = RecvMM
  BY DEF CallMM, Call, Send, Instr, RecvMM, ReplyTo
<1>2. PICK m : m = [from |-> TM, id |-> i.id, arg |-> i.arg]
  OBVIOUS
<1>3. /\ k' = kSend(k, MM, m) /\ m \in Message
      /\ k.sched.running = TM /\ ~Sleeps(TM)
      /\ todo'[TM] = IF i.do = "call" /\ Sent(k, MM, m) THEN Then(RecvMM, q) ELSE q
      /\ \A t \in Thread \ {TM} : todo'[t] = todo[t]
      /\ DriversLive' /\ UserPrograms'
  BY <1>1, <1>2, TmSends
<1>4. /\ FromTm(m) /\ m.id = i.id
  BY <1>1, <1>2 DEF FromTm
<1>5. \A t \in Servers : todo'[t] = todo[t]
  BY <1>3, KernelThreads
<1>6. /\ \A t \in Servers : ServerSound(t)' /\ ~UserJob(t)'
      /\ Same(TM)
      /\ Sent(k, MM, m) /\ m.id = "VM_CALL" => MmOwes'
      /\ ~(Sent(k, MM, m) /\ m.id = "VM_CALL") => MmFree'
  BY <1>3, <1>4, <1>5, TmTells DEF TmWorks
<1>7. ~Sleeps(TM)' /\ k'.queue[TM] = << >>
  BY <1>6 DEF Same, TmWorks
<1>8. TmPhase'
  <2>1. CASE i.do = "call" /\ Sent(k, MM, m)
    <3>1. todo'[TM] = Then(RecvMM, q) /\ MmOwes'
      BY <1>1, <1>3, <1>4, <1>6, <2>1
    <3>2. TmAsked'
      BY <1>7, <3>1 DEF TmAsked
    <3> QED  BY <3>2 DEF TmPhase
  <2>2. CASE ~(i.do = "call" /\ Sent(k, MM, m))
    <3>1. todo'[TM] = q /\ MmFree'
      BY <1>1, <1>3, <1>4, <1>6, <2>2
    <3>2. TmWorks'
      BY <1>7, <3>1 DEF TmWorks
    <3> QED  BY <3>2 DEF TmPhase
  <2> QED  BY <2>1, <2>2
<1> QED  BY <1>3, <1>6, <1>8 DEF SInv, UserFirst

\* TM's last answer: to a user thread, for which there may be no room, or to
\* the thread in whose name a kill was sent.
LEMMA TmAnswers ==
    ASSUME IInv, SInv, TmWorks, NEW r \in Thread, NEW id \in AnswerId, Answers(r, id),
           todo[TM] = Answer(r, id), Step(TM) \/ TmStep
    PROVE  SInv'
<1>1. /\ MainLoop \in Seq(Instruction) /\ Finish(MainLoop) /\ Works(MainLoop)
      /\ id \in MessageId
      /\ todo[TM] = Then(Send(r, id, NULL), MainLoop)
  BY MainLoopIs, WorkIs DEF Finish, Answer, AnswerId, MessageId
<1>2. Send(r, id, NULL) \in Instruction
  BY <1>1, Instructions
<1>3. CASE r = MM
  <2>1. id = "TM_KILLREPLY"
    BY <1>3, SystemThreads DEF Answers
  <2> QED  BY <1>1, <1>2, <1>3, <2>1, TmTellsMM
<1>4. CASE r # MM
  <2>0. /\ Send(r, id, NULL).do = "send" /\ Send(r, id, NULL).to = r
        /\ Send(r, id, NULL).id = id /\ Send(r, id, NULL).arg = NULL
        /\ id \notin {"TM_KILL", "TM_EXIT"}
    BY DEF Send, Instr, AnswerId
  <2>1. PICK m : m = [from |-> TM, id |-> id, arg |-> NULL]
    OBVIOUS
  <2>2. /\ k' = kSend(k, r, m) /\ m \in Message
        /\ k.sched.running = TM /\ ~Sleeps(TM)
        /\ todo'[TM] = MainLoop
        /\ \A t \in Thread \ {TM} : todo'[t] = todo[t]
        /\ DriversLive' /\ UserPrograms'
    BY <1>1, <1>2, <2>0, <2>1, TmSends
  <2>3. /\ KernelSound(k) /\ k \in KernelState /\ SchedSound(k.sched)
        /\ Range(threadList) \subseteq Thread
        /\ TM \notin Servers /\ MM \in Servers /\ TM \in Thread /\ Exists(TM)
        /\ \A t \in Servers : t \in Thread \ {TM} /\ t \notin Users
        /\ TM \notin Users
    BY KernelThreads, LenProperties, SystemThreads
    DEF IInv, Typed, KernelSound, Range, KernelLives, Kernel
  <2>4. /\ Sent(k, r, m) => Passed(k', k, r, m)
        /\ ~Sent(k, r, m) => \/ k' = k
                             \/ r \in Users /\ Passed(k', k, TM, Kill(r))
    BY <2>2, <2>3, SendOutcome
  <2>5. \A x \in Message : ~Expected(k, TM, x)
    BY <2>2 DEF Expected, Sleeps
  <2>6. k.queue[TM] = << >> /\ Len(k.queue[TM]) = 0 /\ MmFree
    BY DEF TmWorks
  <2>7. ASSUME NEW x \in Message, OfTm(x), Passed(k', k, TM, x) PROVE SInv'
    <3>1. Queued(TM, x) /\ \A t \in Servers : Same(t)
      BY <2>3, <2>5, <2>7, Delivers
    <3>2. \A t \in Servers : Still(t)
      BY <2>2, <2>3, <3>1 DEF Still
    <3>3. MmFree'
      BY <2>3, <2>6, <3>2, StillMM
    <3>4. k'.queue[TM] = <<x>> /\ ~Sleeps(TM)'
      BY <2>2, <2>6, <3>1 DEF Queued
    <3>5. Len(k'.queue[TM]) = 1 /\ k'.queue[TM][1] = x
      BY <3>4
    <3>6. TmFinds'
      BY <2>2, <2>7, <3>3, <3>4, <3>5 DEF TmFinds, OfTm
    <3> QED  BY <2>2, <3>2, <3>6, TmKeeps DEF TmPhase
  <2>8. ASSUME \A t \in Servers \cup {TM} : Same(t) PROVE SInv'
    <3>1. \A t \in Servers : Still(t)
      BY <2>2, <2>3, <2>8 DEF Still
    <3>2. MmFree'
      BY <2>3, <2>6, <3>1, StillMM
    <3>3. TmWorks'
      BY <1>1, <2>2, <2>6, <2>8, <3>2 DEF TmWorks, Same
    <3> QED  BY <2>2, <3>1, <3>3, TmKeeps DEF TmPhase
  <2>9. CASE r = TM
    <3>1. OfTm(m)
      BY <2>1, <2>3, <2>9 DEF Answers, OfTm
    <3>2. Sent(k, TM, m)
      BY <2>3, <2>6, IPCAssumption DEF Sent, Accepts
    <3> QED  BY <2>2, <2>4, <2>7, <2>9, <3>1, <3>2
  <2>10. CASE r \in Users
    <3>1. CASE k' = k
      <4>1. \A t \in Servers \cup {TM} : Same(t)
        BY <3>1 DEF Same, Sleeps
      <4> QED  BY <2>8, <4>1
    <3>2. CASE Passed(k', k, r, m)
      <4>1. \A t \in Thread \ {r} : Same(t)
        BY <2>2, <2>3, <3>2, Delivers
      <4>2. \A t \in Servers \cup {TM} : Same(t)
        BY <2>3, <2>10, <4>1
      <4> QED  BY <2>8, <4>2
    <3>3. CASE Passed(k', k, TM, Kill(r))
      <4>1. Kill(r) \in Message /\ OfTm(Kill(r))
        BY <2>3, <2>10 DEF Kill, Message, MessageId, OfTm
      <4> QED  BY <2>7, <3>3, <4>1
    <3> QED  BY <2>4, <3>1, <3>2, <3>3
  <2> QED  BY <1>4, <2>9, <2>10 DEF Answers
<1> QED  BY <1>3, <1>4

\* TM's own changes touch none but user threads.
LEMMA OwnChanges ==
    ASSUME IInv, SInv, NEW i \in OwnWork, NEW q \in Seq(Instruction),
           todo[TM] = Then(i, q), Step(TM) \/ TmStep
    PROVE  /\ \A t \in Kernel : Same(t)
           /\ \A t \in Servers : todo'[t] = todo[t]
           /\ \E v \in Seq(Work) : todo'[TM] = v \o q
           /\ DriversLive' /\ UserPrograms' /\ ~Sleeps(TM)
<1>1. /\ KernelSound(k) /\ k \in KernelState /\ SchedSound(k.sched)
      /\ k.sched \in Scheduler /\ todo \in [Thread -> Seq(Instruction)]
      /\ threadList \in Seq(Thread) /\ IsInjective(threadList)
      /\ TM \notin Servers /\ TM \in Thread
      /\ Kernel = {TM} \cup Servers
      /\ \A t \in Kernel : t \in Thread /\ t \notin Users
      /\ \A u \in Users : u \in Thread
      /\ Drivers \subseteq Kernel
  BY KernelThreads, SystemThreads
  DEF IInv, Typed, KernelSound, SchedSound, Kernel, Servers
<1>2. /\ k.queue \in [Thread -> Seq(Message)]
      /\ k.inbox \in [Thread -> Message \cup {Empty}]
      /\ k.pend \in [Thread -> PendingRecord]
      /\ k.ret \in [Thread -> {"OK", "FAILED"}]
      /\ k.sched.status \in [Thread -> SchedStatus]
  BY <1>1, KernelFields DEF Scheduler
<1>3. i \in Instruction
  BY WorkIs DEF Work
<1>4. /\ k.sched.running = TM /\ Rest(TM) = q
      /\ i.do = "hash"        => Hash(i)
      /\ i.do = "build"       => Build(i)
      /\ i.do = "ready"       => Ready(i)
      /\ i.do = "unhash"      => Unhash(i)
      /\ i.do = "unschedule"  => Unschedule(i)
      /\ i.do = "freeblocked" => FreeBlocked(i)
      /\ i.do = "visit"       => Visit(i)
  BY <1>3, TmDoes
<1>5. \/ i.do \in {"hash", "build", "ready", "unhash", "unschedule", "freeblocked"}
         /\ i.to \in Users
      \/ i.do = "visit" /\ i.to \in Thread /\ i.arg \in Users
  BY DEF OwnWork, Own, Instr
<1>6. ~Sleeps(TM)
  BY <1>1, <1>4 DEF SchedSound, Sleeps
<1>7. ASSUME todo' = [todo EXCEPT ![TM] = q]
      PROVE  /\ \A t \in Servers : todo'[t] = todo[t]
             /\ \E v \in Seq(Work) : todo'[TM] = v \o q
             /\ UserPrograms'
  <2>1. todo'[TM] = << >> \o q /\ << >> \in Seq(Work)
    BY <1>1, <1>7, ConcatEmptySeq
  <2>2. UserPrograms'
    BY <1>1, <1>7 DEF SInv, UserPrograms, UserNext, Beyond
  <2> QED  BY <1>1, <1>7, <2>1, <2>2
<1>8. ASSUME \A t \in Kernel :
                 /\ k'.sched.status[t] = k.sched.status[t]
                 /\ k'.pend[t] = k.pend[t]
                 /\ k'.queue[t] = k.queue[t] /\ k'.inbox[t] = k.inbox[t]
      PROVE  \A t \in Kernel : Same(t)
  BY <1>8 DEF Same, Sleeps
<1>9. ASSUME \A t \in Kernel : Exists(t) => Exists(t)', \A t \in Kernel : Same(t),
             \A t \in Kernel : k'.sched.status[t] = k.sched.status[t]
      PROVE  DriversLive'
  BY <1>1, <1>9 DEF SInv, DriversLive, Absent
<1>10. CASE i.do = "hash"
  <2>1. /\ threadList' = <<i.to>> \o threadList /\ k' = k
        /\ todo' = [todo EXCEPT ![TM] = q]
    BY <1>4, <1>10 DEF Hash
  <2>2. \A t \in Kernel : Same(t)
    BY <1>8, <2>1
  <2>3. \A t \in Kernel : Exists(t) => Exists(t)'
    <3>1. threadList' = Then(i.to, threadList) /\ i.to \in Thread
      BY <1>1, <1>5, <1>10, <2>1 DEF Then
    <3>2. threadList \in Seq(Thread)
      BY <1>1
    <3>3. PICK x \in Thread : x = i.to
      BY <3>1
    <3>4. Range(Then(x, threadList)) = {x} \cup Range(threadList)
      BY <3>2, ThenProperties
    <3> QED  BY <3>1, <3>3, <3>4 DEF Exists
  <2> QED  BY <1>6, <1>7, <1>9, <2>1, <2>2, <2>3
<1>11. CASE i.do = "build"
  <2>1. /\ k' = [k EXCEPT !.sched = schedulerInsert(@, i.to), !.queue[i.to] = << >>]
        /\ todo' = [todo EXCEPT ![TM] = q] /\ threadList' = threadList
    BY <1>4, <1>11 DEF Build
  <2>2. i.to \in Users
    BY <1>5, <1>11
  <2>3. \A t \in Kernel :
                 /\ k'.sched.status[t] = k.sched.status[t]
                 /\ k'.pend[t] = k.pend[t]
                 /\ k'.queue[t] = k.queue[t] /\ k'.inbox[t] = k.inbox[t]
    <3>1. /\ k'.sched = schedulerInsert(k.sched, i.to)
          /\ k'.queue = [k.queue EXCEPT ![i.to] = << >>]
          /\ k'.pend = k.pend /\ k'.inbox = k.inbox
      BY <1>1, <2>1 DEF KernelState
    <3>2. k'.sched.status = [k.sched.status EXCEPT ![i.to] = "BLOCKED"]
      BY <1>1, <3>1 DEF schedulerInsert, Scheduler
    <3> QED  BY <1>1, <1>2, <2>2, <3>1, <3>2
  <2> QED  BY <1>6, <1>7, <1>8, <1>9, <2>1, <2>3 DEF Exists
<1>12. CASE i.do = "ready"
  <2>1. /\ k' = [k EXCEPT !.sched = schedulerSetReady(@, i.to)]
        /\ todo' = [todo EXCEPT ![TM] = q] /\ threadList' = threadList
    BY <1>4, <1>12 DEF Ready
  <2>2. i.to \in Users
    BY <1>5, <1>12
  <2>3. \A t \in Kernel :
                 /\ k'.sched.status[t] = k.sched.status[t]
                 /\ k'.pend[t] = k.pend[t]
                 /\ k'.queue[t] = k.queue[t] /\ k'.inbox[t] = k.inbox[t]
    <3>1. /\ k'.sched = schedulerSetReady(k.sched, i.to)
          /\ k'.queue = k.queue /\ k'.pend = k.pend /\ k'.inbox = k.inbox
      BY <1>1, <2>1 DEF KernelState
    <3>2. \/ k'.sched.status = [k.sched.status EXCEPT ![i.to] = "READY"]
          \/ k'.sched = k.sched
      BY <1>1, <3>1 DEF schedulerSetReady, SwapToReady, Scheduler
    <3> QED  BY <1>1, <1>2, <2>2, <3>1, <3>2
  <2> QED  BY <1>6, <1>7, <1>8, <1>9, <2>1, <2>3 DEF Exists
<1>13. CASE i.do = "unhash"
  <2>1. /\ threadList' = RemoveFirst(threadList, i.to) /\ k' = k
        /\ todo' = [todo EXCEPT ![TM] = q]
    BY <1>4, <1>13 DEF Unhash
  <2>2. \A t \in Kernel : Same(t)
    BY <1>8, <2>1
  <2>3. \A t \in Kernel : Exists(t) => Exists(t)'
    <3>1. Range(threadList') = Range(threadList) \ {i.to}
      BY <1>1, <2>1, RemoveFirstProperties
    <3>2. i.to \in Users
      BY <1>5, <1>13
    <3> QED  BY <1>1, <3>1, <3>2 DEF Exists
  <2> QED  BY <1>6, <1>7, <1>9, <2>1, <2>2, <2>3
<1>14. CASE i.do = "unschedule"
  <2>1. /\ k' = Unscheduled(k, i.to) /\ threadList' = threadList
        /\ todo' = [todo EXCEPT ![TM] = q, ![i.to] = << >>]
    BY <1>4, <1>14 DEF Unschedule, Unscheduled
  <2>2. i.to \in Users
    BY <1>5, <1>14
  <2>3. \A t \in Kernel :
                 /\ k'.sched.status[t] = k.sched.status[t]
                 /\ k'.pend[t] = k.pend[t]
                 /\ k'.queue[t] = k.queue[t] /\ k'.inbox[t] = k.inbox[t]
    <3>1. /\ k'.sched = schedulerRemove(k.sched, i.to)
          /\ k'.queue = [k.queue EXCEPT ![i.to] = << >>]
          /\ k'.pend = [k.pend EXCEPT ![i.to] = NotWaiting]
          /\ k'.inbox = [k.inbox EXCEPT ![i.to] = Empty]
      BY <1>1, <2>1 DEF KernelState, Unscheduled
    <3>2. \/ k'.sched.status = k.sched.status
          \/ k'.sched.status = [k.sched.status EXCEPT ![i.to] = "ABSENT"]
      BY <1>1, <3>1 DEF schedulerRemove, Scheduler
    <3> QED  BY <1>1, <1>2, <2>2, <3>1, <3>2
  <2>4. \A t \in Thread : todo'[t] = IF t = i.to THEN << >>
                                     ELSE IF t = TM THEN q ELSE todo[t]
    BY <1>1, <2>1, <2>2
  <2>5. UserPrograms'
    BY <1>1, <2>4 DEF SInv, UserPrograms, UserNext, Beyond
  <2>6. todo'[TM] = << >> \o q /\ << >> \in Seq(Work)
    BY <1>1, <2>2, <2>4, ConcatEmptySeq
  <2>7. \A t \in Servers : todo'[t] = todo[t]
    BY <1>1, <2>2, <2>4
  <2> QED  BY <1>6, <1>8, <1>9, <2>1, <2>3, <2>5, <2>6, <2>7 DEF Exists
<1>15. CASE i.do = "freeblocked"
  <2> DEFINE v == [n \in DOMAIN threadList |->
                      Instr("visit", threadList[n], "ANYMSGTYPE", i.to)]
  <2>1. /\ k' = k /\ threadList' = threadList /\ todo' = [todo EXCEPT ![TM] = v \o q]
    BY <1>4, <1>15 DEF FreeBlocked
  <2>2. v \in Seq(Work)
    <3>1. i.to \in Users
      BY <1>5, <1>15
    <3>2. DOMAIN threadList = 1 .. Len(threadList) /\ Len(threadList) \in Nat
      BY <1>1
    <3>3. \A n \in DOMAIN threadList : threadList[n] \in Thread
      BY <1>1
    <3>4. \A n \in DOMAIN threadList :
              Instr("visit", threadList[n], "ANYMSGTYPE", i.to) \in Work
      BY <3>1, <3>3 DEF Work, OwnWork
    <3> QED  BY <3>2, <3>4
  <2> HIDE DEF v
  <2>3. \A t \in Kernel : Same(t)
    BY <1>8, <2>1
  <2>4. todo'[TM] = v \o q /\ \A t \in Servers : todo'[t] = todo[t]
    BY <1>1, <2>1
  <2>5. UserPrograms'
    BY <1>1, <2>1 DEF SInv, UserPrograms, UserNext, Beyond
  <2> QED  BY <1>6, <1>9, <2>1, <2>2, <2>3, <2>4, <2>5 DEF Exists
<1>16. CASE i.do = "visit"
  <2>1. i.to \in Thread /\ i.arg \in Users /\ threadList' = threadList
    BY <1>4, <1>5, <1>16 DEF Visit
  <2>2. CASE Status(i.to) = "BLOCKED" /\ k.pend[i.to].from = i.arg
    <3>1. /\ k' = [k EXCEPT !.ret[i.to] = "FAILED"]
          /\ todo' = [todo EXCEPT ![TM] = <<Own("ready", i.to)>> \o q]
      BY <1>4, <1>16, <2>2 DEF Visit
    <3>2. \A t \in Kernel :
                 /\ k'.sched.status[t] = k.sched.status[t]
                 /\ k'.pend[t] = k.pend[t]
                 /\ k'.queue[t] = k.queue[t] /\ k'.inbox[t] = k.inbox[t]
      BY <1>1, <3>1 DEF KernelState
    <3>3. i.to \in Users
      <4>1. Sleeps(i.to)
        BY <2>2 DEF Sleeps, Status
      <4>2. i.to # Idle
        BY <1>1, <4>1, SystemThreads DEF SchedSound, Active, Sleeps
      <4>3. i.to # TM
        BY <1>6, <4>1
      <4>4. ASSUME i.to \in Servers PROVE FALSE
        <5>1. Resting(i.to)
          BY <4>1, <4>4 DEF SInv, ServerSound
        <5>2. k.pend[i.to].from = ANY
          BY <5>1 DEF Resting, Waiting
        <5> QED  BY <1>1, <2>1, <2>2, <5>2, SystemThreads
      <4> QED  BY <1>1, <2>1, <4>2, <4>3, <4>4, KernelThreads
    <3>4. <<Own("ready", i.to)>> \in Seq(Work)
      BY <3>3 DEF Work, OwnWork
    <3>5. /\ todo'[TM] = <<Own("ready", i.to)>> \o q
          /\ \A t \in Servers : todo'[t] = todo[t]
      BY <1>1, <3>1
    <3>6. UserPrograms'
      BY <1>1, <3>1 DEF SInv, UserPrograms, UserNext, Beyond
    <3> QED  BY <1>6, <1>8, <1>9, <2>1, <3>2, <3>4, <3>5, <3>6 DEF Exists
  <2>3. CASE ~(Status(i.to) = "BLOCKED" /\ k.pend[i.to].from = i.arg)
    <3>1. k' = k /\ todo' = [todo EXCEPT ![TM] = q]
      BY <1>4, <1>16, <2>3 DEF Visit
    <3>2. \A t \in Kernel : Same(t)
      BY <1>8, <3>1
    <3> QED  BY <1>6, <1>7, <1>9, <2>1, <3>1, <3>2 DEF Exists
  <2> QED  BY <2>2, <2>3
<1> QED  BY <1>5, <1>10, <1>11, <1>12, <1>13, <1>14, <1>15, <1>16
\* One of TM's own changes.
LEMMA TmChanges ==
    ASSUME IInv, SInv, TmWorks, NEW i \in OwnWork, NEW q \in Seq(Instruction),
           todo[TM] = Then(i, q), Works(q), Step(TM) \/ TmStep
    PROVE  SInv'
<1>1. /\ \A t \in Kernel : Same(t)
      /\ \A t \in Servers : todo'[t] = todo[t]
      /\ \E v \in Seq(Work) : todo'[TM] = v \o q
      /\ DriversLive' /\ UserPrograms' /\ ~Sleeps(TM)
  BY OwnChanges
<1>2. TM \in Kernel /\ Servers \subseteq Kernel /\ MM \in Servers
  BY KernelThreads DEF Kernel
<1>3. \A t \in Servers : Still(t)
  BY <1>1, <1>2 DEF Still
<1>4. Works(todo'[TM])
  BY <1>1, WorksOn
<1>5. MmFree'
  BY <1>2, <1>3, StillMM DEF TmWorks
<1>6. ~Sleeps(TM)' /\ k'.queue[TM] = << >>
  BY <1>1, <1>2 DEF Same, TmWorks
<1>7. TmWorks'
  BY <1>4, <1>5, <1>6 DEF TmWorks
<1> QED  BY <1>1, <1>3, <1>7, TmKeeps DEF TmPhase

\* Every step of TM keeps the invariant.
LEMMA TmGoesThrough ==
    ASSUME IInv, SInv, Step(TM) \/ TmStep
    PROVE  SInv'
<1>1. ~Sleeps(TM)
  <2>1. k.sched.running = TM /\ TM \in Thread
    BY SystemThreads DEF Step, TmStep, running
  <2> QED  BY <2>1 DEF IInv, Typed, KernelSound, SchedSound, Sleeps
<1>2. TmLooks \/ TmFinds \/ TmWorks \/ TmAsked
  BY <1>1 DEF SInv, TmPhase, Resting, TmSleeps
<1>3. IInv'
  BY TmStepHolds
<1>4. CASE TmLooks
  BY <1>3, <1>4, TmServes
<1>5. CASE TmFinds
  BY <1>5, TmFindsStep
<1>6. CASE TmAsked
  BY <1>6, TmAsks
<1>7. CASE TmWorks
  <2>1. Works(todo[TM])
    BY <1>7 DEF TmWorks
  <2>2. \/ Finish(todo[TM])
        \/ \E i \in Work, q \in Seq(Instruction) : Works(q) /\ todo[TM] = Then(i, q)
    BY <2>1, WorksStarts
  <2>3. CASE Finish(todo[TM])
    <3>1. CASE todo[TM] = MainLoop
      BY <1>7, <3>1, TmRests
    <3>2. CASE todo[TM] # MainLoop
      <4>1. PICK r \in Thread, id \in AnswerId : Answers(r, id) /\ todo[TM] = Answer(r, id)
        BY <2>3, <3>2 DEF Finish
      <4> QED  BY <1>7, <4>1, TmAnswers
    <3> QED  BY <3>1, <3>2
  <2>4. CASE \E i \in Work, q \in Seq(Instruction) : Works(q) /\ todo[TM] = Then(i, q)
    <3>1. PICK i \in Work, q \in Seq(Instruction) : Works(q) /\ todo[TM] = Then(i, q)
      BY <2>4
    <3>2. i \in Instruction
      BY WorkIs
    <3>3. CASE i \in OwnWork
      BY <1>7, <3>1, <3>3, TmChanges
    <3>4. CASE i = CallMM
      BY <1>7, <3>1, <3>2, <3>4, TmTellsMM
    <3>5. CASE i = Send(MM, "VM_CLEANUP", NULL)
      BY <1>7, <3>1, <3>2, <3>5, TmTellsMM
    <3> QED  BY <3>3, <3>4, <3>5 DEF Work
  <2> QED  BY <2>2, <2>3, <2>4
<1> QED  BY <1>2, <1>4, <1>5, <1>6, <1>7

-----------------------------------------------------------------------------
(* The theorem about work *)

\* The clock changes who runs and nothing else.
LEMMA ClockKeeps ==
    ASSUME IInv, SInv, ClockInterrupt
    PROVE  SInv'
<1>1. KernelSound(k) /\ k' = Reschedule(k) /\ UNCHANGED <<threadList, nextId, todo>>
  BY DEF ClockInterrupt, IInv, Typed
<1>2. \A t \in Thread : Same(t)
  BY <1>1, TickEffect
<1>3. \A t \in Kernel : Still(t)
  BY <1>1, <1>2, KernelThreads DEF Still
<1>4. \A t \in Thread : Absent(k', t) <=> Absent(k, t)
  BY <1>1, TickMoves DEF Moves
<1>5. DriversLive'
  BY <1>1, <1>4, SystemThreads DEF SInv, DriversLive, Exists
<1>6. UserPrograms'
  BY <1>1 DEF SInv, UserPrograms, UserNext, Beyond
<1> QED  BY <1>3, <1>5, <1>6, KernelStill

\* Every step keeps the invariant, as long as no driver faults.
LEMMA ServersKeep ==
    ASSUME IInv, SInv, NoDriverFaults', [Next]_vars
    PROVE  SInv'
<1>1. CASE UNCHANGED vars
  <2>1. k' = k /\ threadList' = threadList /\ todo' = todo
    BY <1>1 DEF vars
  <2>2. \A t \in Kernel : Still(t)
    BY <2>1 DEF Still, Same, Sleeps
  <2>3. DriversLive'
    BY <2>1 DEF SInv, DriversLive, Exists, Absent
  <2>4. UserPrograms'
    BY <2>1 DEF SInv, UserPrograms, UserNext, Beyond
  <2> QED  BY <2>2, <2>3, <2>4, KernelStill
<1>2. CASE ClockInterrupt
  BY <1>2, ClockKeeps
<1>3. ASSUME NEW t \in Thread, Step(t) PROVE SInv'
  <2>1. CASE t = TM
    BY <1>3, <2>1, TmGoesThrough
  <2>2. CASE t \in Servers
    BY <1>3, <2>2, ServerStep
  <2>3. CASE t \in Users
    BY <1>3, <2>3, UserStep
  <2>4. CASE t = Idle
    <3>1. todo[Idle] = << >> /\ Idle \notin Users
      BY SystemThreads DEF IInv, Programs
    <3>2. NextInstr(Idle) = {}
      BY <3>1 DEF NextInstr
    <3> QED  BY <1>3, <2>4, <3>2 DEF Step
  <2> QED  BY <2>1, <2>2, <2>3, <2>4, KernelThreads DEF Kernel
<1>4. CASE TmStep
  BY <1>4, TmGoesThrough
<1> QED  BY <1>1, <1>2, <1>3, <1>4 DEF Next

\* The invariant holds at the start.
LEMMA ServersStart ==
    ASSUME Init
    PROVE  SInv
<1>1. /\ Kernel = {TM} \cup Servers /\ Servers = {MM} \cup Drivers
      /\ Kernel \subseteq Thread /\ \A u \in Users : u \in Thread /\ u \notin Kernel
  BY KernelThreads, SystemThreads DEF Kernel
<1>2. \A t \in Kernel : Resting(t)
  <2> TAKE t \in Kernel
  <2>1. t \in Thread /\ t \in {TM, MM} \cup Drivers
    BY <1>1
  <2>2. k.sched.status[t] = "BLOCKED"
    BY <2>1, InitStatus
  <2>3. k.queue[t] = << >> /\ k.pend[t] = Waiting /\ todo[t] = <<Serve>>
    BY <2>1, InitFields
  <2> QED  BY <2>2, <2>3 DEF Resting, Sleeps
<1>3. \A u \in Users : todo[u] = << >>
  <2> TAKE u \in Users
  <2>1. u \in Thread /\ u \notin {TM, MM} \cup Drivers
    BY <1>1
  <2> QED  BY <2>1, InitFields
<1>4. DriversLive
  <2>1. Drivers \subseteq Range(threadList)
    BY InitThreads DEF Known
  <2> QED  BY <1>1, <1>2, <2>1 DEF DriversLive, Exists, Absent, Resting, Sleeps
<1>5. TmPhase
  BY <1>1, <1>2, RestingFree DEF TmPhase
<1>6. UserFirst
  BY <1>1, <1>2 DEF UserFirst
<1> QED  BY <1>1, <1>2, <1>3, <1>4, <1>5, <1>6 DEF SInv, ServerSound, UserPrograms

\* A user thread runs, or the idle thread, only while TM and MM wait in their
\* main loops with no request left: whatever the users ask for, and whenever
\* the clock strikes between two system calls of the kernel's threads.  A driver
\* that faults can deprive TM of MM's answer (run exit_hangs).
THEOREM ServersDone == Spec /\ []NoDriverFaults => []ServersFirst
<1>1. Init => SInv
  BY ServersStart
<1>2. IInv /\ SInv /\ NoDriverFaults' /\ [Next]_vars => SInv'
  BY ServersKeep
<1>3. IInv /\ SInv => ServersFirst
  <2> SUFFICES ASSUME IInv, SInv, running \in Users \cup {Idle}
               PROVE  AtMainLoop(TM) /\ AtMainLoop(MM)
    BY DEF ServersFirst
  <2>1. Resting(TM) /\ Resting(MM)
    BY UsersRun, KernelThreads DEF Kernel
  <2> QED  BY <2>1 DEF Resting, AtMainLoop, Waits, Status, Sleeps, Waiting, Serve
<1>4. Spec => []IInv
  BY Inductive
<1> QED  BY <1>1, <1>2, <1>3, <1>4, PTL DEF Spec

-----------------------------------------------------------------------------
(* What users are promised *)

\* m asks TM to end u.
AsksEnd(m, u) == \/ m.id = "TM_KILL" /\ m.from \in {TM, MM} /\ m.arg = u
                 \/ m.id = "TM_EXIT" /\ m.from = u

\* TM is to end u, and before it rests.
Doomed(u) == \/ Own("unschedule", u) \in Range(todo[TM])
             \/ Holds(TM) /\ AsksEnd(k.inbox[TM], u)
             \/ \E j \in 1 .. Len(k.queue[TM]) : AsksEnd(k.queue[TM][j], u)

\* The answer id of s is in u's queue, or will be before s rests.
Answered(u, s, id) ==
    \E j \in 1 .. Len(k.queue[u]) : k.queue[u][j].from = s /\ k.queue[u][j].id = id
WorksFor(s, u, id) ==
    \/ Holds(s) /\ k.inbox[s].from = u
          /\ \E c \in DOMAIN ReplyTo : k.inbox[s].id = c /\ ReplyTo[c] = id
    \/ Send(u, id, NULL) \in Range(todo[s])

UserSound(u) ==
    /\ Absent(k, u) \/ Sleeps(u) => todo[u] = << >>
    /\ WaitsIn(k, u) => k.pend[u].id \notin Range(ReplyTo)
    /\ todo[u] = <<Beyond>> => Doomed(u)
    /\ \A s \in Kernel, id \in Range(ReplyTo) :
          todo[u] = <<Recv(s, id)>> =>
              Answered(u, s, id) \/ WorksFor(s, u, id) \/ Doomed(u)

UInv == \A u \in Users : UserSound(u)

\* What a step does to a user thread that it does not end: u's queue grows or
\* stays, and u falls asleep in no call.
Grows(t) ==
    \A j \in 1 .. Len(k.queue[t]) :
        j \in 1 .. Len(k'.queue[t]) /\ k'.queue[t][j] = k.queue[t][j]
Stays(u) ==
    /\ Absent(k', u) \/ Sleeps(u)' => todo'[u] = << >>
    /\ WaitsIn(k', u) => WaitsIn(k, u) /\ k'.pend[u] = k.pend[u]
    /\ todo'[u] = << >> \/ (todo'[u] = todo[u] /\ Grows(u))

\* A thread that is not the running one of a handler keeps what it has.
Kept(t) == Grows(t) /\ (~Sleeps(t) => ~Sleeps(t)' /\ k'.inbox[t] = k.inbox[t])

\* The names of the replies.
LEMMA Replies ==
    /\ DOMAIN ReplyTo = {"TM_START", "TM_KILL", "VM_CALL", "IO_CALL"}
    /\ ReplyTo["TM_START"] = "TM_STARTREPLY" /\ ReplyTo["TM_KILL"] = "TM_KILLREPLY"
    /\ ReplyTo["VM_CALL"] = "VM_REPLY" /\ ReplyTo["IO_CALL"] = "IO_REPLY"
    /\ Range(ReplyTo) = {"TM_STARTREPLY", "TM_KILLREPLY", "VM_REPLY", "IO_REPLY"}
<1>1. /\ DOMAIN ReplyTo = {"TM_START", "TM_KILL", "VM_CALL", "IO_CALL"}
      /\ ReplyTo["TM_START"] = "TM_STARTREPLY" /\ ReplyTo["TM_KILL"] = "TM_KILLREPLY"
      /\ ReplyTo["VM_CALL"] = "VM_REPLY" /\ ReplyTo["IO_CALL"] = "IO_REPLY"
  BY DEF ReplyTo
<1>2. Range(ReplyTo) = {"TM_STARTREPLY", "TM_KILLREPLY", "VM_REPLY", "IO_REPLY"}
  BY <1>1 DEF Range
<1> QED  BY <1>1, <1>2

\* A thread that is the same is kept.
LEMMA SameKept ==
    ASSUME KernelSound(k), NEW t \in Thread, Same(t)
    PROVE  Kept(t)
<1>1. k'.queue[t] = k.queue[t] /\ k'.inbox[t] = k.inbox[t] /\ (Sleeps(t)' <=> Sleeps(t))
  BY DEF Same
<1> QED  BY <1>1 DEF Kept, Grows

\* A send keeps every thread.
LEMMA PassedKept ==
    ASSUME KernelSound(k), NEW to \in Thread, NEW m \in Message, Passed(k', k, to, m)
    PROVE  \A t \in Thread : Kept(t)
<1>1. /\ \A t \in Thread \ {to} : Same(t)
      /\ Expected(k, to, m) => Sleeps(to) /\ Took(to, m)
      /\ ~Expected(k, to, m) => Queued(to, m)
  BY Delivers
<1>2. k.queue[to] \in Seq(Message) /\ Len(k.queue[to]) \in Nat
  BY KernelFields, LenProperties DEF KernelSound
<1>3. CASE Expected(k, to, m)
  <2>1. Sleeps(to) /\ k'.queue[to] = k.queue[to]
    BY <1>1, <1>3 DEF Took
  <2>2. Kept(to)
    BY <2>1 DEF Kept, Grows
  <2> QED  BY <1>1, <2>2, SameKept
<1>4. CASE ~Expected(k, to, m)
  <2>1. /\ k'.queue[to] = Append(k.queue[to], m)
        /\ Sleeps(to)' <=> Sleeps(to)
        /\ k'.inbox[to] = k.inbox[to]
    BY <1>1, <1>4 DEF Queued
  <2>2. PICK q : q = k.queue[to]
    OBVIOUS
  <2>3. /\ Len(Append(q, m)) = Len(q) + 1
        /\ \A j \in 1 .. Len(q) : Append(q, m)[j] = q[j]
    BY <1>2, <2>2, AppendProperties
  <2>4. Grows(to)
    BY <1>2, <2>1, <2>2, <2>3 DEF Grows
  <2>5. Kept(to)
    BY <2>1, <2>4 DEF Kept
  <2> QED  BY <1>1, <2>5, SameKept
<1> QED  BY <1>3, <1>4

\* The same for a send, delivered or not.
LEMMA SendKept ==
    ASSUME IInv, NEW to, NEW m \in Message, k' = kSend(k, to, m)
    PROVE  \A t \in Thread : Kept(t)
<1>1. /\ KernelSound(k) /\ k \in KernelState /\ SchedSound(k.sched)
      /\ Range(threadList) \subseteq Thread /\ TM \in Thread
      /\ \A u \in Users : u \in Thread
  BY SystemThreads DEF IInv, Typed, KernelSound, Range
<1>2. /\ Sent(k, to, m) => Passed(k', k, to, m)
      /\ ~Sent(k, to, m) => k' = k \/ (to \in Users /\ Passed(k', k, TM, Kill(to)))
  BY <1>1, SendOutcome
<1>3. CASE Sent(k, to, m)
  <2>1. to \in Thread
    BY <1>1, <1>3 DEF Sent, Exists
  <2> QED  BY <1>1, <1>2, <1>3, <2>1, PassedKept
<1>4. CASE k' = k
  BY <1>4 DEF Kept, Grows, Sleeps
<1>5. CASE to \in Users /\ Passed(k', k, TM, Kill(to))
  <2>1. Kill(to) \in Message
    BY <1>1, <1>5 DEF Kill, Message, MessageId
  <2> QED  BY <1>1, <1>5, <2>1, PassedKept
<1> QED  BY <1>2, <1>3, <1>4, <1>5

\* How a user's promises carry over a step.
LEMMA PromisesKept ==
    ASSUME NEW u \in Users, UserSound(u), Stays(u),
           todo'[u] # << >> /\ Doomed(u) => Doomed(u)',
           \A s \in Kernel, id \in Range(ReplyTo) :
              todo'[u] # << >> /\ WorksFor(s, u, id) =>
                  Answered(u, s, id)' \/ WorksFor(s, u, id)' \/ Doomed(u)'
    PROVE  UserSound(u)'
<1>1. Absent(k', u) \/ Sleeps(u)' => todo'[u] = << >>
  BY DEF Stays
<1>2. WaitsIn(k', u) => k'.pend[u].id \notin Range(ReplyTo)
  BY DEF Stays, UserSound
<1>3. <<Beyond>> # << >> /\ \A s, id : <<Recv(s, id)>> # << >>
  OBVIOUS
<1>4. todo'[u] = <<Beyond>> => Doomed(u)'
  BY <1>3 DEF Stays, UserSound
<1>5. ASSUME NEW s \in Kernel, NEW id \in Range(ReplyTo), todo'[u] = <<Recv(s, id)>>
      PROVE  Answered(u, s, id)' \/ WorksFor(s, u, id)' \/ Doomed(u)'
  <2>1. todo'[u] # << >> /\ todo[u] = <<Recv(s, id)>> /\ Grows(u)
    BY <1>3, <1>5 DEF Stays
  <2>2. Answered(u, s, id) \/ WorksFor(s, u, id) \/ Doomed(u)
    BY <2>1 DEF UserSound
  <2>3. Answered(u, s, id) => Answered(u, s, id)'
    BY <2>1 DEF Grows, Answered
  <2> QED  BY <2>1, <2>2, <2>3
<1> QED  BY <1>1, <1>2, <1>4, <1>5 DEF UserSound, Beyond, ReplyTo, Range, Recv, Absent, WaitsIn

\* A handler that another thread calls lets u stay.
LEMMA OthersLetStay ==
    ASSUME NEW u \in Users, UserSound(u), Moves(k', k), u # k.sched.running,
           Kept(u), todo'[u] = todo[u]
    PROVE  Stays(u)
<1>1. u \in Thread
  BY SystemThreads
<1>2. /\ Absent(k', u) => Absent(k, u)
      /\ Sleeps(u)' => Sleeps(u)
      /\ WaitsIn(k', u) => WaitsIn(k, u) /\ k'.pend[u] = k.pend[u]
  BY <1>1 DEF Moves, Sleeps
<1> QED  BY <1>2 DEF Stays, UserSound, Kept

\* What a thread of the kernel that is kept has promised, it has still.
LEMMA WorkKept ==
    ASSUME NEW s \in Kernel, Kept(s), todo'[s] = todo[s], NEW u, NEW id, WorksFor(s, u, id)
    PROVE  WorksFor(s, u, id)'
<1>1. Holds(s) => Holds(s)' /\ k'.inbox[s] = k.inbox[s]
  BY DEF Holds, Kept
<1> QED  BY <1>1 DEF WorksFor, Send, Instr, ReplyTo, Range

\* While TM is kept, whom it is to end it is to end still.
LEMMA DoomKept ==
    ASSUME Kept(TM), todo'[TM] = todo[TM], NEW u, Doomed(u)
    PROVE  Doomed(u)'
<1>1. Holds(TM) => Holds(TM)' /\ k'.inbox[TM] = k.inbox[TM]
  BY DEF Holds, Kept
<1>2. (\E j \in 1 .. Len(k.queue[TM]) : AsksEnd(k.queue[TM][j], u)) =>
          \E j \in 1 .. Len(k'.queue[TM]) : AsksEnd(k'.queue[TM][j], u)
  BY DEF Kept, Grows, AsksEnd
<1> QED  BY <1>1, <1>2 DEF Doomed, AsksEnd, Own, Instr, Range

\* While the threads of the kernel rest they have nothing to do for anybody.
LEMMA Quiet ==
    ASSUME \A t \in Kernel : Resting(t), NEW u
    PROVE  /\ ~Doomed(u)
           /\ \A s \in Kernel : \A id : ~WorksFor(s, u, id)
<1>1. Range(<<Serve>>) = {Serve}
  BY DEF Range
<1>2. Own("unschedule", u) # Serve /\ \A id : Send(u, id, NULL) # Serve
  BY DEF Own, Send, Serve, Instr
<1>3. TM \in Kernel
  BY DEF Kernel
<1>4. \A t \in Kernel : todo[t] = <<Serve>> /\ ~Holds(t) /\ Len(k.queue[t]) = 0
  BY DEF Resting, Holds
<1>5. ~Doomed(u)
  BY <1>1, <1>2, <1>3, <1>4 DEF Doomed
<1> QED  BY <1>1, <1>2, <1>4, <1>5 DEF WorksFor

\* The caller of a handler is not put to sleep but by a receive.
LEMMA StaysAwake ==
    ASSUME IInv, NEW u \in Users, k.sched.running = u, Moves(k', k), Kept(u)
    PROVE  ~Absent(k', u) /\ ~Sleeps(u)' /\ ~WaitsIn(k', u)
<1>1. u \in Thread
  BY SystemThreads
<1>2. ~Absent(k, u) /\ ~Sleeps(u)
  BY <1>1 DEF IInv, Typed, KernelSound, SchedSound, Absent, Sleeps
<1>3. ~Absent(k', u)
  BY <1>1, <1>2 DEF Moves
<1>4. ~Sleeps(u)'
  BY <1>2 DEF Kept
<1> QED  BY <1>3, <1>4 DEF Sleeps, WaitsIn

\* A user's receive puts it to sleep only if it is in no call: the answer is in
\* its queue by then.
LEMMA UserReceives ==
    ASSUME IInv, SInv, UInv, NEW u \in Users, k.sched.running = u,
           \A t \in Kernel : Resting(t),
           NEW i \in UserInstr \cup UserNext, i.do = "recv",
           todo[u] = << >> => i \in UserInstr, todo[u] # << >> => todo[u] = <<i>>,
           k' = kRecv(k, u, i.to, i.id)
    PROVE  WaitsIn(k', u) => k'.pend[u].id \notin Range(ReplyTo)
<1>1. u \in Thread /\ u # Idle /\ ~Sleeps(u) /\ KernelSound(k)
  BY SystemThreads DEF IInv, Typed, KernelSound, SchedSound, Sleeps
<1>2. i.to \in Thread \cup {ANY} /\ i.id \in MessageId
  BY UserKinds
<1>3. CASE i.to # ANY /\ ~Exists(i.to)
  <2>1. k' = [k EXCEPT !.ret[u] = "FAILED", !.inbox[u] = Empty]
    BY <1>3 DEF kRecv
  <2>2. k'.sched = k.sched
    BY <1>1, <2>1 DEF KernelSound, KernelState
  <2> QED  BY <1>1, <2>2 DEF WaitsIn, Sleeps
<1>4. CASE ~(i.to # ANY /\ ~Exists(i.to))
  <2>1. \/ ~Sleeps(u)'
        \/ /\ \A j \in 1 .. Len(k.queue[u]) : ~Matches(k.queue[u][j], i.to, i.id)
           /\ k'.pend[u] = [status |-> "WAITING", from |-> i.to, id |-> i.id]
    BY <1>1, <1>2, <1>4, ReceiveEffect
  <2>2. CASE ~Sleeps(u)'
    BY <2>2 DEF Sleeps, WaitsIn
  <2>3. CASE i.id \notin Range(ReplyTo)
    BY <2>1, <2>3 DEF Sleeps, WaitsIn
  <2>4. CASE i.id \in Range(ReplyTo) /\ Sleeps(u)'
    <3>1. i \notin UserInstr
      <4> SUFFICES ASSUME i \in UserInstr PROVE FALSE
        OBVIOUS
      <4>1. i.id \in {"DATA", "ANYMSGTYPE"}
        BY DEF UserInstr, Send, Recv, Call, Own, Instr
      <4> QED  BY <2>4, <4>1, Replies
    <3>2. todo[u] = <<i>> /\ i \in UserNext
      BY <3>1
    <3>3. \E s \in Kernel : i = Recv(s, i.id)
      <4>1. TM \in Kernel /\ MM \in Kernel /\ Drivers \subseteq Kernel
        BY KernelThreads DEF Kernel
      <4> QED  BY <3>2, <4>1 DEF UserNext, Beyond, Own, Recv, Instr
    <3>4. PICK s \in Kernel : i = Recv(s, i.id)
      BY <3>3
    <3>5. i.to = s
      BY <3>4 DEF Recv, Instr
    <3>6. Answered(u, s, i.id)
      <4>1. todo[u] = <<Recv(s, i.id)>>
        BY <3>2, <3>4
      <4>2. Answered(u, s, i.id) \/ WorksFor(s, u, i.id) \/ Doomed(u)
        BY <2>4, <4>1 DEF UInv, UserSound
      <4> QED  BY <4>2, Quiet
    <3>7. \E j \in 1 .. Len(k.queue[u]) : Matches(k.queue[u][j], i.to, i.id)
      BY <3>5, <3>6 DEF Answered, Matches
    <3> QED  BY <2>1, <2>4, <3>7
  <2> QED  BY <2>2, <2>3, <2>4
<1> QED  BY <1>3, <1>4

\* A step of a user thread keeps all promises and makes one to who calls, and to
\* who exits.
LEMMA UserPromises ==
    ASSUME IInv, SInv, UInv, NEW u \in Users, Step(u)
    PROVE  UInv'
<1>1. running = u /\ k.sched.running = u /\ u \in Thread /\ u \notin Kernel /\ u # Idle
  BY SystemThreads, KernelThreads DEF Step, running
<1>2. \A t \in Kernel : Resting(t)
  BY <1>1, UsersRun
<1>3. PICK i \in NextInstr(u) :
          \/ SendStep(u, i) \/ RecvStep(u, i) \/ ExitStep(u, i)
          \/ FaultStep(u, i) \/ YieldStep(u, i) \/ ServeStep(u, i)
  BY DEF Step
<1>4. /\ i \in UserInstr \cup UserNext /\ Rest(u) = << >>
      /\ todo[u] = << >> => i \in UserInstr
      /\ todo[u] # << >> => todo[u] = <<i>>
  <2>1. u \notin Drivers
    BY <1>1 DEF Kernel, Servers
  <2>2. todo[u] = << >> => i \in UserInstr
    BY <1>3 DEF NextInstr
  <2>3. todo[u] # << >> => i = Head(todo[u])
    BY <1>3, <2>1 DEF NextInstr
  <2>4. todo[u] # << >> => \E j \in UserNext : todo[u] = <<j>>
    BY DEF SInv, UserPrograms
  <2>5. \A j : Head(<<j>>) = j
    OBVIOUS
  <2>6. todo[u] # << >> => todo[u] = <<i>>
    BY <2>3, <2>4, <2>5
  <2>7. i \in UserInstr \cup UserNext /\ Rest(u) = << >>
    BY UserDoes DEF SInv
  <2> QED  BY <2>2, <2>6, <2>7
<1>5. /\ KernelSound(k) /\ todo \in [Thread -> Seq(Instruction)] /\ Kernel \subseteq Thread
      /\ TM \in Kernel /\ TM \in Thread /\ \A v \in Users : v \in Thread
      /\ \A t \in Kernel : Exists(t)
  <2>1. \A t \in Kernel : Exists(t)
    BY DEF IInv, KernelLives, SInv, DriversLive, Kernel, Servers
  <2> QED  BY <2>1, KernelThreads, SystemThreads DEF IInv, Typed, Kernel
<1>6. Moves(k', k)
  BY <1>1, StepMoves
<1>7. \A v \in Users : /\ ~Doomed(v)
                       /\ \A s \in Kernel : \A id : ~WorksFor(s, v, id)
  BY <1>2, Quiet
\* the other users
<1>8. ASSUME \A t \in Thread \ {u} : Kept(t), \A t \in Thread \ {u} : todo'[t] = todo[t],
             NEW v \in Users, v # u
      PROVE  UserSound(v)'
  <2>1. Stays(v)
    BY <1>1, <1>5, <1>6, <1>8, OthersLetStay DEF UInv
  <2> QED  BY <1>7, <2>1, PromisesKept DEF UInv
\* u itself, if it is awake
<1>9. ASSUME ~Absent(k', u), ~Sleeps(u)', ~WaitsIn(k', u), todo'[u] # <<Beyond>>,
             \A s \in Kernel, id \in Range(ReplyTo) : todo'[u] # <<Recv(s, id)>>
      PROVE  UserSound(u)'
  BY <1>9 DEF UserSound, Beyond, Own, Recv, Instr, ReplyTo, Range, Absent, WaitsIn
<1>10. ASSUME NEW q, todo' = [todo EXCEPT ![u] = q]
       PROVE  todo'[u] = q /\ \A t \in Thread \ {u} : todo'[t] = todo[t]
  BY <1>1, <1>5, <1>10
<1>11. \A s, id : Recv(s, id).do = "recv" /\ Recv(s, id).to = s /\ Recv(s, id).id = id
  BY DEF Recv, Instr
<1>12. \A a, b : <<a>> = <<b>> => a = b
  OBVIOUS
<1>13. CASE SendStep(u, i)
  <2>1. PICK m : m = [from |-> u, id |-> i.id, arg |-> i.arg]
    OBVIOUS
  <2>2. PICK q : q = IF i.do = "call" /\ Sent(k, i.to, m)
                     THEN <<Recv(i.to, ReplyTo[i.id])>> \o << >> ELSE << >>
    OBVIOUS
  <2>3. /\ i.do \in {"send", "call"}
        /\ k' = kSend(k, i.to, m) /\ todo' = [todo EXCEPT ![u] = q]
    BY <1>4, <1>13, <2>1, <2>2 DEF SendStep
  <2>4. /\ i.to \in Thread /\ i.arg \in Thread \cup {NULL} /\ i.id \in MessageId
        /\ \/ i.to \in Users
           \/ i.to = TM /\ i.id \in {"DATA", "TM_KILL", "TM_START"}
           \/ i.to = MM /\ i.id = "VM_CALL"
           \/ i.to \in Drivers /\ i.id = "IO_CALL"
    BY <1>4, <2>3, UserKinds
  <2>5. m \in Message
    BY <1>1, <2>1, <2>4 DEF Message
  <2>6. \A t \in Thread : Kept(t)
    BY <2>3, <2>5, SendKept
  <2>7. todo'[u] = q /\ \A t \in Thread \ {u} : todo'[t] = todo[t]
    BY <1>10, <2>3
  <2>8. ~Absent(k', u) /\ ~Sleeps(u)' /\ ~WaitsIn(k', u)
    BY <1>1, <1>5, <1>6, <2>6, StaysAwake
  <2>9. UserSound(u)'
    <3>1. CASE q = << >>
      BY <1>9, <2>7, <2>8, <3>1
    <3>2. CASE i.do = "call" /\ Sent(k, i.to, m)
      <4>1. todo'[u] = <<Recv(i.to, ReplyTo[i.id])>>
        BY <2>2, <2>7, <3>2
      <4>2. todo'[u] # <<Beyond>>
        <5>1. Beyond.do = "beyond"
          BY DEF Beyond, Own, Instr
        <5> QED  BY <1>11, <1>12, <4>1, <5>1
      <4>3. ASSUME NEW s \in Kernel, NEW id \in Range(ReplyTo), todo'[u] = <<Recv(s, id)>>
            PROVE  WorksFor(s, u, id)'
        <5>1. s = i.to /\ id = ReplyTo[i.id]
          BY <1>11, <1>12, <4>1, <4>3
        <5>2. i.id \in DOMAIN ReplyTo
          <6>1. s \notin Users
            BY <4>3, KernelThreads
          <6>2. i.id # "DATA"
            BY <1>4, <3>2 DEF UserInstr, UserNext, Beyond, Send, Recv, Call, Own, Instr
          <6> QED  BY <2>4, <5>1, <6>1, <6>2, Replies
        <5>3. Expected(k, s, m) /\ s \in Thread
          BY <1>2, <1>5, <4>3, RestingTakes
        <5>4. /\ KernelSound(k) /\ k \in KernelState /\ SchedSound(k.sched)
              /\ Range(threadList) \subseteq Thread
          BY DEF IInv, Typed, KernelSound, Range
        <5>5. Passed(k', k, s, m)
          BY <2>3, <2>5, <3>2, <5>1, <5>4, SendOutcome
        <5>6. Took(s, m)
          BY <2>5, <5>3, <5>4, <5>5, Delivers
        <5>7. todo'[s] = <<Serve>>
          BY <1>1, <1>2, <2>7, <4>3, <5>3 DEF Resting
        <5>8. Holds(s)' /\ k'.inbox[s].from = u /\ k'.inbox[s].id = i.id
          BY <2>1, <5>6, <5>7 DEF Took, Holds, Sleeps, Serve, Own, Instr
        <5> QED  BY <5>1, <5>2, <5>8 DEF WorksFor, ReplyTo
      <4> QED  BY <2>8, <4>2, <4>3 DEF UserSound, Beyond, Own, Recv, Instr, ReplyTo, Range,
                                       Absent, WaitsIn
    <3> QED  BY <2>2, <3>1, <3>2
  <2> QED  BY <1>8, <2>6, <2>7, <2>9 DEF UInv
<1>14. CASE RecvStep(u, i)
  <2>1. /\ i.do = "recv" /\ k' = kRecv(k, u, i.to, i.id)
        /\ todo' = [todo EXCEPT ![u] = << >>]
    BY <1>4, <1>14 DEF RecvStep
  <2>2. i.to \in Thread \cup {ANY} /\ i.id \in MessageId
    BY <1>4, <2>1, UserKinds
  <2>3. \A t \in Thread \ {u} : Kept(t)
    <3>1. \A t \in Thread \ {u} : Same(t)
      BY <1>1, <1>5, <2>1, <2>2, ReceiveEffect
    <3> QED  BY <1>5, <3>1, SameKept
  <2>4. todo'[u] = << >> /\ \A t \in Thread \ {u} : todo'[t] = todo[t]
    BY <1>10, <2>1
  <2>5. WaitsIn(k', u) => k'.pend[u].id \notin Range(ReplyTo)
    BY <1>1, <1>2, <1>4, <2>1, UserReceives
  <2>6. UserSound(u)'
    BY <2>4, <2>5 DEF UserSound, Beyond, Own, Recv, Instr, ReplyTo, Range, Absent, WaitsIn
  <2> QED  BY <1>8, <2>3, <2>4, <2>6 DEF UInv
<1>15. CASE ExitStep(u, i)
  <2>1. PICK m : m = [from |-> u, id |-> "TM_EXIT", arg |-> NULL]
    OBVIOUS
  <2>2. PICK q : q = IF Sent(k, TM, m) THEN <<Beyond>> ELSE <<i>>
    OBVIOUS
  <2>3. /\ i.do = "exit" /\ k' = kSend(k, TM, m) /\ todo' = [todo EXCEPT ![u] = q]
    BY <1>15, <2>1, <2>2 DEF ExitStep
  <2>4. m \in Message
    BY <1>1, <2>1 DEF Message, MessageId
  <2>5. \A t \in Thread : Kept(t)
    BY <2>3, <2>4, SendKept
  <2>6. todo'[u] = q /\ \A t \in Thread \ {u} : todo'[t] = todo[t]
    BY <1>10, <2>3
  <2>7. ~Absent(k', u) /\ ~Sleeps(u)' /\ ~WaitsIn(k', u)
    BY <1>1, <1>5, <1>6, <2>5, StaysAwake
  <2>8. \A s \in Kernel, id \in Range(ReplyTo) : todo'[u] # <<Recv(s, id)>>
    <3>1. Beyond.do = "beyond"
      BY DEF Beyond, Own, Instr
    <3> QED  BY <1>11, <1>12, <2>2, <2>3, <2>6, <3>1
  <2>9. todo'[u] = <<Beyond>> => Doomed(u)'
    <3> SUFFICES ASSUME todo'[u] = <<Beyond>> PROVE Doomed(u)'
      OBVIOUS
    <3>1. Sent(k, TM, m)
      <4>1. Beyond.do = "beyond"
        BY DEF Beyond, Own, Instr
      <4> QED  BY <1>12, <2>2, <2>3, <2>6, <4>1
    <3>2. Expected(k, TM, m)
      BY <1>2, <1>5, RestingTakes
    <3>3. /\ KernelSound(k) /\ k \in KernelState /\ SchedSound(k.sched)
          /\ Range(threadList) \subseteq Thread
      BY DEF IInv, Typed, KernelSound, Range
    <3>4. Passed(k', k, TM, m)
      BY <2>3, <2>4, <3>1, <3>3, SendOutcome
    <3>5. Took(TM, m)
      BY <1>5, <2>4, <3>2, <3>3, <3>4, Delivers
    <3>6. todo'[TM] = <<Serve>>
      BY <1>1, <1>2, <1>5, <2>6 DEF Resting
    <3>7. Holds(TM)' /\ k'.inbox[TM] = m
      BY <3>5, <3>6 DEF Took, Holds, Sleeps, Serve, Own, Instr
    <3>8. AsksEnd(m, u)
      BY <2>1 DEF AsksEnd
    <3> QED  BY <3>7, <3>8 DEF Doomed, AsksEnd
  <2>10. UserSound(u)'
    BY <2>7, <2>8, <2>9 DEF UserSound, Beyond, Own, Recv, Instr, ReplyTo, Range, Absent, WaitsIn
  <2> QED  BY <1>8, <2>5, <2>6, <2>10 DEF UInv
<1>16. CASE FaultStep(u, i)
  <2>1. PICK from \in {TM, MM} :
            k' = kSend(k, TM, [from |-> from, id |-> "TM_KILL", arg |-> u])
    BY <1>16 DEF FaultStep
  <2>2. PICK m : m = [from |-> from, id |-> "TM_KILL", arg |-> u]
    OBVIOUS
  <2>3. i.do = "fault" /\ k' = kSend(k, TM, m) /\ todo' = [todo EXCEPT ![u] = <<i>>]
    BY <1>16, <2>1, <2>2 DEF FaultStep
  <2>4. m \in Message
    BY <1>1, <2>2, SystemThreads DEF Message, MessageId
  <2>5. \A t \in Thread : Kept(t)
    BY <2>3, <2>4, SendKept
  <2>6. todo'[u] = <<i>> /\ \A t \in Thread \ {u} : todo'[t] = todo[t]
    BY <1>10, <2>3
  <2>7. ~Absent(k', u) /\ ~Sleeps(u)' /\ ~WaitsIn(k', u)
    BY <1>1, <1>5, <1>6, <2>5, StaysAwake
  <2>8. /\ todo'[u] # <<Beyond>>
        /\ \A s \in Kernel, id \in Range(ReplyTo) : todo'[u] # <<Recv(s, id)>>
    <3>1. Beyond.do = "beyond"
      BY DEF Beyond, Own, Instr
    <3> QED  BY <1>11, <1>12, <2>3, <2>6, <3>1
  <2> QED  BY <1>8, <1>9, <2>5, <2>6, <2>7, <2>8 DEF UInv
<1>17. CASE YieldStep(u, i)
  <2>1. k' = Reschedule(k) /\ todo' = [todo EXCEPT ![u] = << >>]
    BY <1>4, <1>17 DEF YieldStep
  <2>2. \A t \in Thread : Kept(t)
    BY <1>5, <2>1, TickEffect, SameKept
  <2>3. todo'[u] = << >> /\ \A t \in Thread \ {u} : todo'[t] = todo[t]
    BY <1>10, <2>1
  <2>4. ~Absent(k', u) /\ ~Sleeps(u)' /\ ~WaitsIn(k', u)
    BY <1>1, <1>5, <1>6, <2>2, StaysAwake
  <2> QED  BY <1>8, <1>9, <2>2, <2>3, <2>4 DEF UInv
<1>18. ~ServeStep(u, i)
  BY <1>4, UserKinds DEF ServeStep
<1> QED  BY <1>3, <1>13, <1>14, <1>15, <1>16, <1>17, <1>18

\* What is in the last parts of programs.
LEMMA Ranges ==
    /\ Range(<< >>) = {} /\ Range(<<Serve>>) = {Serve}
    /\ Range(MainLoop) = {Listen, Serve}
    /\ \A r \in Thread, id \in AnswerId \cup {"VM_REPLY", "IO_REPLY"} :
          Range(Then(Send(r, id, NULL), MainLoop)) = {Send(r, id, NULL), Listen, Serve}
    /\ \A r, id : Send(r, id, NULL) \notin {Listen, Serve}
    /\ \A r, q, id, x : Send(r, id, NULL) = Send(q, x, NULL) => r = q /\ id = x
    /\ \A u : Own("unschedule", u) \notin {Listen, Serve}
    /\ \A u, r, id : Own("unschedule", u) # Send(r, id, NULL)
<1>1. Range(<< >>) = {} /\ Range(<<Serve>>) = {Serve}
  BY DEF Range
<1>2. MainLoop = Then(Listen, <<Serve>>) /\ MainLoop \in Seq(Instruction)
      /\ <<Serve>> \in Seq(Instruction) /\ Listen \in Instruction
  BY MainLoopIs, Instructions
<1>3. Range(MainLoop) = {Listen, Serve}
  <2>1. Range(Then(Listen, <<Serve>>)) = {Listen} \cup Range(<<Serve>>)
    BY <1>2, ThenProperties
  <2> QED  BY <1>1, <1>2, <2>1
<1>4. \A r \in Thread, id \in AnswerId \cup {"VM_REPLY", "IO_REPLY"} :
          Range(Then(Send(r, id, NULL), MainLoop)) = {Send(r, id, NULL), Listen, Serve}
  <2> TAKE r \in Thread, id \in AnswerId \cup {"VM_REPLY", "IO_REPLY"}
  <2>1. Send(r, id, NULL) \in Instruction
    <3>1. id \in MessageId
      BY DEF AnswerId, MessageId
    <3> QED  BY <3>1, Instructions
  <2>2. Range(Then(Send(r, id, NULL), MainLoop)) = {Send(r, id, NULL)} \cup Range(MainLoop)
    <3>1. PICK i \in Instruction : i = Send(r, id, NULL)
      BY <2>1
    <3>2. Range(Then(i, MainLoop)) = {i} \cup Range(MainLoop)
      BY <1>2, ThenProperties
    <3> QED  BY <3>1, <3>2
  <2> QED  BY <1>3, <2>2
<1>5. \A r, id : Send(r, id, NULL) \notin {Listen, Serve}
  BY DEF Listen, Serve, Send, Recv, Own, Instr
<1>6. \A r, q, id, x : Send(r, id, NULL) = Send(q, x, NULL) => r = q /\ id = x
  BY DEF Send, Instr
<1>7. \A u : Own("unschedule", u) \notin {Listen, Serve}
  BY DEF Listen, Serve, Recv, Own, Instr
<1>8. \A u, r, id : Own("unschedule", u) # Send(r, id, NULL)
  BY DEF Own, Send, Instr
<1> QED  BY <1>1, <1>3, <1>4, <1>5, <1>6, <1>7, <1>8

\* A step of a server keeps all promises if it keeps its own.
LEMMA ServerLeaves ==
    ASSUME IInv, UInv, NEW s \in Servers, k.sched.running = s, Moves(k', k),
           \A t \in Thread \ {s} : Kept(t), \A t \in Thread \ {s} : todo'[t] = todo[t],
           NEW u \in Users,
           \A id \in Range(ReplyTo) : todo'[u] # << >> /\ WorksFor(s, u, id) =>
                  Answered(u, s, id)' \/ WorksFor(s, u, id)' \/ Doomed(u)'
    PROVE  UserSound(u)'
<1>1. /\ u \in Thread /\ s \in Thread /\ u # s /\ TM \in Thread /\ TM # s
      /\ \A t \in Kernel : t \in Thread
  BY KernelThreads, SystemThreads DEF Kernel
<1>2. Kept(u) /\ todo'[u] = todo[u] /\ UserSound(u)
  BY <1>1 DEF UInv
<1>3. Stays(u)
  BY <1>1, <1>2, OthersLetStay
<1>4. Doomed(u) => Doomed(u)'
  BY <1>1, DoomKept
<1>5. \A t \in Kernel \ {s}, id \in Range(ReplyTo) : WorksFor(t, u, id) => WorksFor(t, u, id)'
  BY <1>1, WorkKept
<1> QED  BY <1>2, <1>3, <1>4, <1>5, PromisesKept

\* A step of a server keeps all promises: it answers whom it works for, or TM is
\* told to end it.
LEMMA ServerPromises ==
    ASSUME IInv, SInv, UInv, NoDriverFaults', NEW s \in Servers, Step(s)
    PROVE  UInv'
<1>1. /\ KernelSound(k) /\ k \in KernelState /\ SchedSound(k.sched)
      /\ todo \in [Thread -> Seq(Instruction)]
      /\ Range(threadList) \subseteq Thread
      /\ s \in Thread /\ s # Idle /\ s \in Kernel /\ s # TM /\ TM \in Kernel /\ TM \in Thread
      /\ TM \notin Users /\ \A u \in Users : u \in Thread /\ u \notin Kernel /\ u # s
  BY KernelThreads, SystemThreads DEF IInv, Typed, KernelSound, Range, Kernel
<1>2. /\ k.sched.running = s /\ ~Sleeps(s)
      /\ UNCHANGED <<threadList, nextId>> /\ \A t \in Thread \ {s} : todo'[t] = todo[t]
      /\ \/ /\ todo[s] = MainLoop /\ todo'[s] = <<Serve>>
            /\ k' = kRecv(k, s, ANY, "ANYMSGTYPE")
         \/ /\ todo[s] = <<Serve>> /\ todo'[s] = ServerServe(k.inbox[s]) \o MainLoop
            /\ k' = [k EXCEPT !.inbox[s] = Empty]
         \/ \E r \in Users \cup {TM} :
               /\ todo[s] = Returns(s, r) /\ todo'[s] = MainLoop
               /\ r = TM => s = MM
               /\ k' = kSend(k, r, [from |-> s, id |-> ReplyId(s), arg |-> NULL])
  BY ServerDoes
<1>3. Moves(k', k)
  BY <1>1, StepMoves
<1>4. CASE todo[s] = MainLoop /\ k' = kRecv(k, s, ANY, "ANYMSGTYPE")
  <2>1. \A t \in Thread \ {s} : Kept(t)
    <3>1. "ANYMSGTYPE" \in MessageId /\ s \in Thread \ {Idle}
      BY <1>1 DEF MessageId
    <3>2. \A t \in Thread \ {s} : Same(t)
      BY <1>1, <1>2, <1>4, <3>1, ReceiveEffect
    <3> QED  BY <1>1, <3>2, SameKept
  <2>2. \A u, id : ~WorksFor(s, u, id)
    <3>1. todo[s] # <<Serve>>
      BY <1>1, <1>4, ServerPrograms
    <3> QED  BY <1>4, <3>1, Ranges DEF WorksFor, Holds
  <2> QED  BY <1>2, <1>3, <2>1, <2>2, ServerLeaves DEF UInv
<1>5. CASE /\ todo[s] = <<Serve>> /\ todo'[s] = ServerServe(k.inbox[s]) \o MainLoop
           /\ k' = [k EXCEPT !.inbox[s] = Empty]
  <2>1. \A t \in Thread \ {s} : Kept(t)
    <3>1. /\ k'.sched = k.sched /\ k'.queue = k.queue
          /\ \A t \in Thread \ {s} : k'.inbox[t] = k.inbox[t]
      BY <1>1, <1>5, KernelFields
    <3> QED  BY <3>1 DEF Kept, Grows, Sleeps
  <2>2. ASSUME NEW u \in Users, NEW id \in Range(ReplyTo), WorksFor(s, u, id)
        PROVE  WorksFor(s, u, id)'
    <3>1. ~(Send(u, id, NULL) \in Range(todo[s]))
      BY <1>5, Ranges
    <3>2. PICK m : m = k.inbox[s]
      OBVIOUS
    <3>3. m.from = u /\ \E c \in DOMAIN ReplyTo : m.id = c /\ ReplyTo[c] = id
      BY <2>2, <3>1, <3>2 DEF WorksFor
    <3>4. Request(s, m)
      <4>1. MainLoop # <<Serve>> /\ \A r \in Thread : Returns(s, r) # <<Serve>>
        BY <1>1, ServerPrograms
      <4>2. \A v \in Users : Returns(s, v) # <<Serve>>
        BY <1>1, <4>1
      <4>3. Returns(s, TM) # <<Serve>>
        BY <1>1, <4>1
      <4>4. todo[s] = <<Serve>> /\ ServerSound(s) /\ ~Resting(s)
        BY <1>2, <1>5 DEF SInv, Resting
      <4> QED  BY <3>2, <4>1, <4>2, <4>3, <4>4 DEF ServerSound
    <3>5. m \in Message
      <4>1. m \in Message \cup {Empty}
        BY <1>1, <3>2, KernelFields
      <4>2. Empty.from \notin Thread
        BY SystemThreads DEF Empty
      <4> QED  BY <1>1, <3>3, <4>1, <4>2
    <3>6. /\ ServerServe(m) \o MainLoop = Returns(s, u)
      BY <1>1, <3>3, <3>4, <3>5, ServeRequest
    <3>7. id = ReplyId(s)
      <4>1. m.from # TM
        BY <1>1, <3>3
      <4> QED  BY <3>3, <3>4, <4>1, Replies DEF Request, FromTm, ReplyId
    <3>8. Send(u, id, NULL) \in Range(todo'[s])
      <4>1. todo'[s] = Then(Send(u, ReplyId(s), NULL), MainLoop)
        BY <1>5, <3>2, <3>6 DEF Returns
      <4>2. ReplyId(s) \in {"VM_REPLY", "IO_REPLY"}
        BY DEF ReplyId
      <4> QED  BY <1>1, <3>7, <4>1, <4>2, Ranges
    <3> QED  BY <3>8 DEF WorksFor, Send, Instr, Range, ReplyTo
  <2> QED  BY <1>2, <1>3, <2>1, <2>2, ServerLeaves DEF UInv
<1>6. ASSUME NEW r \in Users \cup {TM}, todo[s] = Returns(s, r),
             k' = kSend(k, r, [from |-> s, id |-> ReplyId(s), arg |-> NULL])
      PROVE  UInv'
  <2>1. PICK m : m = [from |-> s, id |-> ReplyId(s), arg |-> NULL]
    OBVIOUS
  <2>2. m \in Message /\ r \in Thread /\ ReplyId(s) \in {"VM_REPLY", "IO_REPLY"}
    BY <1>1, <2>1 DEF Message, MessageId, ReplyId
  <2>3. \A t \in Thread : Kept(t)
    BY <1>6, <2>1, <2>2, SendKept
  <2>4. ASSUME NEW u \in Users, NEW id \in Range(ReplyTo), WorksFor(s, u, id)
        PROVE  u = r /\ id = ReplyId(s)
    <3>1. todo[s] # <<Serve>>
      BY <1>6, <2>2, ServerPrograms
    <3>2. Send(u, id, NULL) \in Range(todo[s])
      BY <2>4, <3>1 DEF WorksFor, Holds
    <3> QED  BY <1>6, <2>2, <3>2, Ranges DEF Returns
  <2>5. ASSUME NEW u \in Users, u = r, todo'[u] # << >>
        PROVE  Answered(u, s, ReplyId(s))' \/ Doomed(u)'
    <3>1. todo[u] # << >> /\ ~Absent(k, u) /\ ~Sleeps(u)
      BY <1>1, <1>2, <2>5 DEF UInv, UserSound
    <3>2. Resting(TM)
      BY <1>1, <1>2, <1>6, <2>5 DEF SInv, UserFirst, UserJob, Kernel
    <3>3. Exists(u)
      <4>1. todo[TM] = <<Serve>> /\ Head(<<Serve>>) = Serve
        BY <3>2, MainLoopIs DEF Resting
      <4>2. \A p \in Post : todo[TM] # UnschedThen(u, p)
        BY <1>1, <4>1, UnschedHead DEF Serve, Own, Instr
      <4> QED  BY <1>1, <3>1, <4>2 DEF IInv, Listed
    <3>4. /\ Sent(k, u, m) => Passed(k', k, u, m)
          /\ ~Sent(k, u, m) => \/ k' = k
                               \/ Passed(k', k, TM, Kill(u))
      BY <1>1, <1>6, <2>1, <2>2, <2>5, SendOutcome
    <3>5. CASE Sent(k, u, m)
      <4>1. ~Expected(k, u, m)
        BY <3>1 DEF Expected, Sleeps
      <4>2. k'.queue[u] = Append(k.queue[u], m)
        BY <1>1, <2>2, <3>4, <3>5, <4>1, Delivers DEF Queued
      <4>3. k.queue[u] \in Seq(Message)
        BY <1>1, KernelFields
      <4>4. PICK q \in Seq(Message) : q = k.queue[u]
        BY <4>3
      <4>5. PICK n \in Nat : n = Len(q)
        BY LenProperties
      <4>6. Len(Append(q, m)) = n + 1 /\ Append(q, m)[n + 1] = m
        BY <2>2, <4>5, AppendProperties
      <4>7. k'.queue[u][n + 1] = m /\ n + 1 \in 1 .. Len(k'.queue[u])
        BY <4>2, <4>4, <4>5, <4>6
      <4> QED  BY <2>1, <4>7 DEF Answered
    <3>6. CASE ~Sent(k, u, m)
      <4>1. Kill(u) \in Message
        BY <1>1 DEF Kill, Message, MessageId
      <4>2. Expected(k, TM, Kill(u))
        BY <1>1, <3>2, RestingTakes
      <4>3. Passed(k', k, TM, Kill(u))
        <5>1. ~Accepts(k, u, m)
          BY <3>3, <3>6 DEF Sent
        <5>2. k' = Overflow(k, u)
          BY <1>6, <2>1, <2>5, <3>3, <5>1 DEF kSend
        <5>3. Accepts(k, TM, Kill(u))
          BY <4>2 DEF Accepts
        <5>4. k' = Reschedule(Put(k, TM, Kill(u)))
          BY <2>5, <5>2, <5>3 DEF Overflow, Kill
        <5> QED  BY <1>1, <4>1, <5>4, PutPasses
      <4>4. Took(TM, Kill(u))
        BY <1>1, <4>1, <4>2, <4>3, Delivers
      <4>5. todo'[TM] = <<Serve>>
        BY <1>1, <1>2, <3>2 DEF Resting
      <4>6. Holds(TM)' /\ k'.inbox[TM] = Kill(u)
        BY <4>4, <4>5 DEF Took, Holds, Sleeps, Serve, Own, Instr
      <4>7. AsksEnd(Kill(u), u)
        BY DEF AsksEnd, Kill
      <4> QED  BY <4>6, <4>7 DEF Doomed, AsksEnd
    <3> QED  BY <3>5, <3>6
  <2>6. ASSUME NEW u \in Users, NEW id \in Range(ReplyTo), todo'[u] # << >>, WorksFor(s, u, id)
        PROVE  Answered(u, s, id)' \/ Doomed(u)'
    BY <2>4, <2>5, <2>6
  <2> QED  BY <1>2, <1>3, <2>3, <2>6, ServerLeaves DEF UInv
<1> QED  BY <1>2, <1>4, <1>5, <1>6

\* A handler that TM calls keeps all promises if it keeps TM's own.
LEMMA TmLeaves ==
    ASSUME UInv, k.sched.running = TM, Moves(k', k),
           \A t \in Thread \ {TM} : Kept(t), \A t \in Thread \ {TM} : todo'[t] = todo[t],
           NEW u \in Users,
           todo'[u] # << >> /\ Doomed(u) => Doomed(u)',
           \A id \in Range(ReplyTo) : todo'[u] # << >> /\ WorksFor(TM, u, id) =>
                  Answered(u, TM, id)' \/ WorksFor(TM, u, id)' \/ Doomed(u)'
    PROVE  UserSound(u)'
<1>1. u \in Thread /\ u # TM /\ \A t \in Kernel : t \in Thread
  BY KernelThreads, SystemThreads
<1>2. Kept(u) /\ todo'[u] = todo[u] /\ UserSound(u)
  BY <1>1 DEF UInv
<1>3. Stays(u)
  BY <1>1, <1>2, OthersLetStay
<1>4. \A t \in Kernel \ {TM}, id \in Range(ReplyTo) : WorksFor(t, u, id) => WorksFor(t, u, id)'
  BY <1>1, WorkKept
<1> QED  BY <1>2, <1>3, <1>4, PromisesKept

\* TM goes on with its program and leaves nothing out.
LEMMA ProgramGoesOn ==
    ASSUME NEW u, ~Holds(TM),
           \A j \in 1 .. Len(k.queue[TM]) : ~AsksEnd(k.queue[TM][j], u),
           NEW i, NEW q, Range(todo[TM]) \subseteq {i} \cup Range(q),
           Range(q) \subseteq Range(todo'[TM])
    PROVE  /\ i # Own("unschedule", u) /\ Doomed(u) => Doomed(u)'
           /\ \A id : i # Send(u, id, NULL) /\ WorksFor(TM, u, id) => WorksFor(TM, u, id)'
<1>1. \A x : x \in Range(todo[TM]) /\ x # i => x \in Range(todo'[TM])
  OBVIOUS
<1>2. Doomed(u) => Own("unschedule", u) \in Range(todo[TM])
  BY DEF Doomed
<1>3. \A id : WorksFor(TM, u, id) => Send(u, id, NULL) \in Range(todo[TM])
  BY DEF WorksFor
<1>4. ASSUME i # Own("unschedule", u), Doomed(u) PROVE Doomed(u)'
  <2>1. Own("unschedule", u) \in Range(todo'[TM])
    BY <1>1, <1>2, <1>4
  <2> QED  BY <2>1 DEF Doomed, Own, Instr, Range
<1>5. ASSUME NEW id, i # Send(u, id, NULL), WorksFor(TM, u, id) PROVE WorksFor(TM, u, id)'
  <2>1. Send(u, id, NULL) \in Range(todo'[TM])
    BY <1>1, <1>3, <1>5
  <2> QED  BY <2>1 DEF WorksFor, Send, Instr, Range, ReplyTo
<1> QED  BY <1>4, <1>5

\* TM's receives are nothing to the others.
LEMMA TmReceivesAlone ==
    ASSUME IInv, NEW i \in {Listen, RecvMM}, NEW q \in Seq(Instruction),
           todo[TM] = Then(i, q), Step(TM) \/ TmStep
    PROVE  /\ k.sched.running = TM /\ Moves(k', k) /\ todo'[TM] = q
           /\ \A t \in Thread \ {TM} : Kept(t)
           /\ \A t \in Thread \ {TM} : todo'[t] = todo[t]
           /\ Range(todo[TM]) = {i} \cup Range(q)
<1>1. /\ i \in Instruction /\ i.do = "recv"
      /\ \/ i.to = ANY /\ i.id = "ANYMSGTYPE"
         \/ i.to = MM /\ i.id = "VM_REPLY"
  BY Instructions DEF Listen, RecvMM, Recv, Instr
<1>2. /\ k.sched.running = TM /\ Rest(TM) = q /\ RecvStep(TM, i)
      /\ Range(todo[TM]) = {i} \cup Range(q)
  BY <1>1, TmDoes
<1>3. /\ k' = kRecv(k, TM, i.to, i.id) /\ todo' = [todo EXCEPT ![TM] = q]
  BY <1>2 DEF RecvStep
<1>4. /\ KernelSound(k) /\ todo \in [Thread -> Seq(Instruction)] /\ TM \in Thread \ {Idle}
  BY SystemThreads DEF IInv, Typed
<1>5. i.to \in Thread \cup {ANY} /\ i.id \in MessageId
  BY <1>1, SystemThreads DEF MessageId
<1>6. PICK t \in Thread \ {Idle} : t = TM
  BY <1>4
<1>7. k' = kRecv(k, t, i.to, i.id) /\ k.sched.running = t
  BY <1>2, <1>3, <1>6
<1>8. \A u \in Thread \ {t} : Same(u)
  BY <1>4, <1>5, <1>7, ReceiveEffect
<1>9. \A u \in Thread \ {TM} : Kept(u)
  BY <1>4, <1>6, <1>8, SameKept
<1>10. todo'[TM] = q /\ \A u \in Thread \ {TM} : todo'[u] = todo[u]
  BY <1>3, <1>4
<1> QED  BY <1>2, <1>9, <1>10, Receiving

\* TM's sends: what they leave to do, and what they leave alone.
LEMMA TmSendsAlone ==
    ASSUME IInv, SInv, NEW i \in Instruction, NEW q \in Seq(Instruction),
           todo[TM] = Then(i, q), Step(TM) \/ TmStep,
           i.do \in {"send", "call"}, i.id \notin {"TM_KILL", "TM_EXIT"},
           i.do = "call" => i.to \in Thread
    PROVE  /\ k.sched.running = TM /\ Moves(k', k)
           /\ \A t \in Thread : Kept(t)
           /\ \A t \in Thread \ {TM} : todo'[t] = todo[t]
           /\ Range(todo[TM]) = {i} \cup Range(q)
           /\ Range(q) \subseteq Range(todo'[TM])
<1>1. PICK m : m = [from |-> TM, id |-> i.id, arg |-> i.arg]
  OBVIOUS
<1>2. /\ k' = kSend(k, i.to, m) /\ m \in Message
      /\ k.sched.running = TM
      /\ \A t \in Thread \ {TM} : todo'[t] = todo[t]
  BY <1>1, TmSends
<1>3. \A t \in Thread : Kept(t)
  BY <1>2, SendKept
<1>4. Range(todo[TM]) = {i} \cup Range(q)
  BY TmDoes
<1>5. /\ Moves(k', k)
      /\ \/ todo'[TM] = q
         \/ i.do = "call" /\ todo'[TM] = Then(Recv(i.to, ReplyTo[i.id]), q)
  BY Sending
<1>6. CASE todo'[TM] = q
  BY <1>2, <1>3, <1>4, <1>5, <1>6
<1>7. CASE i.do = "call" /\ todo'[TM] = Then(Recv(i.to, ReplyTo[i.id]), q)
  <2>1. ReplyTo[i.id] \in MessageId
    BY <1>7 DEF ReplyTo, MessageId, Instruction
  <2>2. PICK j \in Instruction : j = Recv(i.to, ReplyTo[i.id])
    BY <1>7, <2>1, Instructions
  <2>3. Range(Then(j, q)) = {j} \cup Range(q)
    BY ThenProperties
  <2> QED  BY <1>2, <1>3, <1>4, <1>5, <1>7, <2>2, <2>3
<1> QED  BY <1>5, <1>6, <1>7

\* Which of TM's programs start with what.
LEMMA TmHeads ==
    /\ Own("serve", NULL) = Serve
    /\ \A u : Own("unschedule", u) \notin {Listen, RecvMM, CallMM}
    /\ \A u, id : Send(u, id, NULL) \notin {Listen, RecvMM, CallMM}
    /\ \A u, id : Own("unschedule", u) # Send(MM, id, NULL)
    /\ \A u \in Users : \A id, x : Send(u, x, NULL) # Send(MM, id, NULL)
    /\ MainLoop # <<Serve>>
    /\ \A i \in Instruction, q \in Seq(Instruction) :
          Then(i, q) = <<Serve>> => i = Serve
<1>1. MainLoop # <<Serve>>
  <2>1. Listen # Serve
    BY DEF Listen, Serve, Recv, Own, Instr
  <2> QED  BY <2>1, MainLoopIs
<1>2. \A i \in Instruction, q \in Seq(Instruction) : Then(i, q) = <<Serve>> => i = Serve
  BY MainLoopIs, ThenProperties
<1>3. \A u : Own("unschedule", u) \notin {Listen, RecvMM, CallMM}
  BY DEF Own, Listen, RecvMM, Recv, CallMM, Call, Instr
<1>4. \A u, id : Send(u, id, NULL) \notin {Listen, RecvMM, CallMM}
  BY DEF Send, Listen, RecvMM, Recv, CallMM, Call, Instr
<1>5. \A u, id : Own("unschedule", u) # Send(MM, id, NULL)
  BY DEF Own, Send, Instr
<1>6. \A u \in Users : \A id, x : Send(u, x, NULL) # Send(MM, id, NULL)
  BY SystemThreads DEF Send, Instr
<1> QED  BY <1>1, <1>2, <1>3, <1>4, <1>5, <1>6 DEF Serve

\* TM finds a message in its main loop, or goes to rest.
LEMMA TmListensPromises ==
    ASSUME IInv, SInv, UInv, ~Sleeps(TM), todo[TM] = MainLoop,
           TmFinds \/ k.queue[TM] = << >>, Step(TM) \/ TmStep
    PROVE  UInv'
<1>1. /\ todo[TM] = Then(Listen, <<Serve>>) /\ <<Serve>> \in Seq(Instruction)
      /\ Listen.to = ANY /\ Listen.id = "ANYMSGTYPE"
  BY MainLoopIs DEF Listen, Recv, Instr
<1>2. /\ k.sched.running = TM /\ Moves(k', k) /\ todo'[TM] = <<Serve>>
      /\ \A t \in Thread \ {TM} : Kept(t)
      /\ \A t \in Thread \ {TM} : todo'[t] = todo[t]
  BY <1>1, TmReceivesAlone
<1>3. ~Holds(TM) /\ \A u, id : ~WorksFor(TM, u, id)
  BY TmHeads, Ranges DEF WorksFor, Holds
<1>4. ASSUME NEW u, Doomed(u) PROVE Doomed(u)'
  <2>1. \E j \in 1 .. Len(k.queue[TM]) : AsksEnd(k.queue[TM][j], u)
    BY <1>3, <1>4, Ranges DEF Doomed
  <2>2. Len(k.queue[TM]) = 1
    BY <2>1 DEF TmFinds
  <2>3. AsksEnd(k.queue[TM][1], u)
    BY <2>1, <2>2
  <2>4. ~Sleeps(TM)' /\ k'.inbox[TM] = k.queue[TM][1]
    <3>1. \/ \E j \in 1 .. Len(k.queue[TM]) :
                 ~Sleeps(TM)' /\ k'.inbox[TM] = k.queue[TM][j]
          \/ \A j \in 1 .. Len(k.queue[TM]) :
                 ~Matches(k.queue[TM][j], Listen.to, Listen.id)
      BY <1>1, TmReceives
    <3> QED  BY <1>1, <2>2, <3>1 DEF Matches
  <2>5. Holds(TM)'
    BY <1>2, <2>4 DEF Holds, Sleeps, Serve, Own, Instr
  <2> QED  BY <2>3, <2>4, <2>5 DEF Doomed, AsksEnd
<1> QED  BY <1>2, <1>3, <1>4, TmLeaves DEF UInv

\* TM is about to receive MM's answer.
LEMMA TmAskedPromises ==
    ASSUME IInv, SInv, UInv, TmAsked, Step(TM) \/ TmStep
    PROVE  UInv'
<1>1. PICK p \in Seq(Instruction) : todo[TM] = Then(RecvMM, p)
  BY DEF TmAsked
<1>2. /\ k.sched.running = TM /\ Moves(k', k) /\ todo'[TM] = p
      /\ \A t \in Thread \ {TM} : Kept(t)
      /\ \A t \in Thread \ {TM} : todo'[t] = todo[t]
      /\ Range(todo[TM]) = {RecvMM} \cup Range(p)
  BY <1>1, TmReceivesAlone
<1>3. ~Holds(TM)
  <2>1. RecvMM # Serve /\ RecvMM \in Instruction
    BY Instructions DEF RecvMM, Recv, Serve, Own, Instr
  <2> QED  BY <1>1, <2>1, TmHeads DEF Holds
<1>4. \A u : \A j \in 1 .. Len(k.queue[TM]) : ~AsksEnd(k.queue[TM][j], u)
  <2>1. \A u : ~AsksEnd(Reply, u)
    BY DEF AsksEnd, Reply
  <2>2. CASE k.queue[TM] = << >>
    BY <2>2
  <2>3. CASE k.queue[TM] = <<Reply>>
    <3>1. \A j \in 1 .. Len(k.queue[TM]) : k.queue[TM][j] = Reply
      BY <2>3
    <3> QED  BY <2>1, <3>1
  <2> QED  BY <2>2, <2>3 DEF TmAsked
<1>5. ASSUME NEW u \in Users PROVE UserSound(u)'
  <2>1. /\ Doomed(u) => Doomed(u)'
        /\ \A id : WorksFor(TM, u, id) => WorksFor(TM, u, id)'
    BY <1>2, <1>3, <1>4, TmHeads, ProgramGoesOn
  <2> QED  BY <1>2, <2>1, TmLeaves
<1> QED  BY <1>5 DEF UInv

\* TM asks MM, or tells it something.
LEMMA TmTellsPromises ==
    ASSUME IInv, SInv, UInv, TmWorks, NEW i \in Instruction, NEW q \in Seq(Instruction),
           \/ i = CallMM
           \/ \E id \in {"VM_CLEANUP", "TM_KILLREPLY"} : i = Send(MM, id, NULL),
           todo[TM] = Then(i, q), Step(TM) \/ TmStep
    PROVE  UInv'
<1>1. /\ i.do \in {"send", "call"} /\ i.to = MM /\ i.id \notin {"TM_KILL", "TM_EXIT"}
      /\ MM \in Thread /\ i # Serve
  BY SystemThreads DEF CallMM, Call, Send, Serve, Own, Instr
<1>2. /\ k.sched.running = TM /\ Moves(k', k)
      /\ \A t \in Thread : Kept(t)
      /\ \A t \in Thread \ {TM} : todo'[t] = todo[t]
      /\ Range(todo[TM]) = {i} \cup Range(q)
      /\ Range(q) \subseteq Range(todo'[TM])
  BY <1>1, TmSendsAlone
<1>3. ~Holds(TM)
  BY <1>1, TmHeads DEF Holds
<1>4. ASSUME NEW u \in Users PROVE UserSound(u)'
  <2>1. \A j \in 1 .. Len(k.queue[TM]) : ~AsksEnd(k.queue[TM][j], u)
    <3>1. Len(k.queue[TM]) = 0
      BY DEF TmWorks
    <3> QED  BY <3>1
  <2>2. i # Own("unschedule", u) /\ \A id : i # Send(u, id, NULL)
    BY TmHeads
  <2>3. /\ Doomed(u) => Doomed(u)'
        /\ \A id : WorksFor(TM, u, id) => WorksFor(TM, u, id)'
    BY <1>2, <1>3, <2>1, <2>2, ProgramGoesOn
  <2> QED  BY <1>2, <2>3, TmLeaves
<1> QED  BY <1>4 DEF UInv

\* Who has something to do is in the tables, unless TM is about to take it out
\* of the scheduler.
LEMMA BusyExists ==
    ASSUME IInv, UInv, NEW u \in Users, todo[u] # << >>,
           Head(todo[TM]) # Own("unschedule", u)
    PROVE  ~Absent(k, u) /\ ~Sleeps(u) /\ Exists(u)
<1>1. u \in Thread
  BY SystemThreads
<1>2. ~Absent(k, u) /\ ~Sleeps(u)
  BY DEF UInv, UserSound
<1>3. \A p \in Post : todo[TM] # UnschedThen(u, p)
  BY <1>1, UnschedHead
<1> QED  BY <1>1, <1>2, <1>3 DEF IInv, Listed

\* TM's last answer reaches the caller, or TM is told to end it.
LEMMA TmAnswersPromises ==
    ASSUME IInv, SInv, UInv, TmWorks, NEW r \in Thread, NEW id \in AnswerId, Answers(r, id),
           todo[TM] = Answer(r, id), Step(TM) \/ TmStep
    PROVE  UInv'
<1>1. /\ MainLoop \in Seq(Instruction)
      /\ id \in MessageId
      /\ todo[TM] = Then(Send(r, id, NULL), MainLoop)
  BY MainLoopIs DEF Answer, AnswerId, MessageId
<1>2. Send(r, id, NULL) \in Instruction
  BY <1>1, Instructions
<1>3. /\ Send(r, id, NULL).do = "send" /\ Send(r, id, NULL).to = r
      /\ Send(r, id, NULL).id = id /\ Send(r, id, NULL).arg = NULL
      /\ id \notin {"TM_KILL", "TM_EXIT"} /\ Send(r, id, NULL) # Serve
  BY DEF Send, Serve, Own, Instr, AnswerId
<1>4. PICK m : m = [from |-> TM, id |-> id, arg |-> NULL]
  OBVIOUS
<1>5. /\ k' = kSend(k, r, m) /\ m \in Message /\ ~Sleeps(TM)
      /\ k.sched.running = TM
      /\ \A t \in Thread \ {TM} : todo'[t] = todo[t]
  BY <1>1, <1>2, <1>3, <1>4, TmSends
<1>6. /\ Moves(k', k) /\ \A t \in Thread : Kept(t)
      /\ Range(todo[TM]) = {Send(r, id, NULL)} \cup Range(MainLoop)
      /\ Range(MainLoop) \subseteq Range(todo'[TM])
  <2>1. /\ Moves(k', k)
        /\ Range(MainLoop) \subseteq Range(todo'[TM])
        /\ Range(todo[TM]) = {Send(r, id, NULL)} \cup Range(MainLoop)
    BY <1>1, <1>2, <1>3, TmSendsAlone
  <2>2. \A t \in Thread : Kept(t)
    BY <1>5, SendKept
  <2> QED  BY <2>1, <2>2
<1>7. ~Holds(TM)
  BY <1>1, <1>2, <1>3, TmHeads DEF Holds
<1>8. /\ KernelSound(k) /\ k \in KernelState /\ SchedSound(k.sched)
      /\ Range(threadList) \subseteq Thread
      /\ TM \in Thread /\ Exists(TM) /\ TM \notin Users
      /\ \A u \in Users : u \in Thread \ {TM}
      /\ k.queue \in [Thread -> Seq(Message)]
  <2>1. /\ KernelSound(k) /\ k \in KernelState /\ SchedSound(k.sched)
        /\ Range(threadList) \subseteq Thread
        /\ TM \in Thread /\ Exists(TM) /\ TM \notin Users
        /\ \A u \in Users : u \in Thread \ {TM}
    BY SystemThreads, LenProperties DEF IInv, Typed, KernelSound, Range, KernelLives
  <2> QED  BY <2>1, KernelFields
<1>9. k.queue[TM] = << >> /\ Len(k.queue[TM]) = 0
  BY DEF TmWorks
<1>10. ASSUME NEW u \in Users, u = r, todo'[u] # << >>
       PROVE  Answered(u, TM, id)' \/ Doomed(u)'
  <2>1. Head(todo[TM]) # Own("unschedule", u)
    <3>1. Head(todo[TM]) = Send(r, id, NULL)
      BY <1>1, <1>2, ThenProperties
    <3> QED  BY <3>1, Ranges
  <2>2. todo[u] # << >>
    BY <1>5, <1>8, <1>10
  <2>3. ~Sleeps(u) /\ Exists(u) /\ u \in Thread
    BY <1>8, <2>1, <2>2, BusyExists
  <2>4. CASE Sent(k, u, m)
    <3>1. Passed(k', k, u, m)
      BY <1>5, <1>8, <1>10, <2>4, SendOutcome
    <3>2. ~Expected(k, u, m)
      BY <2>3 DEF Expected, Sleeps
    <3>3. k'.queue[u] = Append(k.queue[u], m)
      BY <1>5, <1>8, <2>3, <3>1, <3>2, Delivers DEF Queued
    <3>4. PICK q \in Seq(Message) : q = k.queue[u]
      BY <1>8, <2>3
    <3>5. PICK n \in Nat : n = Len(q)
      BY LenProperties
    <3>6. Len(Append(q, m)) = n + 1 /\ Append(q, m)[n + 1] = m
      BY <1>5, <3>5, AppendProperties
    <3>7. k'.queue[u][n + 1] = m /\ n + 1 \in 1 .. Len(k'.queue[u])
      BY <3>3, <3>4, <3>5, <3>6
    <3> QED  BY <1>4, <3>7 DEF Answered
  <2>5. CASE ~Sent(k, u, m)
    <3>1. Kill(u) \in Message
      BY <1>8 DEF Kill, Message, MessageId
    <3>2. Accepts(k, TM, Kill(u))
      BY <1>9, IPCAssumption DEF Accepts
    <3>3. k' = Overflow(k, u)
      BY <1>5, <1>10, <2>3, <2>5 DEF Sent, kSend
    <3>4. k' = Reschedule(Put(k, TM, Kill(u)))
      BY <3>2, <3>3 DEF Overflow, Kill
    <3>5. Passed(k', k, TM, Kill(u))
      BY <1>8, <3>1, <3>4, PutPasses
    <3>6. ~Expected(k, TM, Kill(u))
      BY <1>5 DEF Expected, Sleeps
    <3>7. k'.queue[TM] = Append(k.queue[TM], Kill(u))
      BY <1>8, <3>1, <3>5, <3>6, Delivers DEF Queued
    <3>8. k'.queue[TM] = <<Kill(u)>>
      BY <1>9, <3>7
    <3>9. 1 \in 1 .. Len(k'.queue[TM]) /\ k'.queue[TM][1] = Kill(u)
      BY <3>8
    <3>10. AsksEnd(Kill(u), u)
      BY DEF AsksEnd, Kill
    <3> QED  BY <3>9, <3>10 DEF Doomed, AsksEnd
  <2> QED  BY <2>4, <2>5
<1>11. ASSUME NEW u \in Users PROVE UserSound(u)'
  <2>1. \A j \in 1 .. Len(k.queue[TM]) : ~AsksEnd(k.queue[TM][j], u)
    BY <1>9
  <2>2. /\ Doomed(u) => Doomed(u)'
        /\ \A x : Send(r, id, NULL) # Send(u, x, NULL) /\ WorksFor(TM, u, x) =>
               WorksFor(TM, u, x)'
    <3>1. Send(r, id, NULL) # Own("unschedule", u)
      BY Ranges
    <3> QED  BY <1>6, <1>7, <2>1, <3>1, ProgramGoesOn
  <2>3. \A x : Send(r, id, NULL) = Send(u, x, NULL) => u = r /\ x = id
    BY Ranges
  <2>4. ASSUME NEW x \in Range(ReplyTo), todo'[u] # << >>, WorksFor(TM, u, x)
        PROVE  Answered(u, TM, x)' \/ WorksFor(TM, u, x)' \/ Doomed(u)'
    <3>1. CASE Send(r, id, NULL) = Send(u, x, NULL)
      BY <1>10, <2>3, <2>4, <3>1
    <3>2. CASE Send(r, id, NULL) # Send(u, x, NULL)
      BY <2>2, <2>4, <3>2
    <3> QED  BY <3>1, <3>2
  <2> QED  BY <1>5, <1>6, <2>2, <2>4, TmLeaves
<1> QED  BY <1>11 DEF UInv

\* What TM takes on when it looks at a request.
LEMMA ServeOwes ==
    ASSUME IInv, NEW m \in Message, TmRequest(m), NEW u \in Users
    PROVE  /\ AsksEnd(m, u) /\ Exists(u) =>
                 Own("unschedule", u) \in Range(TmServe(m) \o MainLoop)
           /\ \A c \in DOMAIN ReplyTo : m.from = u /\ m.id = c =>
                 Send(u, ReplyTo[c], NULL) \in Range(TmServe(m) \o MainLoop)
<1>1. /\ MainLoop \in Seq(Instruction) /\ u \in Thread
      /\ TM \notin Users /\ MM \notin Users
      /\ \A v \in Users : v \in Thread
      /\ MM \in Thread /\ TM \in Thread
  BY MainLoopIs, SystemThreads
<1>2. \A v \in Users : /\ threadDestroy(v) \in Seq(Instruction)
                       /\ Exists(v) => Own("unschedule", v) \in Range(threadDestroy(v))
  <2> TAKE v \in Users
  <2>1. /\ Own("unhash", v) \in Instruction /\ Own("unschedule", v) \in Instruction
        /\ Call(MM, "VM_CALL", NULL) \in Instruction
        /\ Send(MM, "VM_CLEANUP", NULL) \in Instruction
        /\ Own("freeblocked", v) \in Instruction
    BY <1>1, Instructions DEF CallMM
  <2>2. CASE Exists(v)
    <3>1. threadDestroy(v) = <<Own("unhash", v), Own("unschedule", v),
                               Call(MM, "VM_CALL", NULL), Send(MM, "VM_CLEANUP", NULL),
                               Own("freeblocked", v)>>
      BY <2>2 DEF threadDestroy
    <3>2. threadDestroy(v)[2] = Own("unschedule", v) /\ 2 \in DOMAIN threadDestroy(v)
      BY <3>1
    <3>3. Own("unschedule", v) \in Range(threadDestroy(v))
      BY <3>2 DEF Range
    <3> QED  BY <2>1, <3>1, <3>3
  <2>3. CASE ~Exists(v)
    BY <2>3 DEF threadDestroy
  <2> QED  BY <2>2, <2>3
<1>3. threadStart \in Seq(Instruction)
  <2>1. CASE nextId > Len(UserIds)
    BY <2>1 DEF threadStart
  <2>2. CASE ~(nextId > Len(UserIds))
    <3>1. nextId \in 1 .. Len(UserIds)
      <4>1. nextId \in Nat \ {0} /\ Len(UserIds) \in Nat
        BY LenProperties, IPCAssumption DEF IInv, Typed
      <4> QED  BY <4>1, <2>2
    <3>2. UserIds[nextId] \in Users
      BY <3>1, IPCAssumption DEF Users, Range
    <3>3. PICK v \in Thread : v = UserIds[nextId]
      BY <1>1, <3>2
    <3>4. /\ Own("hash", v) \in Instruction /\ Own("build", v) \in Instruction
          /\ Own("ready", v) \in Instruction /\ Call(MM, "VM_CALL", NULL) \in Instruction
      BY Instructions DEF CallMM
    <3>5. threadStart = <<Call(MM, "VM_CALL", NULL), Own("hash", v),
                          Call(MM, "VM_CALL", NULL), Own("build", v), Own("ready", v)>>
      BY <2>2, <3>3 DEF threadStart
    <3> QED  BY <3>4, <3>5
  <2> QED  BY <2>1, <2>2
\* what is in a program of the form a, the answer i, the main loop
<1>4. ASSUME NEW a \in Seq(Instruction), NEW i \in Instruction
      PROVE  Range((a \o <<i>>) \o MainLoop) = Range(a) \cup {i} \cup Range(MainLoop)
  <2>1. <<i>> \in Seq(Instruction) /\ Range(<<i>>) = {i}
    BY DEF Range
  <2>2. PICK b \in Seq(Instruction) : b = <<i>>
    BY <2>1
  <2>3. Range(a \o b) = Range(a) \cup Range(b)
    BY RangeConcatenation
  <2>4. PICK c \in Seq(Instruction) : c = a \o b
    BY ConcatProperties
  <2>5. Range(c \o MainLoop) = Range(c) \cup Range(MainLoop)
    BY <1>1, RangeConcatenation
  <2> QED  BY <2>1, <2>2, <2>3, <2>4, <2>5
<1>5. \A r \in Thread, id \in MessageId : Send(r, id, NULL) \in Instruction
  BY Instructions
<1>6. ASSUME m.id = "TM_EXIT", AsksEnd(m, u), Exists(u)
      PROVE  Own("unschedule", u) \in Range(TmServe(m) \o MainLoop)
  <2>1. TmServe(m) = threadDestroy(u)
    BY <1>6 DEF TmServe, AsksEnd
  <2>2. Range(threadDestroy(u) \o MainLoop) = Range(threadDestroy(u)) \cup Range(MainLoop)
    BY <1>1, <1>2, RangeConcatenation
  <2> QED  BY <1>2, <1>6, <2>1, <2>2
<1>7. ASSUME m.id = "TM_KILL"
      PROVE  /\ AsksEnd(m, u) /\ Exists(u) =>
                   Own("unschedule", u) \in Range(TmServe(m) \o MainLoop)
             /\ m.from = u => Send(u, "TM_KILLREPLY", NULL) \in Range(TmServe(m) \o MainLoop)
  <2>1. TmServe(m) = threadKill(m.arg, m.from) \o <<Send(m.from, "TM_KILLREPLY", NULL)>>
    BY <1>7 DEF TmServe
  <2>2. m.from \in Users \/ (m.from \in {TM, MM} /\ m.arg \in Users)
    BY <1>7 DEF TmRequest, OfTm
  <2>3. threadKill(m.arg, m.from) \in Seq(Instruction)
    BY <1>1, <1>2, <2>2 DEF threadKill
  <2>4. m.from \in Thread /\ "TM_KILLREPLY" \in MessageId
    BY <1>1, <2>2 DEF MessageId
  <2>5. Send(m.from, "TM_KILLREPLY", NULL) \in Instruction
    BY <1>5, <2>4
  <2>6. Range(TmServe(m) \o MainLoop) =
            Range(threadKill(m.arg, m.from)) \cup {Send(m.from, "TM_KILLREPLY", NULL)}
                \cup Range(MainLoop)
    BY <1>4, <2>1, <2>3, <2>5
  <2>7. AsksEnd(m, u) => threadKill(m.arg, m.from) = threadDestroy(u)
    BY <1>1, <1>7 DEF AsksEnd, threadKill
  <2> QED  BY <1>2, <2>6, <2>7
<1>8. ASSUME m.id = "TM_START", m.from = u
      PROVE  Send(u, "TM_STARTREPLY", NULL) \in Range(TmServe(m) \o MainLoop)
  <2>1. TmServe(m) = threadStart \o <<Send(u, "TM_STARTREPLY", NULL)>>
    BY <1>8 DEF TmServe
  <2>2. Send(u, "TM_STARTREPLY", NULL) \in Instruction
    BY <1>1, <1>5 DEF MessageId
  <2> QED  BY <1>3, <1>4, <2>1, <2>2
<1>9. AsksEnd(m, u) => m.id \in {"TM_EXIT", "TM_KILL"}
  BY DEF AsksEnd
<1>10. ASSUME NEW c \in DOMAIN ReplyTo, m.from = u, m.id = c
       PROVE  Send(u, ReplyTo[c], NULL) \in Range(TmServe(m) \o MainLoop)
  <2>1. c \in {"TM_START", "TM_KILL"}
    BY <1>1, <1>10, Replies DEF TmRequest, OfTm
  <2> QED  BY <1>7, <1>8, <1>10, <2>1, Replies
<1> QED  BY <1>6, <1>7, <1>9, <1>10

\* TM looks at a request.
LEMMA TmLooksPromises ==
    ASSUME IInv, SInv, UInv, TmLooks, Step(TM) \/ TmStep
    PROVE  UInv'
<1>1. /\ k.sched.running = TM /\ ServeStep(TM, Serve)
  <2>1. todo[TM] = Then(Serve, << >>) /\ << >> \in Seq(Instruction) /\ Serve \in Instruction
    BY MainLoopIs, Instructions DEF TmLooks, Holds
  <2>2. Serve.do = "serve"
    BY DEF Serve, Own, Instr
  <2> QED  BY <2>1, <2>2, TmDoes
<1>2. PICK m : m = k.inbox[TM]
  OBVIOUS
<1>3. /\ k' = [k EXCEPT !.inbox[TM] = Empty]
      /\ todo' = [todo EXCEPT ![TM] = TmServe(m) \o MainLoop]
  BY <1>1, <1>2 DEF ServeStep
<1>4. /\ KernelSound(k) /\ k \in KernelState /\ todo \in [Thread -> Seq(Instruction)]
      /\ TM \in Thread /\ MM \in Thread /\ \A u \in Users : u \in Thread
  BY SystemThreads DEF IInv, Typed, KernelSound
<1>5. Moves(k', k)
  BY <1>1, <1>3, <1>4, ServeMoves
<1>6. \A t \in Thread \ {TM} : Kept(t)
  <2>1. /\ k'.sched = k.sched /\ k'.queue = k.queue
        /\ \A t \in Thread \ {TM} : k'.inbox[t] = k.inbox[t]
    BY <1>3, <1>4, KernelFields
  <2> QED  BY <2>1 DEF Kept, Grows, Sleeps
<1>7. /\ todo'[TM] = TmServe(m) \o MainLoop
      /\ \A t \in Thread \ {TM} : todo'[t] = todo[t]
  BY <1>3, <1>4
<1>8. TmRequest(m) /\ todo[TM] = <<Serve>> /\ Len(k.queue[TM]) = 0
  BY <1>2 DEF TmLooks, Holds
<1>9. m \in Message
  <2>1. m \in Message \cup {Empty}
    BY <1>2, <1>4, KernelFields
  <2>2. m.from \in Thread
    BY <1>4, <1>8 DEF TmRequest, OfTm
  <2>3. Empty.from \notin Thread
    BY SystemThreads DEF Empty
  <2> QED  BY <2>1, <2>2, <2>3
<1>10. ASSUME NEW u \in Users PROVE UserSound(u)'
  <2>1. /\ AsksEnd(m, u) /\ Exists(u) => Own("unschedule", u) \in Range(todo'[TM])
        /\ \A c \in DOMAIN ReplyTo : m.from = u /\ m.id = c =>
                 Send(u, ReplyTo[c], NULL) \in Range(todo'[TM])
    BY <1>7, <1>8, <1>9, ServeOwes
  <2>2. ASSUME todo'[u] # << >>, Doomed(u) PROVE Doomed(u)'
    <3>1. AsksEnd(m, u)
      BY <1>2, <1>8, <2>2, Ranges DEF Doomed
    <3>2. todo[u] # << >>
      BY <1>7, <2>2, SystemThreads
    <3>3. Head(todo[TM]) # Own("unschedule", u)
      BY <1>8, MainLoopIs, Ranges
    <3>4. Exists(u)
      BY <3>2, <3>3, BusyExists
    <3> QED  BY <2>1, <3>1, <3>4 DEF Doomed, Own, Instr, Range
  <2>3. ASSUME NEW id \in Range(ReplyTo), WorksFor(TM, u, id) PROVE WorksFor(TM, u, id)'
    <3>1. Send(u, id, NULL) \in Range(todo'[TM])
      BY <1>2, <1>8, <2>1, <2>3, Ranges DEF WorksFor
    <3> QED  BY <3>1 DEF WorksFor, Send, Instr, Range, ReplyTo
  <2> QED  BY <1>1, <1>5, <1>6, <1>7, <2>2, <2>3, TmLeaves
<1> QED  BY <1>10 DEF UInv

\* TM builds only a thread that the scheduler does not know.
LEMMA BuildForm ==
    ASSUME IInv, NEW t \in Thread, Head(todo[TM]) = Own("build", t)
    PROVE  Absent(k, t)
<1>0. Head(todo[TM]).do = "build" /\ Head(todo[TM]).to = t
  BY DEF Own, Instr
<1>1. \A i \in Instruction, q \in Seq(Instruction) :
          todo[TM] = Then(i, q) => i.do = "build" /\ i.to = t
  BY <1>0, ThenProperties
<1>2. todo[TM] # <<Serve>> /\ todo[TM] # MainLoop
  <2>1. Listen.do = "recv" /\ Serve.do = "serve"
    BY DEF Listen, Recv, Serve, Own, Instr
  <2> QED  BY <1>0, <2>1, MainLoopIs
<1>3. ASSUME NEW r \in Thread \cup {NULL}, NEW id \in AnswerId
      PROVE  todo[TM] # Answer(r, id)
  <2>1. Send(r, id, NULL) \in Instruction
    <3>1. id \in MessageId
      BY DEF AnswerId, MessageId
    <3> QED  BY <3>1, Instructions
  <2>2. Send(r, id, NULL).do = "send"
    BY DEF Send, Instr
  <2> QED  BY <1>1, <2>1, <2>2, MainLoopIs DEF Answer
<1>4. ASSUME NEW p \in Post PROVE todo[TM] # p
  BY <1>2, <1>3 DEF Post, AnswerId
<1>5. ASSUME NEW p \in Seq(Instruction)
      PROVE  todo[TM] \notin {Then(CallMM, p), Then(RecvMM, p)}
  <2>1. CallMM.do = "call" /\ RecvMM.do = "recv"
    BY DEF CallMM, Call, RecvMM, Recv, Instr
  <2> QED  BY <1>1, <2>1, Instructions
<1>6. ASSUME NEW x \in Mortal, NEW p \in Post PROVE ~Ending(x, p)
  <2>1. /\ x \in Thread /\ p \in Seq(Instruction)
        /\ Visits(x) \subseteq Instruction
        /\ CleanThen(x, p) \in Seq(Instruction) /\ FreeThen(x, p) \in Seq(Instruction)
        /\ Then(CallMM, CleanThen(x, p)) \in Seq(Instruction)
        /\ UnschedThen(x, p) \in Seq(Instruction)
    BY MortalThreads, Forms, Instructions
  <2>2. /\ Own("unhash", x).do = "unhash" /\ Own("unschedule", x).do = "unschedule"
        /\ Own("freeblocked", x).do = "freeblocked"
        /\ Send(MM, "VM_CLEANUP", NULL).do = "send"
        /\ \A y \in Thread : Own("ready", y).do = "ready"
        /\ \A h \in Visits(x) : h.do = "visit"
    BY DEF Own, Send, Visits, Instr
  <2>3. /\ Own("unhash", x) \in Instruction /\ Own("unschedule", x) \in Instruction
        /\ Own("freeblocked", x) \in Instruction
        /\ Send(MM, "VM_CLEANUP", NULL) \in Instruction
        /\ \A y \in Thread : Own("ready", y) \in Instruction
    BY <2>1, Instructions
  <2>4. todo[TM] # UnhashThen(x, p)
    BY <1>1, <2>1, <2>2, <2>3 DEF UnhashThen
  <2>5. todo[TM] # UnschedThen(x, p)
    BY <1>1, <2>1, <2>2, <2>3 DEF UnschedThen
  <2>6. todo[TM] # FreeThen(x, p)
    BY <1>1, <2>1, <2>2, <2>3 DEF FreeThen
  <2>7. ~Around(CleanThen(x, p))
    <3>1. todo[TM] # CleanThen(x, p)
      BY <1>1, <2>1, <2>2, <2>3 DEF CleanThen
    <3> QED  BY <1>5, <2>1, <3>1 DEF Around
  <2>8. ASSUME NEW v \in Seq(Visits(x)) PROVE todo[TM] # v \o p
    <3>1. CASE v = << >>
      BY <1>4, <2>1, <3>1, ConcatEmptySeq
    <3>2. CASE v # << >>
      <4>1. Head(v) \in Visits(x)
        BY <3>2, HeadTailProperties
      <4>2. v \in Seq(Instruction)
        BY <2>1
      <4>3. Head(v \o p) = Head(v)
        BY <2>1, <3>2, <4>2, HeadTailConcat
      <4> QED  BY <1>0, <2>2, <4>1, <4>3
    <3> QED  BY <3>1, <3>2
  <2>9. ASSUME NEW v \in Seq(Visits(x)), NEW y \in Thread
        PROVE  todo[TM] # Then(Own("ready", y), v \o p)
    <3>1. v \o p \in Seq(Instruction)
      <4>1. v \in Seq(Instruction)
        BY <2>1
      <4> QED  BY <2>1, <4>1, ConcatProperties
    <3> QED  BY <1>1, <2>2, <2>3, <3>1
  <2> QED  BY <2>4, <2>5, <2>6, <2>7, <2>8, <2>9 DEF Ending, Visiting
<1>7. PICK u \in Users, r \in Thread : Starting(u, r)
  BY <1>2, <1>3, <1>6 DEF IInv, TmProgram
<1>8. /\ u \in Thread
      /\ HashThen(u, r) \in Seq(Instruction) /\ BuildThen(u, r) \in Seq(Instruction)
      /\ Then(CallMM, BuildThen(u, r)) \in Seq(Instruction)
      /\ ReadyThen(u, r) \in Seq(Instruction)
      /\ Answer(r, "TM_STARTREPLY") \in Seq(Instruction)
  BY SystemThreads, Forms DEF AnswerId
<1>9. /\ Own("hash", u) \in Instruction /\ Own("build", u) \in Instruction
      /\ Own("ready", u) \in Instruction
  BY <1>8, Instructions
<1>10. /\ Own("hash", u).do = "hash" /\ Own("build", u).to = u
       /\ Own("ready", u).do = "ready"
  BY DEF Own, Instr
<1>11. todo[TM] # HashThen(u, r)
  BY <1>1, <1>8, <1>9, <1>10 DEF HashThen
<1>12. todo[TM] # ReadyThen(u, r)
  BY <1>1, <1>8, <1>9, <1>10 DEF ReadyThen
<1>13. todo[TM] = BuildThen(u, r) => u = t
  BY <1>1, <1>8, <1>9, <1>10 DEF BuildThen
<1> QED  BY <1>5, <1>7, <1>8, <1>11, <1>12, <1>13 DEF Starting, Around

\* TM's own changes put no user thread to sleep that has something to do, and
\* whom they end has nothing more to do.
LEMMA OwnLetsStay ==
    ASSUME IInv, SInv, UInv, NEW i \in OwnWork, NEW q \in Seq(Instruction),
           todo[TM] = Then(i, q), Step(TM) \/ TmStep, NEW u \in Users
    PROVE  /\ Stays(u)
           /\ i = Own("unschedule", u) => todo'[u] = << >>
<1>1. /\ KernelSound(k) /\ k \in KernelState /\ SchedSound(k.sched)
      /\ k.sched \in Scheduler /\ todo \in [Thread -> Seq(Instruction)]
      /\ TM \in Thread /\ u \in Thread /\ u # TM
      /\ \A v \in Users : v \in Thread /\ v # TM
  BY SystemThreads DEF IInv, Typed, KernelSound, SchedSound
<1>2. /\ k.queue \in [Thread -> Seq(Message)]
      /\ k.inbox \in [Thread -> Message \cup {Empty}]
      /\ k.pend \in [Thread -> PendingRecord]
      /\ k.ret \in [Thread -> {"OK", "FAILED"}]
      /\ k.sched.status \in [Thread -> SchedStatus]
  BY <1>1, KernelFields DEF Scheduler
<1>3. i \in Instruction
  BY WorkIs DEF Work
<1>4. /\ k.sched.running = TM /\ Rest(TM) = q /\ Head(todo[TM]) = i
      /\ i.do = "hash"        => Hash(i)
      /\ i.do = "build"       => Build(i)
      /\ i.do = "ready"       => Ready(i)
      /\ i.do = "unhash"      => Unhash(i)
      /\ i.do = "unschedule"  => Unschedule(i)
      /\ i.do = "freeblocked" => FreeBlocked(i)
      /\ i.do = "visit"       => Visit(i)
  BY <1>3, TmDoes
<1>5. /\ \/ /\ i.do \in {"hash", "build", "ready", "unhash", "unschedule", "freeblocked"}
            /\ i.to \in Users /\ i = Own(i.do, i.to)
         \/ i.do = "visit" /\ i.to \in Thread /\ i.arg \in Users
      /\ i = Own("unschedule", u) => i.do = "unschedule" /\ i.to = u
  BY DEF OwnWork, Own, Instr
<1>6. ASSUME todo'[u] = todo[u], i.do # "unschedule",
             Absent(k', u) => Absent(k, u), Sleeps(u)' => Sleeps(u) \/ todo[u] = << >>,
             k'.pend[u] = k.pend[u], WaitsIn(k', u) => WaitsIn(k, u),
             k'.queue[u] = k.queue[u] \/ todo[u] = << >>
      PROVE  /\ Stays(u)
             /\ i = Own("unschedule", u) => todo'[u] = << >>
  <2>1. Absent(k, u) \/ Sleeps(u) => todo[u] = << >>
    BY DEF UInv, UserSound
  <2> QED  BY <1>5, <1>6, <2>1 DEF Stays, Grows
<1>7. ASSUME todo'[u] = todo[u], i.do # "unschedule",
             k'.sched = k.sched, k'.pend = k.pend, k'.queue = k.queue
      PROVE  /\ Stays(u)
             /\ i = Own("unschedule", u) => todo'[u] = << >>
  BY <1>6, <1>7 DEF Absent, Sleeps, WaitsIn
<1>8. ASSUME NEW p, todo' = [todo EXCEPT ![TM] = p]
      PROVE  todo'[u] = todo[u]
  BY <1>1, <1>8
<1>9. CASE i.do \in {"hash", "unhash", "freeblocked"}
  <2>1. k' = k /\ \E p : todo' = [todo EXCEPT ![TM] = p]
    BY <1>4, <1>9 DEF Hash, Unhash, FreeBlocked
  <2> QED  BY <1>7, <1>8, <1>9, <2>1
<1>10. CASE i.do = "build"
  <2>1. /\ k' = [k EXCEPT !.sched = schedulerInsert(@, i.to), !.queue[i.to] = << >>]
        /\ todo' = [todo EXCEPT ![TM] = q]
    BY <1>4, <1>10 DEF Build
  <2>2. PICK v \in Users : v = i.to
    BY <1>5, <1>10
  <2>3. Absent(k, v)
    <3>1. Head(todo[TM]) = Own("build", v) /\ v \in Thread
      BY <1>1, <1>4, <1>5, <1>10, <2>2
    <3> QED  BY <3>1, BuildForm
  <2>4. todo[v] = << >>
    BY <2>3 DEF UInv, UserSound
  <2>5. /\ k'.sched = schedulerInsert(k.sched, v)
        /\ k'.queue = [k.queue EXCEPT ![v] = << >>]
        /\ k'.pend = k.pend
    BY <1>1, <2>1, <2>2 DEF KernelState
  <2>6. k'.sched.status = [k.sched.status EXCEPT ![v] = "BLOCKED"]
    BY <1>1, <2>5 DEF schedulerInsert, Scheduler
  <2>7. \A t \in Thread : WaitsIn(k', t) <=> WaitsIn(k, t)
    <3>1. v \in Thread
      BY <1>1
    <3>2. k' = [k EXCEPT !.sched = schedulerInsert(@, v), !.queue[v] = << >>]
      BY <2>1, <2>2
    <3> QED  BY <1>1, <2>3, <3>1, <3>2, BuildEffect
  <2>8. todo'[u] = todo[u]
    BY <1>8, <2>1
  <2>9. CASE u = v
    <3>1. k'.sched.status[u] = "BLOCKED"
      BY <1>1, <1>2, <2>6, <2>9
    <3> QED  BY <1>1, <1>6, <1>10, <2>4, <2>5, <2>7, <2>8, <2>9, <3>1 DEF Absent
  <2>10. CASE u # v
    <3>1. k'.sched.status[u] = k.sched.status[u] /\ k'.queue[u] = k.queue[u]
      BY <1>1, <1>2, <2>5, <2>6, <2>10
    <3> QED  BY <1>1, <1>6, <1>10, <2>5, <2>7, <2>8, <3>1 DEF Absent, Sleeps
  <2> QED  BY <2>9, <2>10
<1>11. CASE i.do = "ready"
  <2>1. /\ k' = [k EXCEPT !.sched = schedulerSetReady(@, i.to)]
        /\ todo' = [todo EXCEPT ![TM] = q]
    BY <1>4, <1>11 DEF Ready
  <2>2. i.to \in Users
    BY <1>5, <1>11
  <2>3. /\ k'.sched = schedulerSetReady(k.sched, i.to)
        /\ k'.queue = k.queue /\ k'.pend = k.pend
    BY <1>1, <2>1 DEF KernelState
  <2>4. \/ k'.sched.status = [k.sched.status EXCEPT ![i.to] = "READY"]
        \/ k'.sched = k.sched
    BY <1>1, <2>3 DEF schedulerSetReady, SwapToReady, Scheduler
  <2>5. k'.sched.status[u] = k.sched.status[u] \/ k'.sched.status[u] = "READY"
    BY <1>1, <1>2, <2>2, <2>4
  <2>6. todo'[u] = todo[u]
    BY <1>8, <2>1
  <2> QED  BY <1>6, <1>11, <2>3, <2>5, <2>6 DEF Absent, Sleeps, WaitsIn
<1>12. CASE i.do = "unschedule"
  <2>1. /\ k' = Unscheduled(k, i.to)
        /\ todo' = [todo EXCEPT ![TM] = q, ![i.to] = << >>]
    BY <1>4, <1>12 DEF Unschedule, Unscheduled
  <2>2. i.to \in Users
    BY <1>5, <1>12
  <2>3. /\ k'.sched = schedulerRemove(k.sched, i.to)
        /\ k'.queue = [k.queue EXCEPT ![i.to] = << >>]
        /\ k'.pend = [k.pend EXCEPT ![i.to] = NotWaiting]
    BY <1>1, <2>1 DEF KernelState, Unscheduled
  \* TM has the processor, not the user that it removes.
  <2>4. k'.sched.status = [k.sched.status EXCEPT ![i.to] = "ABSENT"]
    <3>1. k.sched.status[i.to] # "RUNNING"
      BY <1>1, <1>4, <2>2 DEF SchedSound
    <3> QED  BY <1>1, <2>3, <3>1 DEF schedulerRemove, Scheduler
  <2>5. CASE u = i.to
    <3>1. todo'[u] = << >> /\ k'.sched.status[u] = "ABSENT"
      BY <1>1, <1>2, <2>1, <2>4, <2>5
    <3> QED  BY <3>1 DEF Stays, WaitsIn
  <2>6. CASE u # i.to
    <3>1. /\ todo'[u] = todo[u] /\ k'.sched.status[u] = k.sched.status[u]
          /\ k'.queue[u] = k.queue[u] /\ k'.pend[u] = k.pend[u]
      BY <1>1, <1>2, <2>1, <2>2, <2>3, <2>4, <2>6
    <3>2. Absent(k, u) \/ Sleeps(u) => todo[u] = << >>
      BY DEF UInv, UserSound
    <3> QED  BY <1>5, <2>6, <3>1, <3>2 DEF Stays, Grows, Absent, Sleeps, WaitsIn
  <2> QED  BY <2>5, <2>6
<1>13. CASE i.do = "visit"
  <2>1. /\ k' = k \/ k' = [k EXCEPT !.ret[i.to] = "FAILED"]
        /\ \E p : todo' = [todo EXCEPT ![TM] = p]
    BY <1>4, <1>13 DEF Visit
  <2>2. k'.sched = k.sched /\ k'.pend = k.pend /\ k'.queue = k.queue
    BY <1>1, <2>1 DEF KernelState
  <2> QED  BY <1>7, <1>8, <1>13, <2>1, <2>2
<1> QED  BY <1>5, <1>9, <1>10, <1>11, <1>12, <1>13

\* One of TM's own changes.
LEMMA TmChangesPromises ==
    ASSUME IInv, SInv, UInv, TmWorks, NEW i \in OwnWork, NEW q \in Seq(Instruction),
           todo[TM] = Then(i, q), Step(TM) \/ TmStep
    PROVE  UInv'
<1>1. /\ \A t \in Kernel : Same(t)
      /\ \A t \in Servers : todo'[t] = todo[t]
      /\ \E v \in Seq(Work) : todo'[TM] = v \o q
  BY OwnChanges
<1>2. i \in Instruction /\ KernelSound(k) /\ \A t \in Kernel : t \in Thread
  BY WorkIs, KernelThreads DEF Work, IInv, Typed
<1>3. \A t \in Kernel : Kept(t)
  BY <1>1, <1>2, SameKept
<1>4. Range(todo[TM]) = {i} \cup Range(q)
  BY <1>2, TmDoes
<1>5. Range(q) \subseteq Range(todo'[TM])
  <2>1. PICK v \in Seq(Work) : todo'[TM] = v \o q
    BY <1>1
  <2>2. v \in Seq(Instruction)
    BY WorkIs
  <2>3. Range(v \o q) = Range(v) \cup Range(q)
    BY <2>2, RangeConcatenation
  <2> QED  BY <2>1, <2>3
<1>6. i # Serve /\ \A u, id : i # Send(u, id, NULL)
  BY DEF OwnWork, Own, Instr, Send, Serve
<1>7. ~Holds(TM)
  BY <1>2, <1>6, TmHeads DEF Holds
<1>8. Len(k.queue[TM]) = 0
  BY DEF TmWorks
<1>9. ASSUME NEW u \in Users PROVE UserSound(u)'
  <2>1. /\ Stays(u)
        /\ i = Own("unschedule", u) => todo'[u] = << >>
    BY OwnLetsStay
  <2>2. /\ i # Own("unschedule", u) /\ Doomed(u) => Doomed(u)'
        /\ \A id : WorksFor(TM, u, id) => WorksFor(TM, u, id)'
    <3>1. \A j \in 1 .. Len(k.queue[TM]) : ~AsksEnd(k.queue[TM][j], u)
      BY <1>8
    <3> QED  BY <1>4, <1>5, <1>6, <1>7, <3>1, ProgramGoesOn
  <2>3. \A s \in Servers : \A id : WorksFor(s, u, id) => WorksFor(s, u, id)'
    BY <1>1, <1>3, WorkKept DEF Kernel
  <2>4. \A s \in Kernel, id \in Range(ReplyTo) : WorksFor(s, u, id) => WorksFor(s, u, id)'
    BY <2>2, <2>3 DEF Kernel
  <2> QED  BY <2>1, <2>2, <2>4, PromisesKept DEF UInv
<1> QED  BY <1>9 DEF UInv

\* A step of TM keeps all promises.
LEMMA TmPromises ==
    ASSUME IInv, SInv, UInv, Step(TM) \/ TmStep
    PROVE  UInv'
<1>1. ~Sleeps(TM)
  <2>1. k.sched.running = TM /\ TM \in Thread
    BY SystemThreads DEF Step, TmStep, running
  <2> QED  BY <2>1 DEF IInv, Typed, KernelSound, SchedSound, Sleeps
<1>2. TmLooks \/ TmFinds \/ TmWorks \/ TmAsked
  BY <1>1 DEF SInv, TmPhase, Resting, TmSleeps
<1>3. CASE TmLooks
  BY <1>3, TmLooksPromises
<1>4. CASE TmFinds
  BY <1>1, <1>4, TmListensPromises DEF TmFinds
<1>5. CASE TmAsked
  BY <1>5, TmAskedPromises
<1>6. CASE TmWorks
  <2>1. Works(todo[TM]) /\ k.queue[TM] = << >>
    BY <1>6 DEF TmWorks
  <2>2. \/ Finish(todo[TM])
        \/ \E i \in Work, q \in Seq(Instruction) : Works(q) /\ todo[TM] = Then(i, q)
    BY <2>1, WorksStarts
  <2>3. CASE Finish(todo[TM])
    <3>1. CASE todo[TM] = MainLoop
      BY <1>1, <2>1, <3>1, TmListensPromises
    <3>2. CASE todo[TM] # MainLoop
      <4>1. PICK r \in Thread, id \in AnswerId : Answers(r, id) /\ todo[TM] = Answer(r, id)
        BY <2>3, <3>2 DEF Finish
      <4> QED  BY <1>6, <4>1, TmAnswersPromises
    <3> QED  BY <3>1, <3>2
  <2>4. CASE \E i \in Work, q \in Seq(Instruction) : Works(q) /\ todo[TM] = Then(i, q)
    <3>1. PICK i \in Work, q \in Seq(Instruction) : todo[TM] = Then(i, q)
      BY <2>4
    <3>2. i \in Instruction
      BY WorkIs
    <3>3. CASE i \in OwnWork
      BY <1>6, <3>1, <3>3, TmChangesPromises
    <3>4. CASE i = CallMM
      BY <1>6, <3>1, <3>2, <3>4, TmTellsPromises
    <3>5. CASE i = Send(MM, "VM_CLEANUP", NULL)
      BY <1>6, <3>1, <3>2, <3>5, TmTellsPromises
    <3> QED  BY <3>3, <3>4, <3>5 DEF Work
  <2> QED  BY <2>2, <2>3, <2>4
<1> QED  BY <1>2, <1>3, <1>4, <1>5, <1>6

-----------------------------------------------------------------------------
(* The theorems about promises *)

\* Every step keeps all promises, as long as no driver faults.
LEMMA PromisesHold ==
    ASSUME IInv, SInv, UInv, NoDriverFaults', [Next]_vars
    PROVE  UInv'
<1>1. CASE UNCHANGED vars
  <2>1. k' = k /\ threadList' = threadList /\ todo' = todo
    BY <1>1 DEF vars
  <2>2. ASSUME NEW u \in Users PROVE UserSound(u)'
    <3>1. UserSound(u)
      BY DEF UInv
    <3>2. Stays(u)
      BY <2>1, <3>1 DEF Stays, UserSound, Grows, Sleeps
    <3>3. \A t \in Kernel : Kept(t) /\ todo'[t] = todo[t]
      BY <2>1 DEF Kept, Grows, Sleeps
    <3>4. Doomed(u) => Doomed(u)'
      BY <3>3, DoomKept DEF Kernel
    <3>5. \A s \in Kernel, id \in Range(ReplyTo) : WorksFor(s, u, id) => WorksFor(s, u, id)'
      BY <3>3, WorkKept
    <3> QED  BY <3>1, <3>2, <3>4, <3>5, PromisesKept
  <2> QED  BY <2>2 DEF UInv
<1>2. CASE ClockInterrupt
  <2>1. KernelSound(k) /\ k' = Reschedule(k) /\ todo' = todo
    BY <1>2 DEF ClockInterrupt, IInv, Typed
  <2>2. \A t \in Thread : Kept(t)
    BY <2>1, TickEffect, SameKept
  <2>3. \A t \in Thread : /\ Absent(k', t) <=> Absent(k, t)
                          /\ WaitsIn(k', t) => WaitsIn(k, t) /\ k'.pend[t] = k.pend[t]
    <3>1. LET r == Reschedule(k)
          IN  /\ Moves(r, k)
              /\ Ticked(r.sched, k.sched)
              /\ r.queue = k.queue /\ r.inbox = k.inbox /\ r.ret = k.ret
              /\ \A u \in Thread : ~Active(r.sched, u) => r.pend[u] = k.pend[u]
      BY <2>1, TickMoves
    <3>2. Moves(k', k)
      BY <2>1, <3>1
    <3>3. \A t \in Thread : Same(t)
      BY <2>1, TickEffect
    <3>4. \A t \in Thread : Absent(k', t) <=> Absent(k, t)
      BY <3>2 DEF Moves
    <3> QED  BY <3>3, <3>4 DEF Same, Sleeps, WaitsIn
  <2>4. ASSUME NEW u \in Users PROVE UserSound(u)'
    <3>1. UserSound(u) /\ u \in Thread /\ \A t \in Kernel : t \in Thread
      BY KernelThreads, SystemThreads DEF UInv
    <3>2. Sleeps(u)' <=> Sleeps(u)
      BY <2>1, <3>1, TickEffect DEF Same
    <3>3. Stays(u)
      BY <2>1, <2>2, <2>3, <3>1, <3>2 DEF Stays, UserSound, Kept
    <3>4. Doomed(u) => Doomed(u)'
      BY <2>1, <2>2, <3>1, DoomKept DEF Kernel
    <3>5. \A s \in Kernel, id \in Range(ReplyTo) : WorksFor(s, u, id) => WorksFor(s, u, id)'
      BY <2>1, <2>2, <3>1, WorkKept
    <3> QED  BY <3>1, <3>3, <3>4, <3>5, PromisesKept
  <2> QED  BY <2>4 DEF UInv
<1>3. ASSUME NEW t \in Thread, Step(t) PROVE UInv'
  <2>1. CASE t = TM
    BY <1>3, <2>1, TmPromises
  <2>2. CASE t \in Servers
    BY <1>3, <2>2, ServerPromises
  <2>3. CASE t \in Users
    BY <1>3, <2>3, UserPromises
  <2>4. CASE t = Idle
    <3>1. todo[Idle] = << >> /\ Idle \notin Users
      BY SystemThreads DEF IInv, Programs
    <3>2. NextInstr(Idle) = {}
      BY <3>1 DEF NextInstr
    <3> QED  BY <1>3, <2>4, <3>2 DEF Step
  <2> QED  BY <2>1, <2>2, <2>3, <2>4, KernelThreads DEF Kernel
<1>4. CASE TmStep
  BY <1>4, TmPromises
<1> QED  BY <1>1, <1>2, <1>3, <1>4 DEF Next

\* There are none at the start.
LEMMA PromisesStart ==
    ASSUME Init
    PROVE  UInv
<1>1. ASSUME NEW u \in Users PROVE UserSound(u)
  <2>1. u \in Thread /\ u \notin {TM, MM} \cup Drivers
    BY SystemThreads
  <2>2. todo[u] = << >>
    BY <2>1, InitFields
  <2>3. ~WaitsIn(k, u)
    BY <2>1, InitStatus DEF WaitsIn
  <2>4. <<Beyond>> # << >> /\ \A s, id : <<Recv(s, id)>> # << >>
    OBVIOUS
  <2> QED  BY <2>2, <2>3, <2>4 DEF UserSound
<1> QED  BY <1>1 DEF UInv

\* All three invariants.
LEMMA Promised ==
    Spec /\ []NoDriverFaults => [](IInv /\ SInv /\ UInv)
<1>1. Init => SInv /\ UInv
  BY ServersStart, PromisesStart
<1>2. IInv /\ SInv /\ UInv /\ NoDriverFaults' /\ [Next]_vars => SInv' /\ UInv'
  BY ServersKeep, PromisesHold
<1>3. Spec => []IInv
  BY Inductive
<1> QED  BY <1>1, <1>2, <1>3, PTL DEF Spec

\* The thread that runs is not one whose tmExit has succeeded.
LEMMA NoGarbage ==
    ASSUME IInv, SInv, UInv
    PROVE  RunsNoGarbage
<1>1. PICK t \in Thread : t = k.sched.running
  BY DEF IInv, Typed, KernelSound, SchedSound
<1>2. SUFFICES ASSUME todo[t] = <<Beyond>> PROVE FALSE
  BY <1>1 DEF RunsNoGarbage, running
<1>3. Head(<<Beyond>>) = Beyond /\ Beyond.do = "beyond" /\ <<Beyond>> # << >>
  BY DEF Beyond, Own, Instr
<1>4. CASE t \in Users
  <2>1. \A s \in Kernel : Resting(s)
    BY <1>1, <1>4, UsersRun DEF running
  <2>2. Doomed(t)
    BY <1>2, <1>4 DEF UInv, UserSound
  <2> QED  BY <2>1, <2>2, Quiet
<1>5. CASE t = Idle
  BY <1>2, <1>3, <1>5 DEF IInv, Programs
<1>6. CASE t \in Servers
  <2>1. /\ \A r \in Thread : /\ Head(Returns(t, r)) = Send(r, ReplyId(t), NULL)
                             /\ Returns(t, r) # << >>
        /\ Head(MainLoop) = Listen /\ Head(<<Serve>>) = Serve
    BY <1>6, ServerPrograms, MainLoopIs
  <2>2. /\ Listen.do # "beyond" /\ Serve.do # "beyond"
        /\ \A r, id : Send(r, id, NULL).do # "beyond"
    BY DEF Listen, Serve, Recv, Own, Send, Instr
  <2>3. \/ todo[t] = <<Serve>> \/ todo[t] = MainLoop
        \/ \E r \in Thread : todo[t] = Returns(t, r)
    BY <1>6, SystemThreads DEF SInv, ServerSound, Resting
  <2> QED  BY <1>2, <1>3, <2>1, <2>2, <2>3
<1>7. CASE t = TM
  <2>1. TmLooks \/ TmFinds \/ TmWorks \/ TmAsked
    <3>1. ~Sleeps(TM)
      BY <1>1, <1>7 DEF IInv, Typed, KernelSound, SchedSound, Sleeps
    <3> QED  BY <3>1 DEF SInv, TmPhase, Resting, TmSleeps
  <2>2. /\ Listen.do # "beyond" /\ Serve.do # "beyond" /\ RecvMM.do # "beyond"
        /\ \A r, id : Send(r, id, NULL).do # "beyond"
        /\ \A i \in Work : i.do # "beyond"
    BY DEF Listen, Serve, Recv, RecvMM, Own, Send, Instr, Work, OwnWork, CallMM, Call
  <2>3. Head(MainLoop) = Listen /\ Head(<<Serve>>) = Serve /\ MainLoop \in Seq(Instruction)
    BY MainLoopIs
  <2>4. CASE TmLooks \/ TmFinds
    BY <1>2, <1>3, <1>7, <2>2, <2>3, <2>4 DEF TmLooks, TmFinds, Holds
  <2>5. CASE TmAsked
    <3>1. PICK p \in Seq(Instruction) : todo[TM] = Then(RecvMM, p)
      BY <2>5 DEF TmAsked
    <3>2. Head(todo[TM]) = RecvMM
      BY <3>1, ThenProperties, Instructions
    <3> QED  BY <1>2, <1>3, <1>7, <2>2, <3>2
  <2>6. CASE TmWorks
    <3>1. \/ Finish(todo[TM])
          \/ \E i \in Work, q \in Seq(Instruction) : todo[TM] = Then(i, q)
      BY <2>6, WorksStarts DEF TmWorks
    <3>2. CASE Finish(todo[TM])
      <4>1. CASE todo[TM] = MainLoop
        BY <1>2, <1>3, <1>7, <2>2, <2>3, <4>1
      <4>2. CASE \E r \in Thread, id \in AnswerId : todo[TM] = Answer(r, id)
        <5>1. PICK r \in Thread, id \in AnswerId : todo[TM] = Answer(r, id)
          BY <4>2
        <5>2. Send(r, id, NULL) \in Instruction
          <6>1. id \in MessageId
            BY DEF AnswerId, MessageId
          <6> QED  BY <6>1, Instructions
        <5>3. Head(todo[TM]) = Send(r, id, NULL)
          BY <2>3, <5>1, <5>2, ThenProperties DEF Answer
        <5> QED  BY <1>2, <1>3, <1>7, <2>2, <5>3
      <4> QED  BY <3>2, <4>1, <4>2 DEF Finish
    <3>3. CASE \E i \in Work, q \in Seq(Instruction) : todo[TM] = Then(i, q)
      <4>1. PICK i \in Work, q \in Seq(Instruction) : todo[TM] = Then(i, q)
        BY <3>3
      <4>2. i \in Instruction
        BY WorkIs
      <4>3. Head(todo[TM]) = i
        BY <4>1, <4>2, ThenProperties
      <4> QED  BY <1>2, <1>3, <1>7, <2>2, <4>3
    <3> QED  BY <3>1, <3>2, <3>3
  <2> QED  BY <2>1, <2>4, <2>5, <2>6
<1> QED  BY <1>4, <1>5, <1>6, <1>7, KernelThreads DEF Kernel

\* MM has TM's question while TM sleeps until it is answered.
LEMMA Owed ==
    ASSUME IInv, SInv, MmOwes
    PROVE  Owes(MM, TM)
<1>1. k.queue[MM] \in Seq(Message) /\ MM \in Servers /\ ServerSound(MM)
  BY KernelFields, SystemThreads, KernelThreads DEF IInv, Typed, KernelSound, SInv
<1>2. CASE OnceInQueue
  <2>1. PICK j \in 1 .. Len(k.queue[MM]) : k.queue[MM][j].id = "VM_CALL"
    BY <1>2 DEF OnceInQueue
  <2>2. ~Resting(MM)
    BY <2>1 DEF Resting
  <2>3. k.queue[MM][j].from = TM
    BY <1>1, <2>2 DEF ServerSound, FromTm
  <2>4. k.queue[MM][j] \in Range(k.queue[MM])
    BY <1>1 DEF Range
  <2> QED  BY <2>3, <2>4 DEF Owes
<1>3. CASE Taken
  <2>1. k.inbox[MM].from = TM /\ todo[MM] = <<Serve>>
    BY <1>3 DEF Taken, Holds
  <2>2. Own("serve", NULL) = Head(todo[MM])
    BY <2>1, MainLoopIs, TmHeads
  <2> QED  BY <2>1, <2>2 DEF Owes
<1>4. CASE Answering
  <2>1. PICK i \in Instruction : i = Send(TM, "VM_REPLY", NULL)
    <3>1. "VM_REPLY" \in MessageId
      BY DEF MessageId
    <3> QED  BY <3>1, SystemThreads, Instructions
  <2>2. todo[MM] = Then(i, MainLoop)
    BY <1>4, <2>1 DEF Answering, Returns, ReplyId
  <2>3. Range(todo[MM]) = {i, Listen, Serve}
    <3>1. TM \in Thread /\ "VM_REPLY" \in AnswerId \cup {"VM_REPLY", "IO_REPLY"}
      BY SystemThreads
    <3> QED  BY <2>1, <2>2, <3>1, Ranges
  <2>4. i.do = "send" /\ i.to = TM
    BY <2>1 DEF Send, Instr
  <2> QED  BY <2>3, <2>4 DEF Owes
<1> QED  BY <1>2, <1>3, <1>4 DEF MmOwes

\* Nobody waits for a reply that will not come.
LEMMA Served ==
    ASSUME IInv, SInv, UInv
    PROVE  CallsAreServed
<1> SUFFICES ASSUME NEW t \in Thread,
                    Waits(t), k.pend[t].id \in Range(ReplyTo), Exists(k.pend[t].from)
             PROVE  Owes(k.pend[t].from, t)
  BY DEF CallsAreServed
<1>1. WaitsIn(k, t) /\ Sleeps(t)
  BY DEF Waits, Status, WaitsIn, Sleeps
<1>2. t \notin Users
  BY <1>1 DEF UInv, UserSound
<1>3. ~Resting(t)
  BY Replies DEF Resting, Waiting
<1>4. t \notin Servers
  BY <1>1, <1>3 DEF SInv, ServerSound
<1>5. t # Idle
  BY <1>1 DEF IInv, Typed, KernelSound, SchedSound, Active, Sleeps
<1>6. t = TM
  BY <1>2, <1>4, <1>5, KernelThreads DEF Kernel
<1>7. TmSleeps
  BY <1>1, <1>3, <1>6 DEF SInv, TmPhase, TmLooks, TmFinds, TmWorks, TmAsked, Holds
<1>8. k.pend[t].from = MM /\ MmOwes
  BY <1>6, <1>7 DEF TmSleeps, AwaitsReply
<1> QED  BY <1>6, <1>8, Owed

\* No thread whose tmExit has succeeded runs again: TM takes it out of the
\* scheduler before the scheduler can choose it, and automaticThreadExit, which
\* has no code after the system call, is not left.
THEOREM NoGarbageRuns == Spec /\ []NoDriverFaults => []RunsNoGarbage
<1>1. IInv /\ SInv /\ UInv => RunsNoGarbage
  BY NoGarbage
<1> QED  BY <1>1, Promised, PTL

\* A thread that waits for the answer to a call, as genericSyscall makes its
\* caller do, waits for a thread that has the request, or works on it.
THEOREM AllAreServed == Spec /\ []NoDriverFaults => []CallsAreServed
<1>1. IInv /\ SInv /\ UInv => CallsAreServed
  BY Served
<1> QED  BY <1>1, Promised, PTL

=============================================================================
