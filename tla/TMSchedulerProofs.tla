--------------------------- MODULE TMSchedulerProofs ---------------------------
(***************************************************************************)
(* IndInv is an invariant of the scheduler, for any set of threads, any    *)
(* number of priority levels and any assignment of priorities that puts    *)
(* the thread manager at the most urgent one.                              *)
(*                                                                         *)
(* The first part says of each call what it does to a scheduler record     *)
(* that is sound (Sound below); the second part goes through the steps.    *)
(***************************************************************************)
EXTENDS TMScheduler, SchedulerListsProofs

\* The conjuncts of IndInv that speak of the scheduler record alone.
Sound(s) ==
    /\ s \in Scheduler
    /\ s.running \in Thread
    /\ ListsAgree(s)
    /\ \A t \in Thread : s.status[t] = "RUNNING" <=> t = s.running
    /\ \A t \in Thread :
          s.status[t] = "READY" => PriorityOf[s.running] <= PriorityOf[t]
    /\ Active(s, Idle)

\* In r every thread but t is in the same kind of list as in s.
OthersStay(r, s, t) ==
    \A u \in Thread \ {t} :
        /\ Active(r, u) <=> Active(s, u)
        /\ ~Active(s, u) => r.status[u] = s.status[u]

\* The threads of the system are threads, and no level is more urgent than TM's.
LEMMA SystemThreads ==
    /\ TM \in Thread /\ Idle \in Thread /\ TM # Idle
    /\ \A t \in Thread : PriorityOf[TM] <= PriorityOf[t]
BY ThreadsAssumption, SchedulerAssumption DEF Priority

LEMMA TickSound ==
    ASSUME NEW s, Sound(s)
    PROVE  Sound(schedule(s)) /\ OthersStay(schedule(s), s, NULL)
<1> DEFINE r == schedule(s)
<1>1. Scheduled(r, s)
  BY SystemThreads, ScheduleSchedules DEF Sound
<1> HIDE DEF r
<1>2. Sound(r)
  BY <1>1, SystemThreads DEF Scheduled, Sound
<1>3. OthersStay(r, s, NULL)
  BY <1>1 DEF Scheduled, OthersStay
<1> QED  BY <1>2, <1>3 DEF r

\* A handler that wakes u and then schedules.
LEMMA WakeSound ==
    ASSUME NEW s, Sound(s), NEW u \in Thread, s.status[u] = "BLOCKED"
    PROVE  /\ Sound(schedule(schedulerSetReady(s, u)))
           /\ OthersStay(schedule(schedulerSetReady(s, u)), s, u)
           /\ Active(schedule(schedulerSetReady(s, u)), u)
<1> DEFINE q == schedulerSetReady(s, u)
           r == schedule(q)
<1>1. Updated(q, s, u, "READY")
  BY SetReadyAgrees DEF Sound
<1> HIDE DEF q
<1>2. s.status \in [Thread -> SchedStatus]
  BY DEF Sound, Scheduler
<1>3. \A v \in Thread : q.status[v] = IF v = u THEN "READY" ELSE s.status[v]
  BY <1>1, <1>2 DEF Updated
<1>4. /\ q \in Scheduler /\ ListsAgree(q) /\ q.running = s.running
      /\ q.running \in Thread /\ q.running # u
  BY <1>1 DEF Updated, Sound
<1>5. Scheduled(r, q)
  <2>1. q.status[q.running] = "RUNNING"
    BY <1>3, <1>4 DEF Sound
  <2>2. \A v \in Thread : q.status[v] = "RUNNING" => v = q.running
    BY <1>3, <1>4 DEF Sound
  <2>3. Active(q, u)
    BY <1>3 DEF Active
  <2> QED  BY <1>4, <2>1, <2>2, <2>3, ScheduleSchedules
<1> HIDE DEF r
<1>6. \A v \in Thread \ {u} : q.status[v] = s.status[v]
  BY <1>3
<1>7. \A v \in Thread \ {u} : Active(q, v) <=> Active(s, v)
  BY <1>6 DEF Active
<1>8. Idle \in Thread \ {u}
  BY SystemThreads DEF Sound, Active
<1>9. Sound(r)
  BY <1>5, <1>7, <1>8 DEF Scheduled, Sound
<1>10. OthersStay(r, s, u)
  BY <1>5, <1>6, <1>7 DEF Scheduled, OthersStay
<1>11. Active(r, u)
  BY <1>3, <1>5 DEF Scheduled, Active
<1> QED  BY <1>9, <1>10, <1>11 DEF r, q

\* A handler that blocks the running thread and then schedules.
LEMMA SleepSound ==
    ASSUME NEW s, Sound(s), s.running # Idle
    PROVE  /\ Sound(schedule(schedulerSetBlocked(s, s.running)))
           /\ OthersStay(schedule(schedulerSetBlocked(s, s.running)), s,
                         s.running)
           /\ schedule(schedulerSetBlocked(s, s.running)).status[s.running]
                = "BLOCKED"
<1> DEFINE t == s.running
           q == schedulerSetBlocked(s, t)
           r == schedule(q)
<1>0. t \in Thread /\ s.status[t] = "RUNNING"
  BY DEF Sound
<1>1. Updated(q, s, t, "BLOCKED")
  BY <1>0, SetBlockedAgrees DEF Sound
<1> HIDE DEF q
<1>2. s.status \in [Thread -> SchedStatus]
  BY DEF Sound, Scheduler
<1>3. \A v \in Thread : q.status[v] = IF v = t THEN "BLOCKED" ELSE s.status[v]
  BY <1>1, <1>2 DEF Updated
<1>4. /\ q \in Scheduler /\ ListsAgree(q) /\ q.running = t
  BY <1>1 DEF Updated
<1>6. \A v \in Thread \ {t} : q.status[v] = s.status[v]
  BY <1>3
<1>7. \A v \in Thread \ {t} : Active(q, v) <=> Active(s, v)
  BY <1>6 DEF Active
<1>8. Idle \in Thread \ {t} /\ Active(q, Idle)
  BY <1>7, SystemThreads DEF Sound
<1>5. Scheduled(r, q)
  <2>1. q.status[q.running] = "BLOCKED"
    BY <1>0, <1>3, <1>4
  <2>2. \A v \in Thread : q.status[v] = "RUNNING" => v = q.running
    BY <1>3, <1>4 DEF Sound
  <2> QED  BY <1>0, <1>4, <1>8, <2>1, <2>2, ScheduleSchedules
<1> HIDE DEF r
<1>9. Sound(r)
  BY <1>5, <1>7, <1>8 DEF Scheduled, Sound
<1>10. OthersStay(r, s, t)
  BY <1>5, <1>6, <1>7 DEF Scheduled, OthersStay
<1>11. r.status[t] = "BLOCKED"
  <2>1. ~Active(q, t) /\ q.status[t] = "BLOCKED"
    BY <1>0, <1>3 DEF Active
  <2> QED  BY <1>0, <1>5, <2>1 DEF Scheduled
<1> QED  BY <1>9, <1>10, <1>11 DEF r, q

\* A change of the status of one thread, without schedule().
LEMMA UpdateSound ==
    ASSUME NEW s, Sound(s), NEW r, NEW t \in Thread, NEW x \in SchedStatus,
           Updated(r, s, t, x), t # s.running, t # Idle, x # "RUNNING",
           x = "READY" => PriorityOf[s.running] <= PriorityOf[t]
    PROVE  Sound(r) /\ OthersStay(r, s, t) /\ r.status[t] = x
           /\ r.running = s.running
<1>1. s.status \in [Thread -> SchedStatus]
  BY DEF Sound, Scheduler
<1>2. \A v \in Thread : r.status[v] = IF v = t THEN x ELSE s.status[v]
  BY <1>1 DEF Updated
<1>3. r \in Scheduler /\ ListsAgree(r) /\ r.running = s.running
  BY DEF Updated
<1>4. OthersStay(r, s, t)
  BY <1>2 DEF OthersStay, Active
<1>5. Sound(r)
  BY <1>2, <1>3, SystemThreads DEF Sound, Active
<1> QED  BY <1>2, <1>3, <1>4, <1>5

-----------------------------------------------------------------------------
TmType == [op : {"none", "start", "destroy"}, pc : TmPc,
           target : Thread \cup {NULL}, dead : Thread \cup {NULL}]

\* The conjuncts of IndInv that speak of TM, the locks and those who wait.
TmPart ==
    /\ waitsFor \in [Thread -> Thread \cup {ANY, NULL}]
    /\ threadLock \in BOOLEAN
    /\ schedLock \in BOOLEAN
    /\ tm \in TmType
    /\ LockHolderRuns
    /\ TargetUnchanged
    /\ WaitersSleep
    /\ TmKnowsTarget

LEMMA Parts == IndInv <=> Sound(sched) /\ TmPart
BY DEF IndInv, TypeOK, ListsMatchStatus, RunningIsRunning, MostUrgentRuns,
       IdleCanRun, Sound, TmPart, TmType

LEMMA InitInv == Init => IndInv
<1> SUFFICES ASSUME Init PROVE Sound(sched) /\ TmPart
  BY Parts
<1> DEFINE s == [ running |-> TM,
                  status  |-> [t \in Thread |-> IF t = TM THEN "RUNNING"
                                               ELSE IF t \in Permanent THEN "READY"
                                               ELSE "ABSENT"],
                  ready   |-> BootOrder,
                  blocked |-> [p \in Priority |-> {}] ]
<1>1. sched = s
  BY DEF Init
<1>2. /\ s.running = TM
      /\ \A t \in Thread : s.status[t] = IF t = TM THEN "RUNNING"
                                         ELSE IF t \in Permanent THEN "READY"
                                         ELSE "ABSENT"
      /\ s.ready = BootOrder
      /\ \A p \in Priority : s.blocked[p] = {}
  OBVIOUS
<1>3. s \in Scheduler
  <2>1. \A p \in Priority : BootOrder[p] \in Seq(Thread)
    BY ThreadsAssumption, SeqMonotonic
  <2>2. BootOrder \in [Priority -> Seq(Thread)]
    BY <2>1, ThreadsAssumption
  <2> QED  BY <2>2, SystemThreads DEF Scheduler, SchedStatus
<1> HIDE DEF s
<1>4. ASSUME NEW p \in Priority PROVE LevelAgrees(s, p)
  <2>1. IsInjective(BootOrder[p])
        /\ Range(BootOrder[p]) = {t \in Permanent : PriorityOf[t] = p}
    BY ThreadsAssumption
  <2>2. \A t \in Thread : Active(s, t) <=> t \in Permanent
    BY <1>2, ThreadsAssumption DEF Active
  <2>3. {t \in Thread : Active(s, t) /\ PriorityOf[t] = p}
        = {t \in Permanent : PriorityOf[t] = p}
    BY <2>2, ThreadsAssumption
  <2>4. {t \in Thread : s.status[t] = "BLOCKED" /\ PriorityOf[t] = p} = {}
    BY <1>2
  <2> QED  BY <1>2, <2>1, <2>3, <2>4 DEF LevelAgrees
<1>5. Active(s, Idle)
  BY <1>2, SystemThreads, ThreadsAssumption DEF Active
<1>6. Sound(s)
  BY <1>2, <1>3, <1>4, <1>5, SystemThreads DEF Sound, ListsAgree
<1>7. TmPart
  BY DEF Init, Doing, TmPart, TmType, TmPc, LockHolderRuns, TargetUnchanged,
         WaitersSleep, TmKnowsTarget
<1> QED  BY <1>1, <1>6, <1>7

-----------------------------------------------------------------------------
\* A handler that runs while no lock is taken, and neither starts nor ends a
\* thread nor wakes TM's target, does not disturb TM's part of the invariant.
LEMMA HandlerKeepsTmPart ==
    ASSUME TmPart, ~schedLock, ~threadLock, UNCHANGED <<schedLock, threadLock>>,
           tm' = tm \/ (tm.pc = "call" /\ tm' = AfterSyscall(TM)),
           \A v \in Thread :
              sched'.status[v] = "ABSENT" <=> sched.status[v] = "ABSENT",
           waitsFor' \in [Thread -> Thread \cup {ANY, NULL}],
           WaitersSleep',
           tm.pc = "setready" =>
              /\ sched'.status[tm.target] = "BLOCKED"
              /\ waitsFor'[tm.target] = waitsFor[tm.target]
    PROVE  TmPart'
<1>1. /\ threadLock' = FALSE /\ schedLock' = FALSE
      /\ tm' \in TmType
      /\ tm'.target = tm.target /\ tm'.op = tm.op /\ tm'.dead = tm.dead
      /\ \/ tm'.pc = tm.pc
         \/ tm.pc = "call" /\ tm'.pc = IF tm.dead = NULL THEN "serve" ELSE "free"
  BY DEF TmPart, TmType, TmPc, AfterSyscall
<1>2. tm.pc \notin {"tables", "inserting", "readying", "removing"}
  BY DEF TmPart, TmKnowsTarget
<1>3. LockHolderRuns'
  BY <1>1 DEF LockHolderRuns
<1>4. TargetUnchanged'
  BY <1>1, <1>2 DEF TargetUnchanged, TmKnowsTarget, TmPart
<1>5. tm.dead # NULL => tm.dead \in Thread
  BY DEF TmPart, TmType
<1>6. TmKnowsTarget'
  BY <1>1, <1>2, <1>5 DEF TmKnowsTarget, TmPart
<1> QED  BY <1>1, <1>3, <1>4, <1>6 DEF TmPart

LEMMA StepInv == IndInv /\ [Next]_vars => IndInv'
<1> SUFFICES ASSUME IndInv, [Next]_vars PROVE IndInv'
  OBVIOUS
<1>s. Sound(sched) /\ TmPart
  BY Parts
<1>q. Sound(sched') /\ TmPart' => IndInv'
  BY DEF IndInv, TypeOK, ListsMatchStatus, RunningIsRunning, MostUrgentRuns,
         IdleCanRun, Sound, TmPart, TmType
<1>t. /\ sched.status \in [Thread -> SchedStatus]
      /\ sched.running \in Thread
      /\ \A v \in Thread : sched.status[v] = "RUNNING" <=> v = sched.running
  BY <1>s DEF Sound, Scheduler
\* No system call is made while a lock is taken.
<1>l. ASSUME NEW t \in Thread, MakesSyscall(t)
      PROVE  ~schedLock /\ ~threadLock
  BY <1>s, <1>l DEF MakesSyscall, TmPart, LockHolderRuns, TmKnowsTarget
<1>b. tm.pc = "setready" => /\ tm.target \in Thread
                            /\ sched.status[tm.target] = "BLOCKED"
                            /\ waitsFor[tm.target] = tm.dead
  BY <1>s DEF TmPart, TmKnowsTarget, TargetUnchanged
\* A handler that changes only the lists keeps the waiting threads as they are.
<1>h. ASSUME UNCHANGED <<waitsFor, schedLock, threadLock>>, ~schedLock, ~threadLock,
             tm' = tm \/ (tm.pc = "call" /\ tm' = AfterSyscall(TM)),
             OthersStay(sched', sched, NULL)
      PROVE  TmPart'
  <2>1. \A v \in Thread :
           /\ Active(sched', v) <=> Active(sched, v)
           /\ ~Active(sched, v) => sched'.status[v] = sched.status[v]
    BY <1>h, SchedulerAssumption DEF OthersStay
  <2>2. \A v \in Thread :
           /\ sched'.status[v] = "ABSENT" <=> sched.status[v] = "ABSENT"
           /\ sched.status[v] = "BLOCKED" => sched'.status[v] = "BLOCKED"
    BY <2>1 DEF Active
  <2>3. WaitersSleep'
    BY <1>s, <1>h, <2>2 DEF TmPart, WaitersSleep
  <2>4. waitsFor' \in [Thread -> Thread \cup {ANY, NULL}]
    BY <1>s, <1>h DEF TmPart
  <2>5. tm.pc = "setready" => /\ sched'.status[tm.target] = "BLOCKED"
                              /\ waitsFor'[tm.target] = waitsFor[tm.target]
    BY <1>b, <1>h, <2>2
  <2>6. \A v \in Thread :
           sched'.status[v] = "ABSENT" <=> sched.status[v] = "ABSENT"
    BY <2>2
  <2> QED  BY <1>s, <1>h, <2>3, <2>4, <2>5, <2>6, HandlerKeepsTmPart
<1>1. CASE UNCHANGED vars
  <2>1. TmPart'
    BY <1>s, <1>1 DEF vars, TmPart, LockHolderRuns, TargetUnchanged, WaitersSleep,
                      TmKnowsTarget
  <2> QED  BY <1>s, <1>q, <1>1, <2>1 DEF vars
<1>2. CASE ClockInterrupt
  <2>1. CASE schedLock \/ threadLock
    <3>1. sched' = sched /\ UNCHANGED <<waitsFor, threadLock, schedLock, tm>>
      BY <1>2, <2>1 DEF ClockInterrupt, TrySchedule
    <3>2. TmPart'
      BY <1>s, <3>1 DEF TmPart, LockHolderRuns, TargetUnchanged, WaitersSleep,
                        TmKnowsTarget
    <3> QED  BY <1>s, <1>q, <3>1, <3>2
  <2>2. CASE ~schedLock /\ ~threadLock
    <3>1. /\ sched' = schedule(sched)
          /\ UNCHANGED <<waitsFor, threadLock, schedLock, tm>>
      BY <1>2, <2>2 DEF ClockInterrupt, TrySchedule
    <3>2. Sound(sched') /\ OthersStay(sched', sched, NULL)
      BY <1>s, <3>1, TickSound
    <3> QED  BY <1>h, <1>q, <2>2, <3>1, <3>2
  <2> QED  BY <2>1, <2>2
<1>3. ASSUME NEW t \in Thread, NEW u \in Thread, SyscallWakes(t, u)
      PROVE  IndInv'
  <2>1. /\ ~schedLock /\ ~threadLock
        /\ t = sched.running
        /\ sched.status[u] = "BLOCKED" /\ waitsFor[u] \in {ANY, t}
        /\ sched' = schedule(schedulerSetReady(sched, u))
        /\ waitsFor' = [waitsFor EXCEPT ![u] = NULL]
        /\ UNCHANGED <<threadLock, schedLock>>
        /\ tm' = tm \/ (tm.pc = "call" /\ tm' = AfterSyscall(TM))
    BY <1>3, <1>l DEF SyscallWakes, Expects, TrySchedule, MakesSyscall, AfterSyscall
  <2>2. Sound(sched') /\ OthersStay(sched', sched, u) /\ Active(sched', u)
    BY <1>s, <2>1, WakeSound
  <2>3. \A v \in Thread :
           sched'.status[v] = "ABSENT" <=> sched.status[v] = "ABSENT"
    BY <2>1, <2>2 DEF Active, OthersStay
  \* TM's target waits for nobody, or for a thread that is dead, which t is not.
  <2>4. tm.pc = "setready" => u # tm.target
    <3>1. sched.status[t] = "RUNNING"
      BY <1>t, <2>1
    <3>2. tm.dead # NULL => tm.dead \in Thread /\ sched.status[tm.dead] = "ABSENT"
      BY <1>s DEF TmPart, TmType, TmKnowsTarget
    <3>3. tm.dead \notin {ANY, t}
      BY <3>1, <3>2, SchedulerAssumption, ThreadsAssumption
    <3> QED  BY <1>b, <2>1, <3>3
  <2>5. waitsFor' \in [Thread -> Thread \cup {ANY, NULL}]
    BY <1>s, <2>1 DEF TmPart
  <2>6. \A v \in Thread : waitsFor'[v] = IF v = u THEN NULL ELSE waitsFor[v]
    BY <1>s, <2>1 DEF TmPart
  <2>7. \A v \in Thread \ {u} :
           sched.status[v] = "BLOCKED" => sched'.status[v] = "BLOCKED"
    BY <2>2 DEF Active, OthersStay
  <2>8. WaitersSleep'
    BY <1>s, <2>6, <2>7 DEF TmPart, WaitersSleep
  <2>9. tm.pc = "setready" => /\ sched'.status[tm.target] = "BLOCKED"
                              /\ waitsFor'[tm.target] = waitsFor[tm.target]
    BY <1>b, <2>4, <2>6, <2>7
  <2>10. TmPart'
    BY <1>s, <2>1, <2>3, <2>5, <2>8, <2>9, HandlerKeepsTmPart
  <2> QED  BY <1>q, <2>2, <2>10
<1>4. ASSUME NEW t \in Thread, SyscallSchedules(t)
      PROVE  IndInv'
  <2>1. /\ ~schedLock /\ ~threadLock
        /\ sched' = schedule(sched)
        /\ UNCHANGED <<waitsFor, threadLock, schedLock>>
        /\ tm' = tm \/ (tm.pc = "call" /\ tm' = AfterSyscall(TM))
    BY <1>4, <1>l DEF SyscallSchedules, TrySchedule, MakesSyscall, AfterSyscall
  <2>2. Sound(sched') /\ OthersStay(sched', sched, NULL)
    BY <1>s, <2>1, TickSound
  <2> QED  BY <1>h, <1>q, <2>1, <2>2
<1>5. ASSUME NEW t \in Thread, SyscallBlocks(t)
      PROVE  IndInv'
  <2>1. /\ ~schedLock /\ ~threadLock
        /\ t = sched.running /\ t # Idle
        /\ sched' = schedule(schedulerSetBlocked(sched, t))
        /\ UNCHANGED <<threadLock, schedLock, tm>>
    BY <1>5, <1>l DEF SyscallBlocks, TrySchedule, MakesSyscall
  <2>2. PICK from \in Thread \cup {ANY} : waitsFor' = [waitsFor EXCEPT ![t] = from]
    BY <1>5 DEF SyscallBlocks
  <2>3. /\ Sound(sched') /\ OthersStay(sched', sched, t)
        /\ sched.status[t] = "RUNNING" /\ sched'.status[t] = "BLOCKED"
    BY <1>s, <1>t, <2>1, SleepSound
  <2>4. \A v \in Thread :
           sched'.status[v] = "ABSENT" <=> sched.status[v] = "ABSENT"
    BY <2>3 DEF Active, OthersStay
  <2>5. waitsFor' \in [Thread -> Thread \cup {ANY, NULL}]
        /\ \A v \in Thread \ {t} : waitsFor'[v] = waitsFor[v]
    BY <1>s, <2>2 DEF TmPart
  <2>6. \A v \in Thread :
           sched.status[v] = "BLOCKED" => sched'.status[v] = "BLOCKED"
    BY <2>3 DEF Active, OthersStay
  <2>7. WaitersSleep'
    BY <1>s, <2>3, <2>5, <2>6 DEF TmPart, WaitersSleep
  <2>8. tm.pc = "setready" => /\ sched'.status[tm.target] = "BLOCKED"
                              /\ waitsFor'[tm.target] = waitsFor[tm.target]
    BY <1>b, <2>3, <2>5, <2>6
  <2>9. TmPart'
    BY <1>s, <2>1, <2>4, <2>5, <2>7, <2>8, HandlerKeepsTmPart
  <2> QED  BY <1>q, <2>3, <2>9
<1>6. CASE TmBegin
  <2>1. /\ UNCHANGED <<sched, waitsFor, schedLock>>
        /\ sched.running = TM /\ tm.pc = "serve" /\ threadLock' = TRUE
    BY <1>6 DEF TmBegin, At
  <2>2. PICK t \in Thread \ Permanent :
           tm' = Doing(IF sched.status[t] = "ABSENT" THEN "start" ELSE "destroy",
                       "tables", t, NULL)
    BY <1>6 DEF TmBegin
  <2>3. ~schedLock
    BY <1>s, <2>1 DEF TmPart, TmKnowsTarget
  <2>4. /\ tm' \in TmType
        /\ tm'.pc = "tables" /\ tm'.target = t /\ tm'.dead = NULL
        /\ IF tm'.op = "start" THEN sched.status[t] = "ABSENT"
                               ELSE sched.status[t] # "ABSENT"
    BY <2>2 DEF Doing, TmType, TmPc
  <2>5. TmPart'
    BY <1>s, <2>1, <2>3, <2>4
       DEF TmPart, LockHolderRuns, TargetUnchanged, WaitersSleep, TmKnowsTarget
  <2> QED  BY <1>q, <1>s, <2>1, <2>5
<1>7. CASE TmTables
  <2>1. /\ UNCHANGED <<sched, waitsFor, schedLock>> /\ threadLock' = FALSE
        /\ tm.pc = "tables"
        /\ tm' = [tm EXCEPT !.pc = IF tm.op = "start" THEN "insert" ELSE "remove"]
    BY <1>7 DEF TmTables, At
  <2>2. TmPart'
    BY <1>s, <2>1
       DEF TmPart, TmType, TmPc, LockHolderRuns, TargetUnchanged, WaitersSleep,
           TmKnowsTarget
  <2> QED  BY <1>q, <1>s, <2>1, <2>2
<1>8. CASE TmLock
  <2>1. /\ UNCHANGED <<sched, waitsFor, threadLock>> /\ schedLock' = TRUE
        /\ sched.running = TM
    BY <1>8 DEF TmLock
  <2>2. \/ tm.pc = "insert"   /\ tm' = [tm EXCEPT !.pc = "inserting"]
        \/ tm.pc = "setready" /\ tm' = [tm EXCEPT !.pc = "readying"]
        \/ tm.pc = "remove"   /\ tm' = [tm EXCEPT !.pc = "removing"]
    BY <1>8 DEF TmLock
  <2>3. tm.pc = "remove" => sched.status[tm.target] \in {"READY", "BLOCKED"}
    BY <1>s, <1>t, <2>1, ThreadsAssumption DEF TmPart, TmKnowsTarget, SchedStatus
  <2>4. TmPart'
    BY <1>s, <2>1, <2>2, <2>3
       DEF TmPart, TmType, TmPc, LockHolderRuns, TargetUnchanged, WaitersSleep,
           TmKnowsTarget
  <2> QED  BY <1>q, <1>s, <2>1, <2>4
\* The three steps that change the lists with schedLock taken: the target neither
\* has the processor nor is the idle thread, which is never ABSENT or BLOCKED.
<1>u. ASSUME tm.pc \in {"inserting", "readying", "removing"},
             sched.running = TM
      PROVE  /\ tm.target \in Thread
             /\ sched.status[tm.target] # "RUNNING"
             /\ tm.target # sched.running /\ tm.target # Idle
             /\ PriorityOf[sched.running] <= PriorityOf[tm.target]
             /\ ~threadLock
  <2>1. tm.target \in Thread /\ ~threadLock
    BY <1>s, <1>u, ThreadsAssumption DEF TmPart, TmKnowsTarget
  <2>2. /\ sched.status[tm.target] # "RUNNING"
        /\ tm.pc = "removing" \/ ~Active(sched, tm.target)
    BY <1>s, <1>u DEF TmPart, TargetUnchanged, Active
  <2>3. tm.pc = "removing" => tm.target # Idle
    BY <1>s, ThreadsAssumption DEF TmPart, TmKnowsTarget
  <2>4. tm.target # Idle
    BY <1>s, <2>2, <2>3 DEF Sound
  <2> QED  BY <1>t, <1>u, <2>1, <2>2, <2>4, SystemThreads
\* What such a step does to the threads but its target.
<1>v. ASSUME NEW x \in SchedStatus, Updated(sched', sched, tm.target, x),
             tm.target \in Thread, OthersStay(sched', sched, tm.target),
             sched'.status[tm.target] = x,
             waitsFor' = [waitsFor EXCEPT ![tm.target] = NULL]
      PROVE  /\ waitsFor' \in [Thread -> Thread \cup {ANY, NULL}]
             /\ waitsFor'[tm.target] = NULL
             /\ WaitersSleep'
             /\ \A v \in Thread \ {tm.target} :
                   sched'.status[v] = sched.status[v]
  <2>1. \A v \in Thread \ {tm.target} : sched'.status[v] = sched.status[v]
    BY <1>t, <1>v DEF Updated
  <2>2. /\ waitsFor' \in [Thread -> Thread \cup {ANY, NULL}]
        /\ \A v \in Thread : waitsFor'[v] = IF v = tm.target THEN NULL ELSE waitsFor[v]
    BY <1>s, <1>v DEF TmPart
  <2>3. WaitersSleep'
    BY <1>s, <2>1, <2>2 DEF TmPart, WaitersSleep
  <2> QED  BY <1>v, <2>1, <2>2, <2>3
<1>9. CASE TmInsert
  <2>1. /\ sched.running = TM /\ tm.pc = "inserting"
        /\ sched' = schedulerInsert(sched, tm.target)
        /\ waitsFor' = [waitsFor EXCEPT ![tm.target] = NULL]
        /\ schedLock' = FALSE /\ threadLock' = threadLock
        /\ tm' = [tm EXCEPT !.pc = "setready"]
    BY <1>9 DEF TmInsert, At
  <2>2. sched.status[tm.target] = "ABSENT"
    BY <1>s, <2>1 DEF TmPart, TargetUnchanged
  <2>3. Updated(sched', sched, tm.target, "BLOCKED")
    BY <1>s, <1>u, <2>1, <2>2, InsertAgrees DEF Sound
  <2>4. /\ Sound(sched') /\ sched'.status[tm.target] = "BLOCKED"
        /\ sched'.running = sched.running /\ OthersStay(sched', sched, tm.target)
    BY <1>s, <1>u, <2>1, <2>3, UpdateSound DEF SchedStatus
  <2>5. /\ waitsFor' \in [Thread -> Thread \cup {ANY, NULL}]
        /\ waitsFor'[tm.target] = NULL /\ WaitersSleep'
    BY <1>u, <1>v, <2>1, <2>3, <2>4 DEF SchedStatus
  <2>6. TmPart'
    BY <1>s, <1>u, <2>1, <2>4, <2>5
       DEF TmPart, TmType, TmPc, LockHolderRuns, TargetUnchanged, TmKnowsTarget
  <2> QED  BY <1>q, <2>4, <2>6
<1>10. CASE TmSetReady
  <2>1. /\ sched.running = TM /\ tm.pc = "readying"
        /\ sched' = SwapToReady(sched, tm.target)
        /\ waitsFor' = [waitsFor EXCEPT ![tm.target] = NULL]
        /\ schedLock' = FALSE /\ threadLock' = threadLock
        /\ tm' = AfterReady
    BY <1>10 DEF TmSetReady, At
  <2>2. sched.status[tm.target] = "BLOCKED"
    BY <1>s, <2>1 DEF TmPart, TargetUnchanged
  <2>3. sched' = schedulerSetReady(sched, tm.target)
    BY <2>1, <2>2 DEF schedulerSetReady
  <2>4. Updated(sched', sched, tm.target, "READY")
    BY <1>s, <1>u, <2>1, <2>2, <2>3, SetReadyAgrees DEF Sound
  <2>5. /\ Sound(sched') /\ sched'.status[tm.target] = "READY"
        /\ OthersStay(sched', sched, tm.target)
    BY <1>s, <1>u, <2>1, <2>4, UpdateSound DEF SchedStatus
  <2>6. /\ waitsFor' \in [Thread -> Thread \cup {ANY, NULL}] /\ WaitersSleep'
        /\ \A v \in Thread \ {tm.target} : sched'.status[v] = sched.status[v]
    BY <1>u, <1>v, <2>1, <2>4, <2>5 DEF SchedStatus
  <2>7. /\ tm' \in TmType
        /\ tm'.target = NULL /\ tm'.dead = tm.dead
        /\ tm'.pc \in {"call", "free"}
    BY <1>s, <2>1 DEF AfterReady, Doing, TmPart, TmType, TmPc
  <2>8. tm'.dead # NULL => sched'.status[tm'.dead] = "ABSENT"
    <3>1. tm.dead # NULL => tm.dead \in Thread /\ sched.status[tm.dead] = "ABSENT"
      BY <1>s DEF TmPart, TmType, TmKnowsTarget
    <3> QED  BY <2>2, <2>6, <2>7, <3>1
  <2>9. TmPart'
    BY <1>s, <1>u, <2>1, <2>6, <2>7, <2>8
       DEF TmPart, LockHolderRuns, TargetUnchanged, TmKnowsTarget
  <2> QED  BY <1>q, <2>5, <2>9
<1>11. CASE TmRemove
  <2>1. /\ sched.running = TM /\ tm.pc = "removing"
        /\ sched' = schedulerRemove(sched, tm.target)
        /\ waitsFor' = [waitsFor EXCEPT ![tm.target] = NULL]
        /\ schedLock' = FALSE /\ threadLock' = threadLock
        /\ tm' = Doing("none", "call", NULL, tm.target)
    BY <1>11 DEF TmRemove, At
  <2>2. Updated(sched', sched, tm.target, "ABSENT")
    BY <1>s, <1>u, <2>1, RemoveAgrees DEF Sound
  <2>3. /\ Sound(sched') /\ sched'.status[tm.target] = "ABSENT"
        /\ OthersStay(sched', sched, tm.target)
    BY <1>s, <1>u, <2>1, <2>2, UpdateSound DEF SchedStatus
  <2>4. waitsFor' \in [Thread -> Thread \cup {ANY, NULL}] /\ WaitersSleep'
    BY <1>u, <1>v, <2>1, <2>2, <2>3 DEF SchedStatus
  <2>5. /\ tm' \in TmType
        /\ tm'.pc = "call" /\ tm'.target = NULL /\ tm'.dead = tm.target
    BY <1>u, <2>1 DEF Doing, TmType, TmPc
  <2>6. TmPart'
    BY <1>s, <1>u, <2>1, <2>3, <2>4, <2>5
       DEF TmPart, LockHolderRuns, TargetUnchanged, TmKnowsTarget
  <2> QED  BY <1>q, <2>3, <2>6
<1>12. CASE TmFree
  <2>1. /\ UNCHANGED <<sched, waitsFor, threadLock, schedLock>> /\ tm.pc = "free"
        /\ \/ tm' = Doing("none", "serve", NULL, NULL)
           \/ \E u \in Thread : /\ sched.status[u] = "BLOCKED" /\ waitsFor[u] = tm.dead
                                /\ tm' = Doing("none", "setready", u, tm.dead)
    BY <1>12 DEF TmFree, At
  <2>2. ~schedLock /\ ~threadLock
    BY <1>s, <2>1 DEF TmPart, TmKnowsTarget
  <2>3. CASE tm' = Doing("none", "serve", NULL, NULL)
    <3>1. tm' \in TmType /\ tm'.pc = "serve" /\ tm'.target = NULL /\ tm'.dead = NULL
      BY <2>3 DEF Doing, TmType, TmPc
    <3>2. TmPart'
      BY <1>s, <2>1, <2>2, <3>1
         DEF TmPart, LockHolderRuns, TargetUnchanged, WaitersSleep, TmKnowsTarget
    <3> QED  BY <1>q, <1>s, <2>1, <3>2
  <2>4. ASSUME NEW u \in Thread, sched.status[u] = "BLOCKED", waitsFor[u] = tm.dead,
               tm' = Doing("none", "setready", u, tm.dead)
        PROVE  IndInv'
    <3>1. /\ tm' \in TmType
          /\ tm'.pc = "setready" /\ tm'.target = u /\ tm'.dead = tm.dead
      BY <1>s, <2>4 DEF Doing, TmPart, TmType, TmPc
    <3>2. TmPart'
      BY <1>s, <2>1, <2>2, <2>4, <3>1
         DEF TmPart, LockHolderRuns, TargetUnchanged, WaitersSleep, TmKnowsTarget
    <3> QED  BY <1>q, <1>s, <2>1, <3>2
  <2> QED  BY <2>1, <2>3, <2>4
<1> QED  BY <1>1, <1>2, <1>3, <1>4, <1>5, <1>6, <1>7, <1>8, <1>9, <1>10, <1>11, <1>12
         DEF Next, Syscall, TmStep

-----------------------------------------------------------------------------
\* IndInv holds in every reachable state.
THEOREM Invariant == Spec => []IndInv
<1>1. Init => IndInv
  BY InitInv
<1>2. IndInv /\ [Next]_vars => IndInv'
  BY StepInv
<1> QED  BY <1>1, <1>2, PTL DEF Spec

\* Every variable has its type, and a thread always owns the processor.
THEOREM TypeCorrect == Spec => []TypeOK
<1>1. IndInv => TypeOK
  BY DEF IndInv
<1> QED  BY <1>1, Invariant, PTL

\* The lists of the scheduler and the status fields of the threads agree,
\* whatever the interrupts and system calls do between TM's steps.
THEOREM ListsCorrect == Spec => []ListsMatchStatus
<1>1. IndInv => ListsMatchStatus
  BY DEF IndInv
<1> QED  BY <1>1, Invariant, PTL

\* Outside a handler scheduler.running is the one RUNNING thread.
THEOREM RunningCorrect == Spec => []RunningIsRunning
<1>1. IndInv => RunningIsRunning
  BY DEF IndInv
<1> QED  BY <1>1, Invariant, PTL

\* The processor never belongs to a thread while a more urgent one is READY.
THEOREM PrioritiesRespected == Spec => []MostUrgentRuns
<1>1. IndInv => MostUrgentRuns
  BY DEF IndInv
<1> QED  BY <1>1, Invariant, PTL

\* No handler ever finds schedLock taken by a thread it interrupted, except
\* schedule(), which gives up: a lock holder is the running thread.
THEOREM LocksCorrect == Spec => []LockHolderRuns
<1>1. IndInv => LockHolderRuns
  BY DEF IndInv
<1> QED  BY <1>1, Invariant, PTL

\* What TM checked before it took schedLock is still so under the lock.
THEOREM TargetStable == Spec => []TargetUnchanged
<1>1. IndInv => TargetUnchanged
  BY DEF IndInv
<1> QED  BY <1>1, Invariant, PTL
=============================================================================
